----------------------------- MODULE RunEngine -----------------------------
(***************************************************************************)
(* One research run (a row of `jobs`), the engine that executes it and     *)
(* everybody who writes to it while it executes.                           *)
(*                                                                         *)
(* The database holds the job's status, one row per step, the standing     *)
(* cancellation and the gate decisions.  Redis holds the queue entries     *)
(* naming the job.  An executor is a process that calls                    *)
(* services.runs.execute: an arq worker (it takes a queue entry) or an     *)
(* `aer step` command (it executes inline, without the queue).  The web    *)
(* process decides gates, cancels, resumes and starts again, each handler  *)
(* reading the job before it writes it.                                    *)
(*                                                                         *)
(* An executor keeps the job it loaded: `expire_on_commit=False` means     *)
(* that what other processes commit later is not seen in `job.status` and  *)
(* `job.step_mode`, only in the rows the engine queries afresh.  Hence     *)
(* each executor has its own copy of both beside the database's.           *)
(***************************************************************************)
EXTENDS Naturals, FiniteSets, Functions

CONSTANTS
  Steps,          \* the step keys of the workflow
  Needs,          \* Needs[s]: the steps s waits for
  Sequence,       \* Sequence[s]: the position s was declared at
  Gates,          \* the steps that wait for a recorded decision
  EvidenceGates,  \* the gates that check the evidence before the decision
  Conditional,    \* the gates later gates do not insist on
  Waived,         \* the conditional gates this run finds nothing to ask at
  GateRank,       \* GateRank[g]: the place of g in GATE_ORDER
  Paid,           \* the steps that project a cost
  Closing,        \* the step that writes the report (`render`)
  MaxParallel,    \* the widest wave
  Workers,        \* arq worker processes
  Shells,         \* `aer step` commands
  QueueMayRefuse, \* may an enqueue be lost (Redis away)?
  MaxTickets,     \* bound: queue entries and inline executions ever made
  MaxCrashes      \* bound: executors that die or time out mid-run

Executors == Workers \cup Shells

(* What WorkflowEngine.__init__ establishes: needs point backwards in the  *)
(* declaration, so every set of steps has one that waits for none of it;   *)
(* and what vertical_slice_v1.build_steps declares: `render` waits,        *)
(* directly or not, for every other step.                                  *)
ASSUME StepsAssumption ==
  /\ IsFiniteSet(Steps)
  /\ Needs \in [Steps -> SUBSET Steps]
  /\ Sequence \in [Steps -> Nat]
  /\ \A s, t \in Steps : Sequence[s] = Sequence[t] => s = t
  /\ \A P \in SUBSET Steps : P # {} => \E s \in P : Needs[s] \cap P = {}
  /\ Closing \in Steps \ Gates
  /\ \A C \in SUBSET Steps :
       (Closing \in C /\ \A s \in C : Needs[s] \subseteq C) => C = Steps

ASSUME GatesAssumption ==
  /\ Gates \subseteq Steps
  /\ EvidenceGates \subseteq Gates
  /\ Conditional \subseteq Gates
  /\ Waived \subseteq Conditional
  /\ GateRank \in [Gates -> Nat]
  /\ Paid \subseteq Steps \ Gates

ASSUME BoundsAssumption ==
  /\ MaxParallel \in Nat \ {0}
  /\ QueueMayRefuse \in BOOLEAN
  /\ MaxTickets \in Nat
  /\ MaxCrashes \in Nat
  /\ Workers \cap Shells = {}

VARIABLES
  jobStatus,   \* jobs.status
  stepMode,    \* jobs.step_mode
  row,         \* row[s]: job_steps.status of s, "NONE" before its first attempt
  cancelled,   \* a job_cancellations row stands for this job
  decision,    \* decision[g]: what the approvals row for gate g says
  queue,       \* queue entries in Redis that name this job
  pc,          \* pc[e]: where executor e is
  known,       \* known[e]: job.status as e last knew it
  stepping,    \* stepping[e]: job.step_mode as e loaded it
  outputs,     \* outputs[e]: the steps whose output e holds
  pending,     \* pending[e]: the steps e has still to schedule
  abandoned,   \* abandoned[e]: failed, or behind a failure
  failure,     \* failure[e]: first_failure is not None
  node,        \* node[e][s]: how far e's round has got with s
  web,         \* the web request being handled, with the status it read
  done,        \* history: the steps that have ever been recorded SUCCEEDED
  tickets,     \* entries and inline executions made so far (bounded)
  crashes      \* executors lost so far (bounded)

db      == <<jobStatus, stepMode, row, cancelled, decision>>
memory  == <<known, stepping>>
graph   == <<outputs, pending, abandoned, failure>>
exec    == <<pc, memory, graph, node>>
history == <<done, tickets, crashes>>
vars    == <<jobStatus, stepMode, row, cancelled, decision, queue,
             pc, known, stepping, outputs, pending, abandoned, failure, node,
             web, done, tickets, crashes>>

JobStatus == {"QUEUED", "RUNNING", "PAUSED", "AWAITING_APPROVAL", "SUCCEEDED",
              "FAILED", "CANCELLED", "BUDGET_EXCEEDED"}
Terminal  == {"SUCCEEDED", "FAILED", "CANCELLED"}
Stopped   == {"AWAITING_APPROVAL", "PAUSED", "BUDGET_EXCEEDED"}
RowStatus == {"NONE", "RUNNING", "SUCCEEDED", "FAILED", "AWAITING_APPROVAL",
              "BUDGET_EXCEEDED"}

(* An approval carries the hash of what was approved.  "MISMATCHED" is an  *)
(* approval of something other than what the run produced.                 *)
Verdict   == {"NONE", "APPROVED", "MISMATCHED", "REJECTED"}

(* How far a step has got inside the round its executor is in: not in it,  *)
(* admitted, refused by the budget guard, running, at a gate that is open  *)
(* or shut, come to an outcome, or declined (the refusal is on its row).   *)
Phase   == {"out", "admitted", "refused", "running", "open", "shut",
            "succeeded", "failed", "awaiting", "overbudget", "declined"}
Outcome == {"succeeded", "failed", "awaiting", "overbudget"}
Paused  == {"awaiting", "overbudget"}

Control == {"idle", "loaded", "round", "serial", "wave"}
Web == [op : {"none", "cancel", "resume"}, saw : JobStatus, clears : BOOLEAN]

NoNode == [s \in Steps |-> "out"]
NoRequest == [op |-> "none", saw |-> "QUEUED", clears |-> FALSE]

TypeOK ==
  /\ jobStatus \in JobStatus
  /\ stepMode \in BOOLEAN
  /\ row \in [Steps -> RowStatus]
  /\ cancelled \in BOOLEAN
  /\ decision \in [Gates -> Verdict]
  /\ queue \in Nat
  /\ pc \in [Executors -> Control]
  /\ known \in [Executors -> JobStatus]
  /\ stepping \in [Executors -> BOOLEAN]
  /\ outputs \in [Executors -> SUBSET Steps]
  /\ pending \in [Executors -> SUBSET Steps]
  /\ abandoned \in [Executors -> SUBSET Steps]
  /\ failure \in [Executors -> BOOLEAN]
  /\ node \in [Executors -> [Steps -> Phase]]
  /\ web \in Web
  /\ done \in SUBSET Steps
  /\ tickets \in Nat
  /\ crashes \in Nat

(* start_run has just created the job; its entry may not have reached      *)
(* Redis.                                                                  *)
Init ==
  /\ jobStatus = "QUEUED"
  /\ stepMode = FALSE
  /\ row = [s \in Steps |-> "NONE"]
  /\ cancelled = FALSE
  /\ decision = [g \in Gates |-> "NONE"]
  /\ queue \in IF QueueMayRefuse THEN {0, 1} ELSE {1}
  /\ pc = [e \in Executors |-> "idle"]
  /\ known = [e \in Executors |-> "QUEUED"]
  /\ stepping = [e \in Executors |-> FALSE]
  /\ outputs = [e \in Executors |-> {}]
  /\ pending = [e \in Executors |-> {}]
  /\ abandoned = [e \in Executors |-> {}]
  /\ failure = [e \in Executors |-> FALSE]
  /\ node = [e \in Executors |-> NoNode]
  /\ web = NoRequest
  /\ done = {}
  /\ tickets = 1
  /\ crashes = 0

-----------------------------------------------------------------------------
(* The queue.                                                              *)

(* One more entry, or none when Redis is away: enqueue_run logs and        *)
(* returns None.  The bound on tickets stands for the operator's patience. *)
Enqueue ==
  /\ tickets < MaxTickets
  /\ tickets' = tickets + 1
  /\ \/ queue' = queue + 1
     \/ QueueMayRefuse /\ queue' = queue

Goto(e, label) == pc' = [pc EXCEPT ![e] = label]

(* The executor has loaded the job and not yet looked at it.               *)
Load(e, status, mode) ==
  /\ Goto(e, "loaded")
  /\ known' = [known EXCEPT ![e] = status]
  /\ stepping' = [stepping EXCEPT ![e] = mode]
  /\ UNCHANGED <<graph, node>>

(* What an executor held goes with it.                                     *)
Rest(e) ==
  /\ Goto(e, "idle")
  /\ known' = [known EXCEPT ![e] = "QUEUED"]
  /\ stepping' = [stepping EXCEPT ![e] = FALSE]
  /\ outputs' = [outputs EXCEPT ![e] = {}]
  /\ pending' = [pending EXCEPT ![e] = {}]
  /\ abandoned' = [abandoned EXCEPT ![e] = {}]
  /\ failure' = [failure EXCEPT ![e] = FALSE]
  /\ node' = [node EXCEPT ![e] = NoNode]

(* arq hands a free worker an entry; run_research loads the job and reads  *)
(* the settings before execute looks at the status.                        *)
Dequeue(w) ==
  /\ pc[w] = "idle"
  /\ queue > 0
  /\ queue' = queue - 1
  /\ Load(w, jobStatus, stepMode)
  /\ UNCHANGED <<db, web, history>>

(* `aer step`: a FAILED run is resumed first, step mode is turned on, and  *)
(* the execution follows in this process.  A run that SUCCEEDED is left    *)
(* alone and set_step_mode refuses a CANCELLED one.                        *)
StepOnce(c) ==
  /\ pc[c] = "idle"
  /\ jobStatus \notin {"SUCCEEDED", "CANCELLED"}
  /\ tickets < MaxTickets
  /\ tickets' = tickets + 1
  /\ stepMode' = TRUE
  /\ jobStatus' = IF jobStatus = "FAILED" THEN "QUEUED" ELSE jobStatus
  /\ Load(c, jobStatus', TRUE)
  /\ UNCHANGED <<row, cancelled, decision, queue, web, done, crashes>>

-----------------------------------------------------------------------------
(* execute and the engine's loop.                                          *)

(* Mutant: a way out of the engine that leaves jobs.status alone. *)
StopSilently(e, verdict) == UNCHANGED jobStatus /\ Rest(e)

(* An executor that stops here leaves `verdict` in jobs.status.            *)
StopWith(e, verdict) == jobStatus' = verdict /\ Rest(e)

(* Mutant: only a QUEUED job is taken. *)
InProgressUnlessQueued(e) == known[e] # "QUEUED"

(* execute: the status it tests is the one it loaded.  RUNNING means       *)
(* another execution holds the run and the entry is spent for nothing;     *)
(* any other status, a terminal one included, is taken over.               *)
InProgress(e) == known[e] = "RUNNING"

Execute(e) ==
  /\ pc[e] = "loaded"
  /\ \/ /\ InProgress(e)
        /\ Rest(e)
        /\ UNCHANGED jobStatus
     \/ /\ ~InProgress(e)
        /\ jobStatus' = "RUNNING"
        /\ Goto(e, "round")
        /\ known' = [known EXCEPT ![e] = "RUNNING"]
        /\ pending' = [pending EXCEPT ![e] = Steps]
        /\ UNCHANGED <<stepping, outputs, abandoned, failure, node>>
  /\ UNCHANGED <<stepMode, row, cancelled, decision, queue, web, history>>

(* The round's view: what a failure upstream takes out of it, what is      *)
(* left, and what of that may run now, its output stored already or not.   *)
(* Mutants of Stored: a step is run whatever its row says; a step that     *)
(* waited for approval counts as done.                                     *)
Blocked(e)   == {s \in pending[e] : Needs[s] \cap abandoned[e] # {}}
Remaining(e) == pending[e] \ Blocked(e)
Ready(e)     == {s \in Remaining(e) : Needs[s] \subseteq outputs[e]}
StoredNever(e)    == {}
StoredIfWaited(e) == {s \in Ready(e) : row[s] \in {"SUCCEEDED", "AWAITING_APPROVAL"}}
Stored(e)    == {s \in Ready(e) : row[s] = "SUCCEEDED"}
Fresh(e)     == Ready(e) \ Stored(e)

Before(s, t)  == Sequence[s] < Sequence[t]
OneAtATime(e) == Cardinality(Fresh(e)) = 1 \/ MaxParallel = 1 \/ stepping[e]

(* What the round does before it runs anything: abandon the blocked steps, *)
(* take the stored outputs, and take `chosen` out of the pending ones.     *)
TakeStock(e, chosen) ==
  /\ abandoned' = [abandoned EXCEPT ![e] = @ \cup Blocked(e)]
  /\ outputs' = [outputs EXCEPT ![e] = @ \cup Stored(e)]
  /\ pending' = [pending EXCEPT ![e] = (Remaining(e) \ Stored(e)) \ chosen]
  /\ UNCHANGED <<memory, failure>>

(* Mutant: the cancellation is only looked for when there is nothing else. *)
GoesOnRegardless(e) == pc[e] = "round"

(* Every round with work left looks for a cancellation first.              *)
GoesOn(e) == pc[e] = "round" /\ ~cancelled

Cancel(e) ==
  /\ pc[e] = "round"
  /\ pending[e] # {}
  /\ cancelled
  /\ StopWith(e, "CANCELLED")
  /\ UNCHANGED <<stepMode, row, cancelled, decision, queue, web, history>>

(* Steps already recorded SUCCEEDED are taken from their rows; with        *)
(* nothing else ready the loop goes round again.                           *)
Skip(e) ==
  /\ GoesOn(e)
  /\ Stored(e) # {}
  /\ Fresh(e) = {}
  /\ TakeStock(e, {})
  /\ UNCHANGED <<db, queue, pc, node, web, history>>

(* The serial path takes the first ready step.                             *)
TakeOne(e) ==
  /\ GoesOn(e)
  /\ OneAtATime(e)
  /\ \E s \in Fresh(e) :
       /\ \A t \in Fresh(e) : ~Before(t, s)
       /\ TakeStock(e, {s})
       /\ node' = [node EXCEPT ![e] = [NoNode EXCEPT ![s] = "admitted"]]
  /\ Goto(e, "serial")
  /\ UNCHANGED <<db, queue, web, history>>

(* The wave is the first MaxParallel ready steps.  The budget guard may    *)
(* refuse one of those that cost something; the ones before it drain and   *)
(* the ones after it are not started.                                      *)
InWave(e, s) ==
  s \in Fresh(e) /\ Cardinality({t \in Fresh(e) : Before(t, s)}) < MaxParallel

Admission(e, refused) ==
  [s \in Steps |->
     IF s \in refused THEN "refused"
     ELSE IF InWave(e, s) /\ \A r \in refused : Before(s, r) THEN "admitted" ELSE "out"]

TakeWave(e) ==
  /\ GoesOn(e)
  /\ ~OneAtATime(e)
  /\ Fresh(e) # {}
  /\ \E refused \in {{}} \cup {{s} : s \in {t \in Paid : InWave(e, t)}} :
       node' = [node EXCEPT ![e] = Admission(e, refused)]
  /\ TakeStock(e, {})
  /\ Goto(e, "wave")
  /\ UNCHANGED <<db, queue, web, history>>

(* Mutant: steps behind a failure are waited for. *)
NothingPending(e) == pending[e] = {}

(* The loop is over: nothing pending, or nothing that can become ready.    *)
NothingLeft(e) == pending[e] = {} \/ (~cancelled /\ Ready(e) = {})

(* Mutant: a run that got to the end succeeded. *)
FinishRegardless(e) ==
  /\ pc[e] = "round"
  /\ NothingLeft(e)
  /\ StopWith(e, "SUCCEEDED")
  /\ UNCHANGED <<stepMode, row, cancelled, decision, queue, web, history>>

(* A failure seen on the way is the run's status; otherwise execute        *)
(* records success unless the closing step already has.                    *)
Finish(e) ==
  /\ pc[e] = "round"
  /\ NothingLeft(e)
  /\ \/ failure[e] /\ StopWith(e, "FAILED")
     \/ ~failure[e] /\ known[e] = "RUNNING" /\ StopWith(e, "SUCCEEDED")
     \/ ~failure[e] /\ known[e] # "RUNNING" /\ Rest(e) /\ UNCHANGED jobStatus
  /\ UNCHANGED <<stepMode, row, cancelled, decision, queue, web, history>>

-----------------------------------------------------------------------------
(* A step, on either path: its row is published RUNNING, it runs, and its  *)
(* outcome is committed.                                                   *)

Advance(e, s, from, to) ==
  /\ node[e][s] = from
  /\ node' = [node EXCEPT ![e][s] = to]
  /\ UNCHANGED <<pc, memory, graph>>

StartStep(e, s) ==
  /\ Advance(e, s, "admitted", "running")
  /\ row' = [row EXCEPT ![s] = "RUNNING"]
  /\ UNCHANGED <<jobStatus, stepMode, cancelled, decision, queue, web, history>>

(* A gate step reads the decision some time before its outcome commits.    *)
(* A gate with nothing to ask opens without one; the final gate pauses on  *)
(* unsupported evidence whatever was decided.                              *)
MayOpen(g) == decision[g] = "APPROVED" \/ g \in Waived

ReadGate(e, s) ==
  /\ s \in Gates
  /\ \/ /\ MayOpen(s)
        /\ Advance(e, s, "running", "open")
     \/ /\ ~MayOpen(s) \/ s \in EvidenceGates
        /\ Advance(e, s, "running", "shut")
  /\ UNCHANGED <<db, queue, web, history>>

(* What step s can come to.  A model call inside a paid step may hit the   *)
(* cap, and so may the guard before it.                                    *)
CanEnd(phase, s, o) ==
  \/ s \in Gates /\ phase = "open" /\ o = "succeeded"
  \/ s \in Gates /\ phase = "shut" /\ o = "awaiting"
  \/ s \notin Gates /\ phase = "running" /\ o = "succeeded"
  \/ s \in Paid /\ phase = "running" /\ o = "overbudget"
  \/ phase = "running" /\ o = "failed"

RowAfter == [succeeded  |-> "SUCCEEDED",
             failed     |-> "FAILED",
             awaiting   |-> "AWAITING_APPROVAL",
             overbudget |-> "BUDGET_EXCEEDED",
             declined   |-> "BUDGET_EXCEEDED"]

Record(s, o) ==
  /\ row' = [row EXCEPT ![s] = RowAfter[o]]
  /\ done' = IF o = "succeeded" THEN done \cup {s} ELSE done

(* The serial path: one step decides whether the loop goes on.  A pause    *)
(* or a step-mode stop gives way to a failure an earlier wave recorded.    *)
EndSerial(e, s, o) ==
  /\ pc[e] = "serial"
  /\ CanEnd(node[e][s], s, o)
  /\ Record(s, o)
  /\ \/ o = "failed" /\ StopWith(e, "FAILED")
     \/ o \in Paused /\ StopWith(e, IF failure[e] THEN "FAILED" ELSE RowAfter[o])
     \/ /\ o = "succeeded" /\ stepping[e] /\ pending[e] # {}
        /\ StopWith(e, IF failure[e] THEN "FAILED" ELSE "PAUSED")
     \/ /\ o = "succeeded" /\ ~(stepping[e] /\ pending[e] # {})
        /\ jobStatus' = IF s = Closing THEN "SUCCEEDED" ELSE jobStatus
        /\ known' = IF s = Closing THEN [known EXCEPT ![e] = "SUCCEEDED"] ELSE known
        /\ Goto(e, "round")
        /\ outputs' = [outputs EXCEPT ![e] = @ \cup {s}]
        /\ node' = [node EXCEPT ![e] = NoNode]
        /\ UNCHANGED <<stepping, pending, abandoned, failure>>
  /\ UNCHANGED <<stepMode, cancelled, decision, queue, web, tickets, crashes>>

(* The wave: a node commits its own row and never touches the job.         *)
EndNode(e, s, o) ==
  /\ pc[e] = "wave"
  /\ CanEnd(node[e][s], s, o)
  /\ Record(s, o)
  /\ Advance(e, s, node[e][s], o)
  /\ UNCHANGED <<jobStatus, stepMode, cancelled, decision, queue, web, tickets, crashes>>

(* Mutant: the refusal leaves no row. *)
RefuseNodeQuietly(e, s) ==
  /\ Advance(e, s, "refused", "declined")
  /\ UNCHANGED <<row, jobStatus, stepMode, cancelled, decision, queue, web, history>>

(* The guard refused a node: its row says so without its having run.       *)
RefuseNode(e, s) ==
  /\ Advance(e, s, "refused", "declined")
  /\ row' = [row EXCEPT ![s] = RowAfter["declined"]]
  /\ UNCHANGED <<jobStatus, stepMode, cancelled, decision, queue, web, history>>

(* The drained wave is folded into the round, in one go: a pause stops     *)
(* the scheduling, the last one reported names the status, and a failure   *)
(* takes precedence over it.  The refused node reports first.              *)
In(e, phases) == {s \in Steps : node[e][s] \in phases}
Reported(e)   == Steps \ In(e, {"out"})
PausedIn(e)   == In(e, Paused \cup {"declined"})
LastPaused(e, s) ==
  /\ s \in PausedIn(e)
  /\ \A t \in PausedIn(e) \ {s} :
       node[e][t] = "declined" \/ (node[e][s] # "declined" /\ Before(t, s))

FailureSeen(e) == failure[e] \/ In(e, {"failed"}) # {}

ApplyReports(e) ==
  /\ pc[e] = "wave"
  /\ Reported(e) = In(e, Outcome \cup {"declined"})
  /\ \/ PausedIn(e) # {} /\ FailureSeen(e) /\ StopWith(e, "FAILED")
     \/ /\ ~FailureSeen(e)
        /\ \E s \in Steps : LastPaused(e, s) /\ StopWith(e, RowAfter[node[e][s]])
     \/ /\ PausedIn(e) = {}
        /\ Goto(e, "round")
        /\ outputs' = [outputs EXCEPT ![e] = @ \cup In(e, {"succeeded"})]
        /\ pending' = [pending EXCEPT ![e] = @ \ Reported(e)]
        /\ abandoned' = [abandoned EXCEPT ![e] = @ \cup In(e, {"failed"})]
        /\ failure' = [failure EXCEPT ![e] = FailureSeen(e)]
        /\ node' = [node EXCEPT ![e] = NoNode]
        /\ UNCHANGED <<memory, jobStatus>>
  /\ UNCHANGED <<stepMode, row, cancelled, decision, queue, web, history>>

(* The process dies, or arq's job timeout cancels it: what it held is      *)
(* gone, what it committed stays, and the entry is not retried.            *)
Crash(e) ==
  /\ crashes < MaxCrashes
  /\ pc[e] # "idle"
  /\ crashes' = crashes + 1
  /\ Rest(e)
  /\ UNCHANGED <<db, queue, web, done, tickets>>

-----------------------------------------------------------------------------
(* The web process.                                                        *)

(* Starting a request again: while its job is live, or once it has a       *)
(* report, start_run returns that job and the handler enqueues it.  A      *)
(* terminal job without a report is superseded by a new one and is no      *)
(* longer enqueued here.                                                   *)
StartAgain ==
  /\ jobStatus \notin Terminal \/ Closing \in done
  /\ Enqueue
  /\ UNCHANGED <<db, exec, web, done, crashes>>

(* Gates are decided in GATE_ORDER: the earlier ones are approved, save    *)
(* conditional ones nobody decided.                                        *)
Approving == {"APPROVED", "MISMATCHED"}

InOrder(g) ==
  \A h \in Gates : GateRank[h] < GateRank[g] =>
     decision[h] \in Approving \/ (h \in Conditional /\ decision[h] = "NONE")

(* Mutant: a gate that was decided can be decided again. *)
MayDecideAgain(g) == InOrder(g)
MayDecide(g) == decision[g] = "NONE" /\ InOrder(g)

(* Nothing ties a decision to the moment the run reaches the gate: one     *)
(* taken early, or on rows that are changed afterwards, may or may not     *)
(* match what the gate step will compare it with.                          *)
Decide(g) ==
  /\ MayDecide(g)
  /\ \E verdict \in Verdict \ {"NONE"} :
       /\ decision' = [decision EXCEPT ![g] = verdict]
       /\ IF verdict \in Approving THEN Enqueue ELSE UNCHANGED <<queue, tickets>>
  /\ UNCHANGED <<jobStatus, stepMode, row, cancelled, exec, web, done, crashes>>

(* request_cancellation: a finished run is refused and a standing request  *)
(* is returned as it is.                                                   *)
ReadForCancel ==
  /\ web.op = "none"
  /\ jobStatus \notin Terminal
  /\ ~cancelled
  /\ web' = [op |-> "cancel", saw |-> jobStatus, clears |-> FALSE]
  /\ UNCHANGED <<db, queue, exec, history>>

(* A run that was waiting when it was read ends here; a QUEUED or RUNNING  *)
(* one is left to the engine.                                              *)
RequestCancellation ==
  /\ web.op = "cancel"
  /\ cancelled' = TRUE
  /\ jobStatus' = IF web.saw \in Stopped THEN "CANCELLED" ELSE jobStatus
  /\ web' = NoRequest
  /\ UNCHANGED <<stepMode, row, decision, queue, exec, history>>

(* stranding_of: with one worker, its health record says it has nothing    *)
(* in flight exactly when it is idle; two workers share one record, so an  *)
(* idle one can speak for both; no worker is no record.  The record lags,  *)
(* and between steps there is no running row to hold against it.           *)
LooksStranded ==
  \/ Workers = {}
  \/ \E w \in Workers : pc[w] = "idle"
  \/ \A s \in Steps : row[s] # "RUNNING"

ReadForResume ==
  /\ web.op = "none"
  /\ tickets < MaxTickets
  /\ \/ jobStatus \notin {"SUCCEEDED", "CANCELLED", "RUNNING"}
     \/ jobStatus = "RUNNING" /\ LooksStranded
  /\ \E clears \in BOOLEAN :
       web' = [op |-> "resume", saw |-> jobStatus, clears |-> clears]
  /\ UNCHANGED <<db, queue, exec, history>>

(* resume_run sets QUEUED, which writes nothing when that is what it read, *)
(* and the caller enqueues.  `aer resume` also turns step mode off, unless *)
(* told to keep it; the web page leaves it.                                *)
ResumeRun ==
  /\ web.op = "resume"
  /\ jobStatus' = IF web.saw = "QUEUED" THEN jobStatus ELSE "QUEUED"
  /\ stepMode' = (stepMode /\ ~web.clears)
  /\ web' = NoRequest
  /\ Enqueue
  /\ UNCHANGED <<row, cancelled, decision, exec, done, crashes>>

-----------------------------------------------------------------------------
StepWork(e) ==
  \E s \in Steps :
    \/ StartStep(e, s) \/ ReadGate(e, s) \/ RefuseNode(e, s)
    \/ \E o \in Outcome : EndSerial(e, s, o) \/ EndNode(e, s, o)

Engine(e) ==
  \/ Execute(e)
  \/ Cancel(e) \/ Skip(e) \/ TakeOne(e) \/ TakeWave(e) \/ Finish(e)
  \/ StepWork(e)
  \/ ApplyReports(e)

WebProcess ==
  \/ StartAgain
  \/ \E g \in Gates : Decide(g)
  \/ ReadForCancel \/ RequestCancellation
  \/ ReadForResume \/ ResumeRun

Next ==
  \/ \E w \in Workers : Dequeue(w)
  \/ \E c \in Shells : StepOnce(c)
  \/ \E e \in Executors : Engine(e)
  \/ \E e \in Executors : Crash(e)
  \/ WebProcess

Spec == Init /\ [][Next]_vars

(* A live worker polls its queue and a live process gets on with what it   *)
(* is doing; a web request, once begun, is answered.  Nobody owes the run  *)
(* a decision, a resume, a cancellation or a crash.                        *)
Fairness ==
  /\ \A w \in Workers : WF_vars(Dequeue(w))
  /\ \A e \in Executors : WF_vars(Engine(e))
  /\ WF_vars(RequestCancellation)

FairSpec == Spec /\ Fairness

-----------------------------------------------------------------------------
(* What must hold of a run.                                                *)

Working == {"round", "serial", "wave"}
Begun(s) == row[s] # "NONE"

(* The steps s waits for, directly or not: in every set that holds what s  *)
(* needs and, with a step, what that step needs.                           *)
Upstream(s) ==
  {n \in Steps : \A C \in SUBSET Steps :
     (Needs[s] \subseteq C /\ \A c \in C : Needs[c] \subseteq C) => n \in C}

(* A step begins only when every gate upstream of it that had something    *)
(* to ask has been approved, for what the run produced,                    *)
(* however many executors race, die or resume ("Nothing further happens,   *)
(* and nothing further is spent, until somebody approves").                *)
NothingPastAnUndecidedGate ==
  \A s \in Steps : Begun(s) =>
    \A g \in (Gates \ Waived) \cap Upstream(s) : decision[g] = "APPROVED"

(* A job that reads SUCCEEDED has seen every one of its steps succeed: no  *)
(* abandoned branch, drained wave or stale status is reported as success.  *)
SuccessMeansAllDone == jobStatus = "SUCCEEDED" => done = Steps

(* Unless a process was lost, a job that reads RUNNING is being run: every *)
(* way out of the engine records what became of the run.                   *)
RunningMeansSomeoneRuns ==
  jobStatus = "RUNNING" => crashes > 0 \/ \E e \in Executors : pc[e] \in Working

(* A job that waits has a step row saying what for: pending_gate and the   *)
(* console read the reason from there.                                     *)
WaitingJobsShowWhy ==
  jobStatus \in {"AWAITING_APPROVAL", "BUDGET_EXCEEDED"} =>
    \E s \in Steps : row[s] = jobStatus

(* A step recorded SUCCEEDED stays so: it is not executed, or paid for, a  *)
(* second time by a resume, a second entry or a crash recovery.            *)
CompletedStepsAreKept ==
  [][\A s \in Steps : row[s] = "SUCCEEDED" => row'[s] = "SUCCEEDED"]_vars

(* An execution in which a branch failed ends the run FAILED, or CANCELLED *)
(* if that was asked: a later pause, gate or success never hides it.       *)
FailureIsNotForgotten ==
  [][\A e \in Executors :
       failure[e] /\ pc'[e] = "idle" /\ crashes' = crashes
         => jobStatus' \in {"FAILED", "CANCELLED"}]_vars

(* Once a cancellation stands and no step is scheduled, none is scheduled  *)
(* again, whatever is resumed, approved or dequeued afterwards.            *)
NothingScheduled == \A e \in Executors : pc[e] \notin {"serial", "wave"}
CancelledRunsStartNothing ==
  [][cancelled /\ NothingScheduled => NothingScheduled']_vars

(* An execution always comes to an end: the loop makes progress in every   *)
(* round, with steps skipped, abandoned, refused or failed.                *)
ExecutionsEnd ==
  \A e \in Executors : pc[e] # "idle" ~> pc[e] = "idle"

(* With one worker and a queue that keeps its entries, a gate the run is   *)
(* waiting at and that is approved is passed, or the run fails trying or   *)
(* has been cancelled ("Record a decision and, if it was an approval,      *)
(* queue the run to continue").                                            *)
ApprovedGatesArePassed ==
  \A g \in Gates :
    (jobStatus = "AWAITING_APPROVAL" /\ decision[g] = "APPROVED" /\ row[g] = "AWAITING_APPROVAL")
      ~> (g \in done \/ cancelled \/ row[g] = "FAILED")

-----------------------------------------------------------------------------
(* What the repository says of a run and the code does not keep.           *)

(* api/routes/runs.py on a cancellation: the run "will [stop] at the next  *)
(* step boundary".                                                         *)
CancellationTakesEffect == cancelled /\ jobStatus = "RUNNING" ~> jobStatus \in Terminal

-----------------------------------------------------------------------------
(* The inductive invariant behind NothingPastAnUndecidedGate,              *)
(* SuccessMeansAllDone and RunningMeansSomeoneRuns.  Each part speaks of   *)
(* `done` rather than of the rows: a second executor may overwrite a       *)
(* SUCCEEDED row, but not the fact that the step has succeeded.            *)

(* What the rows say happened was allowed to.                              *)
RowsInv ==
  \A s \in Steps : /\ row[s] = "SUCCEEDED" => s \in done
                   /\ Begun(s) => Needs[s] \subseteq done

(* What is done was done in order and with its gates approved.             *)
DoneInv ==
  \A s \in done : /\ Needs[s] \subseteq done
                  /\ s \in Gates \ Waived => decision[s] = "APPROVED"

(* What an executor holds is backed by what is done.                       *)
HeldInv ==
  \A e \in Executors :
    /\ outputs[e] \subseteq done
    /\ \A s \in Steps :
         /\ node[e][s] # "out" => Needs[s] \subseteq done
         /\ node[e][s] = "open" => s \in Gates /\ MayOpen(s)
         /\ node[e][s] = "succeeded" => s \in done

(* No executor loses track of a step: each is pending, in hand, output or  *)
(* abandoned, and nothing is abandoned without a failure.                  *)
TrackInv ==
  \A e \in Executors :
    /\ pc[e] \in Working =>
         Steps = pending[e] \cup outputs[e] \cup abandoned[e] \cup Reported(e)
    /\ failure[e] \/ abandoned[e] = {}
    /\ pc[e] \notin {"serial", "wave"} => node[e] = NoNode
    /\ pc[e] = "serial" => \A s, t \in Reported(e) : s = t

(* A job that reads RUNNING has an executor that knows it to be.           *)
RunInv ==
  jobStatus = "RUNNING" =>
    crashes > 0 \/ \E e \in Executors : pc[e] \in Working /\ known[e] = "RUNNING"

(* The invariant of any number of executors, crashes and operators at once *)
(* that the theorems about the engine rest on.                             *)
EngineInv ==
  TypeOK /\ RowsInv /\ DoneInv /\ HeldInv /\ TrackInv /\ SuccessMeansAllDone /\ RunInv

-----------------------------------------------------------------------------
(* Why an execution ends, said without fairness.  The loop of              *)
(* WorkflowEngine.run has no bound of its own: it goes on while anything   *)
(* is pending.                                                             *)

(* The guards of Engine(e).                                                *)
CanSchedule(e) ==
  \/ cancelled /\ pending[e] # {}
  \/ NothingLeft(e)
  \/ ~cancelled /\ Stored(e) # {} /\ Fresh(e) = {}
  \/ ~cancelled /\ OneAtATime(e) /\ \E s \in Fresh(e) : \A t \in Fresh(e) : ~Before(t, s)
  \/ ~cancelled /\ ~OneAtATime(e) /\ Fresh(e) # {}

CanWork(e) == \E s \in Steps :
  \/ node[e][s] \in {"admitted", "refused"}
  \/ node[e][s] = "running" /\ s \in Gates
  \/ \E o \in Outcome : CanEnd(node[e][s], s, o)

CanReport(e) ==
  /\ Reported(e) = In(e, Outcome \cup {"declined"})
  /\ PausedIn(e) = {} \/ FailureSeen(e) \/ \E s \in Steps : LastPaused(e, s)

CanGoOn(e) ==
  \/ pc[e] = "loaded"
  \/ pc[e] = "round" /\ CanSchedule(e)
  \/ pc[e] \in {"serial", "wave"} /\ CanWork(e)
  \/ pc[e] = "wave" /\ CanReport(e)

(* No executor at work is ever without a next step, whatever was refused,  *)
(* failed, paused, cancelled or done by another executor meanwhile.        *)
NobodyIsStuck == \A e \in Executors : pc[e] # "idle" => CanGoOn(e)

(* Why: what an executor has in hand is never nothing, nothing that is not *)
(* a gate is open or shut, and on the serial path the one step in hand has *)
(* neither been refused nor come to its outcome, and is no longer pending. *)
HandInv ==
  \A e \in Executors :
    /\ \A s \in Steps : node[e][s] \in {"open", "shut"} => s \in Gates
    /\ pc[e] \in {"serial", "wave"} => Reported(e) # {}
    /\ pc[e] = "serial" =>
         \A s \in Reported(e) : /\ node[e][s] \in {"admitted", "running", "open", "shut"}
                                /\ s \notin pending[e]

(* What an executor still has before it: of each step it has not finished  *)
(* with, so much, and the rest of its way through execute.                 *)
ToDo(e) == [s \in Steps |->
  CASE node[e][s] \in {"admitted", "refused"}        -> 4
    [] node[e][s] = "running"                        -> 3
    [] node[e][s] \in {"open", "shut"}               -> 2
    [] node[e][s] \in Outcome \cup {"declined"}      -> 1
    [] node[e][s] = "out" /\ s \in pending[e]        -> 5
    [] node[e][s] = "out" /\ s \notin pending[e]     -> 0]

Ahead(e) ==
  SumFunctionOnSet(ToDo(e), Steps)
    + CASE pc[e] = "idle"                         -> 0
        [] pc[e] \in {"round", "serial", "wave"}  -> 1
        [] pc[e] = "loaded"                       -> 5 * Cardinality(Steps) + 2

(* Every step an executor takes leaves it less to do, and nobody else adds *)
(* to it: no execution takes more steps than five for each step of the     *)
(* workflow and two.                                                       *)
SameFor(e) ==
  /\ pc'[e] = pc[e] /\ node'[e] = node[e]
  /\ outputs'[e] = outputs[e] /\ pending'[e] = pending[e]
  /\ abandoned'[e] = abandoned[e] /\ failure'[e] = failure[e]

EveryStepCounts ==
  [][\A e \in Executors : pc[e] # "idle" => Ahead(e)' < Ahead(e) \/ SameFor(e)]_vars

-----------------------------------------------------------------------------
(* What the engine promises the operator about the plan, however many      *)
(* executors share the run: see GatedPlan.                                 *)
Plan == INSTANCE GatedPlan
          WITH Steps <- Steps, Needs <- Needs, Gates <- Gates, Waived <- Waived,
               done <- done, decision <- decision
KeepsThePlan == Plan!Spec
=============================================================================
