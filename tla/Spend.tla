------------------------------- MODULE Spend -------------------------------
(***************************************************************************)
(* What a run may spend.  The engine's budget guard admits the steps of a  *)
(* wave by their estimates; inside a step every model call asks once more, *)
(* with the worst it may cost, against the cost rows its session can see:  *)
(* those committed, and its own.  A step's rows are committed when it ends.*)
(***************************************************************************)
EXTENDS Integers, FiniteSetsExt, Functions

CONSTANTS
  Jobs,         \* runs
  Steps,        \* their steps
  JobOf,        \* JobOf[s]: the run s belongs to
  Order,        \* Order[s]: where the workflow declares s
  Estimate,     \* Estimate[s]: what the guard is told s will cost
  Waves,        \* the sets of steps the engine may take up together
  OneAtATime,   \* one worker runs everything (max_jobs = 1)
  Prices,       \* the worst a call may cost
  Premium,      \* what a cache write may add to that worst case
  FirstCap,     \* work_orders.max_cost_gbp as the request was made
  PlatformCap,  \* per_run_budget_gbp, the ceiling on the ceiling
  MonthlyCap,   \* monthly_budget_gbp
  MaxCalls,     \* bound: calls made
  MaxLosses     \* bound: processes, commits and meterings lost

ASSUME SpendAssumption ==
  /\ JobOf \in [Steps -> Jobs]
  /\ Order \in [Steps -> Nat]
  /\ Estimate \in [Steps -> Nat]
  /\ Waves \subseteq SUBSET Steps
  /\ \A w \in Waves : \A s, t \in w : JobOf[s] = JobOf[t]
  /\ \A j \in Jobs : \E w \in Waves : \A s \in w : JobOf[s] = j
  /\ IsFiniteSet(Steps)
  /\ OneAtATime \in BOOLEAN
  /\ Prices \subseteq Nat
  /\ {Premium, FirstCap, PlatformCap, MonthlyCap, MaxCalls, MaxLosses} \subseteq Nat

VARIABLES
  cap,       \* cap[j]: work_orders.max_cost_gbp
  step,      \* step[s]: "idle", "running", "done", "failed" or "refused" (BUDGET_EXCEEDED)
  wave,      \* wave[j]: the steps of the wave not yet admitted
  inFlight,  \* inFlight[j]: the estimates of those admitted
  held,      \* held[s]: cost rows flushed by s and not committed
  asked,     \* asked[s]: the worst price of the call s has made, 0 for none
  onRun,     \* onRun[j]: the committed cost rows of j
  onMonth,   \* the committed cost rows of the month
  gone,      \* requests deleted with their run
  bill,      \* what the replies received have cost
  calls,     \* calls made (bounded)
  losses     \* what was lost (bounded)

spendVars == <<cap, step, wave, inFlight, held, asked, onRun, onMonth, gone,
               bill, calls, losses>>
ledger    == <<onRun, onMonth, gone>>
bounded   == <<bill, calls, losses>>

Running(j) == {s \in Steps : JobOf[s] = j /\ step[s] = "running"}
Busy(j)    == wave[j] # {} \/ Running(j) # {}

SpendTypeOK ==
  /\ cap \in [Jobs -> Nat]
  /\ step \in [Steps -> {"idle", "running", "done", "failed", "refused"}]
  /\ wave \in [Jobs -> SUBSET Steps]
  /\ inFlight \in [Jobs -> Nat]
  /\ held \in [Steps -> Nat]
  /\ asked \in [Steps -> Nat]
  /\ onRun \in [Jobs -> Nat]
  /\ onMonth \in Nat
  /\ gone \subseteq Jobs
  /\ bill \in Nat
  /\ calls \in Nat
  /\ losses \in Nat

SpendInit ==
  /\ cap = [j \in Jobs |-> FirstCap]
  /\ step = [s \in Steps |-> "idle"]
  /\ wave = [j \in Jobs |-> {}]
  /\ inFlight = [j \in Jobs |-> 0]
  /\ held = [s \in Steps |-> 0]
  /\ asked = [s \in Steps |-> 0]
  /\ onRun = [j \in Jobs |-> 0]
  /\ onMonth = 0
  /\ gone = {}
  /\ bill = 0
  /\ calls = 0
  /\ losses = 0

-----------------------------------------------------------------------------
(* The engine: a wave is taken when the last one has drained, and its      *)
(* steps are admitted in the order declared.  An admitted step starts at   *)
(* once, while the guard is still asked about the next one.                *)
Take(w) == \E j \in Jobs \ gone :
  /\ w # {}
  /\ \A s \in w : JobOf[s] = j /\ step[s] = "idle"
  /\ \A s \in Steps : JobOf[s] = j => step[s] # "refused"
  /\ ~Busy(j)
  /\ OneAtATime => \A k \in Jobs : ~Busy(k)
  /\ wave' = [wave EXCEPT ![j] = w]
  /\ inFlight' = [inFlight EXCEPT ![j] = 0]
  /\ UNCHANGED <<cap, step, held, asked, ledger, bounded>>

NextUp(s) == s \in wave[JobOf[s]] /\ \A t \in wave[JobOf[s]] : Order[s] <= Order[t]

Fits(j, spent, projected) ==
  /\ onRun[j] + spent + projected <= cap[j]
  /\ onMonth + spent + projected <= MonthlyCap

GuardAdmits(s) ==
  Estimate[s] > 0 => Fits(JobOf[s], 0, inFlight[JobOf[s]] + Estimate[s])

Admit(s) ==
  /\ NextUp(s)
  /\ GuardAdmits(s)
  /\ step' = [step EXCEPT ![s] = "running"]
  /\ wave' = [wave EXCEPT ![JobOf[s]] = @ \ {s}]
  /\ inFlight' = [inFlight EXCEPT ![JobOf[s]] = @ + Estimate[s]]
  /\ UNCHANGED <<cap, held, asked, ledger, bounded>>

(* Mutant: the refusal is recorded as the run's wait. *)
RefuseStepWaiting(s) ==
  /\ NextUp(s)
  /\ ~GuardAdmits(s)
  /\ step' = [step EXCEPT ![s] = "waiting"]
  /\ wave' = [wave EXCEPT ![JobOf[s]] = {}]
  /\ UNCHANGED <<cap, inFlight, held, asked, ledger, bounded>>

(* The refused step is recorded and no more of the wave is started.        *)
RefuseStep(s) ==
  /\ NextUp(s)
  /\ ~GuardAdmits(s)
  /\ step' = [step EXCEPT ![s] = "refused"]
  /\ wave' = [wave EXCEPT ![JobOf[s]] = {}]
  /\ UNCHANGED <<cap, inFlight, held, asked, ledger, bounded>>

-----------------------------------------------------------------------------
(* A step: its calls, one after another.  What its session sees of the     *)
(* ledger is what is committed and what it has flushed itself.             *)
(* Mutant: the call does not see the rows its own step has flushed. *)
AffordsCommitted(s, worst) == Fits(JobOf[s], 0, worst)

Affords(s, worst) == Fits(JobOf[s], held[s], worst)

Ask(s, worst) ==
  /\ step[s] = "running"
  /\ asked[s] = 0
  /\ worst > 0
  /\ calls < MaxCalls
  /\ Affords(s, worst)
  /\ asked' = [asked EXCEPT ![s] = worst]
  /\ calls' = calls + 1
  /\ UNCHANGED <<cap, step, wave, inFlight, held, ledger, bill, losses>>

(* The reply has been priced and its rows flushed, whether it was usable   *)
(* or not.                                                                 *)
Meter(s, price) ==
  /\ asked[s] > 0
  /\ price <= asked[s] + Premium
  /\ asked' = [asked EXCEPT ![s] = 0]
  /\ held' = [held EXCEPT ![s] = @ + price]
  /\ bill' = bill + price
  /\ UNCHANGED <<cap, step, wave, inFlight, ledger, calls, losses>>

(* Metering an unusable reply never raises: its cost may go unrecorded.    *)
FailToMeter(s, price) ==
  /\ asked[s] > 0
  /\ price <= asked[s] + Premium
  /\ losses < MaxLosses
  /\ asked' = [asked EXCEPT ![s] = 0]
  /\ bill' = bill + price
  /\ losses' = losses + 1
  /\ UNCHANGED <<cap, step, wave, inFlight, held, ledger, calls>>

(* Mutant: only a step that succeeds keeps its cost rows. *)
CommitIfDone(s, outcome) ==
  /\ step' = [step EXCEPT ![s] = outcome]
  /\ onRun' = [onRun EXCEPT ![JobOf[s]] = IF outcome = "done" THEN @ + held[s] ELSE @]
  /\ onMonth' = IF outcome = "done" THEN onMonth + held[s] ELSE onMonth
  /\ held' = [held EXCEPT ![s] = 0]
  /\ UNCHANGED <<cap, wave, inFlight, asked, gone, bounded>>

(* The step's session commits: the step's outcome and its cost rows.       *)
CommitAs(s, outcome) ==
  /\ step' = [step EXCEPT ![s] = outcome]
  /\ onRun' = [onRun EXCEPT ![JobOf[s]] = @ + held[s]]
  /\ onMonth' = onMonth + held[s]
  /\ held' = [held EXCEPT ![s] = 0]
  /\ UNCHANGED <<cap, wave, inFlight, asked, gone, bounded>>

RefuseCall(s, worst) ==
  /\ step[s] = "running"
  /\ asked[s] = 0
  /\ ~Affords(s, worst)
  /\ CommitAs(s, "refused")

(* It has succeeded, or it has failed and its session still commits.       *)
EndStep(s) ==
  /\ step[s] = "running"
  /\ asked[s] = 0
  /\ \E outcome \in {"done", "failed"} : CommitAs(s, outcome)

(* It has failed and taken its session with it: the failure is recorded    *)
(* after a rollback.                                                       *)
LoseStep(s) ==
  /\ step[s] = "running"
  /\ asked[s] = 0
  /\ losses < MaxLosses
  /\ step' = [step EXCEPT ![s] = "failed"]
  /\ held' = [held EXCEPT ![s] = 0]
  /\ losses' = losses + 1
  /\ UNCHANGED <<cap, wave, inFlight, asked, ledger, bill, calls>>

(* The worker dies: what its steps flushed is rolled back, and the calls   *)
(* they had made are charged to nobody.                                    *)
LoseWorker(j) ==
  /\ Busy(j)
  /\ losses < MaxLosses
  /\ step' = [s \in Steps |-> IF s \in Running(j) THEN "idle" ELSE step[s]]
  /\ held' = [s \in Steps |-> IF s \in Running(j) THEN 0 ELSE held[s]]
  /\ asked' = [s \in Steps |-> IF s \in Running(j) THEN 0 ELSE asked[s]]
  /\ wave' = [wave EXCEPT ![j] = {}]
  /\ losses' = losses + 1
  /\ UNCHANGED <<cap, inFlight, ledger, bill, calls>>

-----------------------------------------------------------------------------
(* The operator: raises the ceiling, continues a run that was refused or   *)
(* failed, deletes a request (its cost rows keep the month and lose the    *)
(* run).                                                                   *)
MayRaise(j, to) == to > cap[j] /\ to <= PlatformCap

RaiseCap(j, to) ==
  /\ j \notin gone
  /\ MayRaise(j, to)
  /\ cap' = [cap EXCEPT ![j] = to]
  /\ UNCHANGED <<step, wave, inFlight, held, asked, ledger, bounded>>

Continue(s) ==
  /\ step[s] \in {"refused", "failed"}
  /\ ~Busy(JobOf[s])
  /\ JobOf[s] \notin gone
  /\ step' = [step EXCEPT ![s] = "idle"]
  /\ UNCHANGED <<cap, wave, inFlight, held, asked, ledger, bounded>>

Delete(j) ==
  /\ j \notin gone
  /\ ~Busy(j)
  /\ gone' = gone \cup {j}
  /\ onRun' = [onRun EXCEPT ![j] = 0]
  /\ UNCHANGED <<cap, step, wave, inFlight, held, asked, onMonth, bounded>>

StepSpends(s) ==
  \/ \E p \in Prices : Ask(s, p) \/ RefuseCall(s, p)
  \/ \E p \in 0..(asked[s] + Premium) : Meter(s, p) \/ FailToMeter(s, p)
  \/ EndStep(s)
  \/ LoseStep(s)

SpendNext ==
  \/ \E w \in Waves : Take(w)
  \/ \E s \in Steps : Admit(s) \/ RefuseStep(s) \/ StepSpends(s) \/ Continue(s)
  \/ \E j \in Jobs : LoseWorker(j) \/ Delete(j)
  \/ \E j \in Jobs, to \in 1..PlatformCap : RaiseCap(j, to)

SpendSpec == SpendInit /\ [][SpendNext]_spendVars

-----------------------------------------------------------------------------
(* What each call asks about is enough to keep one step within both        *)
(* ceilings, whatever runs beside it: a step has never flushed and asked   *)
(* for more than the cap, but for what a cache write adds to its last call.*)
StepsKeepTheCaps == \A s \in Steps :
  /\ held[s] + asked[s] <= cap[JobOf[s]] + Premium
  /\ held[s] + asked[s] <= MonthlyCap + Premium

(* A run whose steps go one at a time keeps its own cap: committed and     *)
(* pending spend together.                                                 *)
Serial(j) == \A w \in Waves : \A s, t \in w : JobOf[s] = j => s = t

SerialRunsKeepTheirCap == \A s \in Steps :
  Serial(JobOf[s]) =>
    onRun[JobOf[s]] + held[s] + asked[s] <= cap[JobOf[s]] + Premium

(* Steps of one wave do not see each other's calls.  Whatever they spend,  *)
(* a run never spends more than its cap once for each step of its widest   *)
(* wave.                                                                   *)
WavesOf(j) == {w \in Waves : \A s \in w : JobOf[s] = j}
Widest(j)  == Max({Cardinality(w) : w \in WavesOf(j)})

OverspendIsBounded == \A j \in Jobs :
  onRun[j] + SumFunctionOnSet(held, Running(j)) <= Widest(j) * (cap[j] + Premium)

(* The estimates of the steps under way fit the cap together, not only     *)
(* each for itself.                                                        *)
WaveEstimatesFit == \A j \in Jobs : inFlight[j] <= cap[j]

(* Unless a process, a commit or a metering was lost, every pound the      *)
(* provider charged is in the ledger or about to be: refusals, failures    *)
(* and deletions lose none.                                                *)
EveryPoundIsCounted == losses = 0 => bill = onMonth + SumFunctionOnSet(held, Steps)

(* Nothing takes money off the month: not deleting what it was spent on.   *)
MonthNeverForgets == [][onMonth' >= onMonth]_spendVars

=============================================================================
