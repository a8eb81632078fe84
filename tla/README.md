# Tracework Invest: a verification project

Tracework Invest (`src/`, mostly `src/src/aer`) is a local-first equity-research
platform. A *run* executes a fixed workflow of about forty steps against one
company, pauses at *gates* until a person approves what it found, spends money
on model calls under caps, and leaves an audit trail. Around the runs stand a
watchlist that commissions them, a book of trades and a monitor that reads new
filings against the theses behind the positions. This directory holds TLA+
models of the parts in which the order of events matters, TLC configurations
that check them on small instances, and TLAPS proofs.

## 1. Inventory

Three kinds of process share one Postgres database and one Redis:

- the **web process** (FastAPI: `web/*`, `api/routes/*`), which handles many
  requests at once and writes jobs, decisions, cancellations, trades, findings;
- **arq workers** (`worker.py`; `max_jobs = 1`, no retries, a two-hour job
  timeout), which take entries from a Redis list and call
  `services.runs.execute`;
- the **CLI** (`cli.py`), whose commands execute, step, purge, sweep, back up,
  verify and monitor in processes of their own.

Almost no row is locked: the watchlist's entry is the exception. Sessions are
opened with `expire_on_commit=False`, so an object loaded once keeps the values
it was loaded with, and taking a row's lock does not refresh them. These facts are
the source of most hazards below.

| component | state it keeps | operations | interacts with | what makes it correct |
|---|---|---|---|---|
| workflow engine (`workflow/engine.py`), `services/runs.py` | `jobs.status`, `jobs.step_mode`, one `job_steps` row per step; in memory: outputs, pending, abandoned, first failure | `execute`, the scheduling loop, serial path, waves, folding of reports | reads decisions and cancellations, is woken by the queue | no step past a closed gate; completed steps are not run again; success means every step; a failure is never hidden; the loop ends; the status says what happened |
| approval gates (`services/approvals.py`, `services/gates.py`, gate steps of `vertical_slice_v1.py`) | `approvals` rows with the hash of what was displayed; `payload_hash` inside the sealing step's output | `record_decision`, `reseal_final_gate`, `refuse_settling`, the gate step's comparison | engine, assumptions, disagreements, the approve handlers | one decision per gate; gates in order; what is approved is what the run goes on with; a gate is never stuck |
| cancellation, resume, step mode (`services/cancellation.py`, `services/resume.py`), queue (`queue.py`, `worker.py`) | `job_cancellations`, `jobs.step_mode`, worker health key and list in Redis | request, resume, stranded test, enqueue | engine, web, CLI | a cancelled run stops and stays stopped; a stranded run can be resumed; a decision that should wake a run does |
| drafting (`sections/*`, `skills/execution.py`, `services/consistency.py`, `red_team.py`, `revision.py`, their steps) | `report_sections`, `claims`, `disagreements`, `challenges`, `revision_notes` | draft side by side, validate, attack, revise, seal | engine, budget, gates | the claims on record are those of the draft that is shown; a revision that fails leaves the draft it was to replace; the seal says what happened to each section |
| disagreement ladder (`core/disagreement.py`) | none | resolve, compare all pairs of a group | validation | no figure wins unrecorded; the order of the two sides does not matter |
| budget guard and spend (`engine.py`, `agents/base.py`, `services/spend.py`) | `cost_records`, `work_orders.max_cost_gbp`, `inFlight` in memory | admit, ask before a call, meter, commit, raise the cap | engine, providers | spend passes no cap by more than what the code says it may; everything spent is counted |
| research requests (`services/requests.py`, `start_run`, `resume_run`) | `research_requests`, `work_orders`, `jobs.superseded_by` | create, edit, start, start again, continue, delete, purge | engine | one report per request, made under the terms the request shows; a live run is never removed |
| watchlist (`services/watchlist.py`) | entries, the runs commissioned for them | follow, commission, stop, the standing budget | requests, spend | an entry has one run at a time (it can have two, section 5); commissions fit the month |
| audit chain (`db/models/audit_event.py`, `services/audit_verify.py`, `core/hashing.py`) | hash-linked `audit_events` | append, verify | every service | the verifier accepts what was written and names what was harmed |
| artefact store, retention, backup (`storage/local.py`, `services/artefacts.py`, `retention.py`, `backup.py`) | files by digest; `artefacts`, `source_documents`, `purges` | put, record, purge, sweep, verify, dump, copy, restore | fetching, audit | no row names bytes that are gone unless a purge says so; a backup is whole |
| fetching (`fetch/*`) | bucket, breaker counter and open key in Redis | acquire, request, retry, redirect, record | sources, Redis | rates are kept; a circuit opens for cause; every fetch ends |
| thesis monitor (`services/thesis_monitor.py`, `theses.py`) | `findings`, `finding_resolutions`, windows read | pass, measure, read, resolve, withdraw | facts, model | no defeat is missed; one gate for one year's figure |
| portfolio, splits, post-trade review (`services/portfolio.py`, `splits.py`, `post_trade.py`, `calc/portfolio.py`) | `transactions`, `corporate_actions`, reviews | record, derive splits, walk, review, confirm | prices | a holding is what its history says, in whatever order it was typed in; a review is of the round trip it says |
| assumptions and citations (`services/*`) | rows with a settled flag | propose, amend, settle | gates | nothing in the report was left unsettled |
| providers, calculation, extraction, rendering, decisions, configuration, migrations, observability, tests | - | - | - | not modelled: section 8 |

Hard behaviours: two executors of one run; a decision, cancellation, edit or
resume that lands between a read and a write; a queue entry lost, duplicated or
spent for nothing; a process that dies between two commits, or between a file
and its row; sections written side by side of which some fail; rows recorded
out of the order they are about; limits counted by several processes at once.
PROJECT.json lists each one under `hazards`, at its line, with the properties
that would catch it.

## 2. Plan

Ordered by how much of the system rests on the part; the first nine rows are
done.

| # | module | abstract specification or composition | theorems |
|---|---|---|---|
| 1 | `RunEngine`: one run, its executors, queue and operators | implements `GatedPlan` | section 6 |
| 2 | `FinalGate`: seal, review page, decisions early and late, settling, resealing; `LiveGate`: gates over rows that may still be changed | each composes one gate with the run in small and implements `ApprovalGate` | section 6 |
| 3 | `Spend`: estimates, waves, calls, metering, ledger, raising the cap | - | caps to the premium; side by side; every pound; the month |
| 4 | `Requests`: start, continue, edit, remove; `StandingBudget`: what commissions them | `Requests` implements `WorkOrder` | one report, its terms; one run per entry; commissions fit |
| 5 | `AuditTrail`: append, harm, the paged verifier | - | the verdict; no harm unseen |
| 6 | `Fetching`: bucket, breaker, retries, redirects | - | pace, cause |
| 7 | `ArtefactStore`: archive, erase, sweep, rot, backup, restore | - | cited bytes |
| 8 | `Drafting`, `Ladder`: a report from its draft to its seal | - | claims, drafts that passed, the seal, the worst first; no silent winner |
| 9 | `Book`, `ThesisWatch`: the operator's own record | - | holding, round trips, splits, reviews; defeats, gates |
| 10 | decisions and what a trade carries out; a skill edited between a plan and its draft | - | - |
| 11 | robots.txt and the SSRF policy as decisions over a redirect chain; configuration overrides | - | - |

`MCPlatform` composes 3, 4, 5, 7, 8, the final gate and the monitor, `MCFair` the
final gate, the gates over changeable rows, fetching and the book. Every safety property a run checks, and
both compositions, have their theorems (section 6); what is left to add is in the
last two rows.

## 3. Modules

| module | what it is | proofs |
|---|---|---|
| `RunEngine` | the run: database, queue, executors and web process; the inductive invariant | `RunEngineProofs` |
| `GatedPlan` | what a gated workflow promises, said without executors, rows or queues | `RunEngine` implements it |
| `ApprovalGate` | what one gate promises, said without pages, rows, seals and executions | `FinalGate` and `LiveGate` implement it |
| `WorkOrder` | what a research request promises, said without handlers, job statuses and the newest run | `Requests` implements it |
| `MCRunEngine` | small workflows for TLC | |
| `FinalGate` | the final gate of a run: seal, review page, decision, settlement, reseal, gate step | `FinalGateProofs` |
| `LiveGate` | a gate over assumptions, peers or themes | `OperatorProofs` |
| `Spend` | what a run may spend | `SpendProofs` |
| `StandingBudget` | the watchlist's queue and the month it spends | `SpendProofs` |
| `Requests` | the life of one research request | `SpendProofs` |
| `AuditTrail` | the log, who harms it, and the walk that finds out | `EvidenceProofs` |
| `ArtefactStore` | archived bytes and the rows about them | `EvidenceProofs` |
| `Drafting` | a report from its draft to its seal | `DraftingProofs` |
| `Ladder` | two published figures for one thing | `DraftingProofs` |
| `ThesisWatch` | the monitor's passes and the people who close its findings | `OperatorProofs` |
| `MCPlatform` | `FinalGate` and `Spend` to `ThesisWatch`, side by side, for TLC | `PlatformProofs` |
| `Fetching` | what fetches share in Redis | `EvidenceProofs` |
| `Book` | one security of the operator's book | `OperatorProofs` |
| `MCFair` | `FinalGate`, `LiveGate`, `Fetching`, `Book` and their fairness, for TLC | `PlatformProofs` |
| `OnePart` | which part a behaviour of the two is about | |
| `SetFacts` | least elements, sums, products and maxima of finite sets, for the proofs | itself |

`RunEngine` has every gate of a run and what order the engine takes them in, with
a decision's match chosen when it is taken. `FinalGate` and `LiveGate` have one
gate each and say how that match comes about and is lost; they keep of the
engine only what a gate sees: claimed, gate step read, gate row written, stopped
on the way. `Spend` opens up what `RunEngine` leaves to chance in a wave (whether
a paid step is admitted), `Requests` what it leaves out before and after a run,
`Drafting` what happens inside four of its steps.

`MCPlatform` and `MCFair` put modules side by side that share no state: `part`
is chosen at the start, and only that module's variables move. A run therefore
explores each of them by itself, and an action is fair while its part is picked.
That nothing is lost or added by putting them side by side is a theorem:
`PlatformIsItsParts` and `FairPartsAreTheirParts` (section 6).

### How `RunEngine` corresponds to the code

| variables | code |
|---|---|
| `jobStatus`, `stepMode` | `jobs.status`, `jobs.step_mode` in Postgres |
| `known[e]`, `stepping[e]` | the same two attributes on the `Job` object executor `e` loaded; never refreshed |
| `row[s]` | `job_steps.status`, `"NONE"` before the row exists |
| `cancelled`, `decision[g]` | a `job_cancellations` row; the `approvals` row of a gate, with whether its hash matches what the run produced |
| `queue` | the number of arq entries naming this job |
| `pc[e]` | `idle`; `loaded` (in `run_research`, before `execute`'s test); `round` (top of the `while` loop); `serial`; `wave` |
| `outputs`, `pending`, `abandoned`, `failure` | the locals of `WorkflowEngine.run` (`failure` is `first_failure is not None`) |
| `node[e][s]` | where a step of the current round is, between admission and its committed outcome |
| `web` | the cancel or resume handler between its read of the job and its write |
| `done`, `tickets`, `crashes` | history and bounds, not in the code |

| actions | code |
|---|---|
| `Dequeue`, `StepOnce` | `run_research` up to `execute`; `_step_once` of the CLI |
| `Execute` | `execute`: test for RUNNING, else set it |
| `Cancel`, `Skip`, `TakeOne`, `TakeWave`, `Finish` | one round of `WorkflowEngine.run`: cancelled, only stored outputs, one step, a wave with the guard's admission, end of the loop and what `execute` records after it |
| `StartStep`, `ReadGate`, `EndSerial`, `EndNode`, `RefuseNode` | `_step_row`, the read in `_require_approval`, the end of `_execute` on the serial path, of `_run_node` in a wave, and of a node the guard refused |
| `ApplyReports` | `_apply_reports` |
| `Crash` | the process dies or arq's timeout cancels it (`execute`'s handler lets `CancelledError` pass) |
| `StartAgain`, `Decide`, `ReadForCancel`/`RequestCancellation`, `ReadForResume`/`ResumeRun` | the web and API handlers |

Abstractions, each of which adds behaviours or removes only ones the properties
cannot tell apart:

- What a step computes is left out: a step ends in success, failure, a pause at
  a gate or (for `Paid` steps) at the cap, as `\E o \in Outcome`. `Paid` is the
  set of steps with a projected cost.
- Money is left to `Spend`: the guard may refuse one paid node of a wave, the
  first that does not fit, as it likes; nodes after it are then not started.
- A decision carries "matches what the run produced" as its value
  (`"MISMATCHED"` when not). The rows a hash covers may change between the
  decision and the gate's read, so which of the two it will be is chosen when
  the decision is taken. The evidence check of the final gate
  (`EvidenceGates`) may shut it even when approved, which also covers a
  re-sealed gate.
- `ApplyReports` is one action. The code publishes the pause's status and, a
  few statements later, FAILED; the intermediate status is not visible here.
- The web process handles one cancel or resume at a time (`web`); decisions and
  new starts are single actions beside it.
- One run is modelled. `start_run`'s superseding is in `Requests`; `stop_after` is
  left out.

### How `FinalGate` corresponds to the code

| variables | code |
|---|---|
| `open` | `disagreements` rows of the run with resolution ESCALATED |
| `seal` | `payload_hash` in the `revise` step's `output_ref`; undrafted until that step has succeeded |
| `approvals` | the `approvals` rows of the final gate; a set, as nothing makes them one |
| `heldSeal` | the same hash among the outputs the worker loaded when its execution began |
| `request[h]` | a page open in a tab, or a handler between its reads and its commit |
| `finalRow`, `status`, `entry`, `worker` | the gate's `job_steps` row, `jobs.status`, an arq entry, where the worker is |

| actions | code |
|---|---|
| `ClaimRun`, `ReviseAndSeal`, `ReadDecision`, `PassFinalGate`, `WaitForDecision`, `Render`, `BreakOff` | `execute` and its RUNNING test; `_revise` (or its stored output); `_gate_final` with `_require_approval`; the rows the engine writes for each ending; step mode, caps, failures and lost workers in between |
| `OpenReview`, `StartDecision`, `RecordDecision` | `draft_review`; `decide_gate_page` up to the checks in `record_decision`; its insert and the enqueue |
| `StartSettling`, `StartReseal`, `FinishSealing` | `settle_disagreement_page` and `aer reseal` up to the checks of `reseal_final_gate`; their commit |
| `ResumeRun` | `resume_run` and the enqueue |

A hash is the payload it digests: whether the draft is final, and which
conflicts are open, the only parts that still move. One worker executes; the
race of two is `RunEngine`'s. A finished run's second execution, cancellation
and the other gates are left out. A handler's reads are one moment and its
writes another, which is what READ COMMITTED leaves of a transaction without
locks; an abandoned one is a page left open.

### How `LiveGate` corresponds to the code

`content` stands for the rows a gate is about: the request's assumptions
(`Becomes` any other figures; `Rechecks` FALSE, as `_value` compares nothing) or
a peer or theme slate (`Becomes` only larger slates; `Rechecks` TRUE, for
`confirmed_peer_set` and `confirmed_theme_set`; `Required` FALSE when the step
proposed an empty slate). `approved` is the content an APPROVED decision was
taken on. The rest is as in `FinalGate`, with decisions one action each, since
the race of two is there. For peers the refusal withholds the comparison where
for themes it fails the step; the module says FAILED for both.

### How `Spend` corresponds to the code

`held` are the cost rows a step's session has flushed, `onRun` and `onMonth` the
committed ones that `spend_so_far` and the month's sum read, `asked` the
worst-case price of the call a step is waiting for. `inFlight` is the local of
`_run_wave`.

| actions | code |
|---|---|
| `Take`, `NextUp`, `Admit`, `RefuseStep` | `_run_wave`: what is ready, in the workflow's order; `check` against committed spend, `inFlight` and the estimate; the first step that does not fit stops the wave |
| `Ask`, `RefuseCall` | `_refuse_what_cannot_be_afforded` and `_refuse_over_ceiling` with the caps as settings and request give them |
| `Meter`, `FailToMeter` | `_meter` flushes the row; `_meter_a_failure` |
| `EndStep`, `LoseStep`, `LoseWorker` | `_run_node`'s commit, its handler, a dead process |
| `RaiseCap`, `Continue`, `Delete` | `raise_cap`, `resume_run`, `_delete_the_run` (the month keeps what a deleted run spent) |

Prices are small numbers; a reply may cost `Premium` more than the worst case
asked for, since a cache write is dearer than the tokens it was priced as.

### How `StandingBudget` corresponds to the code

| actions | code |
|---|---|
| `OpenEntry` | `entry_of` on the page: one entry, with its commissions |
| `BeginDrain` | `commission_next`: the queue, `queue_for`, whose entries, commissions and runs it loads |
| `ReadBudget` | `standing_budget`, without a lock: by a drain before it locks an entry and after each run it starts, by the page under its lock |
| `LockEntry`, `PassOver` | `commission`: FOR UPDATE, and `state_of` on what was loaded; an entry a drain goes past |
| `Commission` | the request, its run and the `commissions` row, flushed |
| `CommitClerk`, `Abandon` | the session's commit; a refusal, a rollback, a killed command |
| `RunSpends`, `RunEnds`, `StartOver` | what a run commits; its end; `resume_run` or `start_run` on a dead one |
| `StopFollowing`, `PurgeRequest` | `stop_following`, which waits for the lock; `purge_request` |

What a session decides on is not what the database says. `saw[k][r]` is what
session `k` has of request `r` in its identity map: nothing, the request without
its run, or the run as it was when loaded; `LooksLike` reads it, falling back on
the database only for what is loaded then. `state_of` (`Alive`) and the sums of
`standing_budget` (`Charged` for what each commission is counted as, `Counts` for
which are seen: the committed ones and the session's own) both go through it. The
row lock is waited for and changes none of it: a session that loaded an entry
before the lock decides on the commissions it had then. That is the code's
behaviour (`watchlist.py:448-451`; `with_for_update` without `populate_existing`,
sessions with `expire_on_commit=False`), it is against the comment at 446, and
`TwoSubmits` is the run that shows it.

A run may spend more than its cap: `RunSpends` is bounded by `MaxSpent` only, for
`Spend` lets steps that go side by side pass it. The property counts each run up
to its cap and leaves the rest to `OverspendIsBounded`.

One month is modelled, with one cap for every commission. A reading of the budget
is one step. Following a new company is left out: every entry is followed from
the start. Requests are numbered in the order of `commissioned_at`, the
transaction's start, so a session that began later may commit first.

### How `Requests` corresponds to the code

`tab[t]` is a handler between what it read and its commit: `ReadRequest` is the
reads and refusals of `start_run_page`, `resume_run_page`, `update_request`,
`delete_request` and `purge_request`; `CommitStart`, `CommitContinue`,
`CommitEdit` and `CommitRemoval` what they write. `Begin`, `Gather`,
`WriteReport` and `EndRun` are the worker: load the terms, admit evidence under
them, write the report, end. `latest` is `latest_run`, the job that started
last. `Immutable` and `Purgeable` are the guards as the code orders them.

### How `AuditTrail` corresponds to the code

`Record` is `create_linked` in one of any number of sessions: the newest row it
sees, committed or its own, and the next id. Nothing is locked, so two sessions
may link to one row. `CommitEvents` and `RollBackEvents` end a session. `Harm` edits or
deletes a committed row in place, and `edited` and `deleted` keep such rows as
they were `Written`, so that a row edited back is no longer harmed. `BeginWalk`,
`ReadPage`, `FindBreak` and `EndWalk` are `verify_audit_chain` page by page, while
more is written and harmed, and `Verdict` is `_why`; `missed` are the rows
committed behind the walk, with lower ids than it has read. A hash is what it
digests, a sequence of payloads.

A row's `actor` stands for every column outside the digest: who acted, the event's
type, the job, the request and the subject (`audit_event.py:43-66`, and 97-100,
which says so). An edit of these is harm too, and no walk can find it, although
`audit_verify.py:10-12` promises that a row edited in place is caught: in the
model `EveryEditIsSeen` does not hold. `NoHarmGoesUnseen` therefore says of edits that the
*payloads* are as written. Rows inserted or renumbered in place, and edits of the
two hash columns, are not modelled.

### How `ArtefactStore` corresponds to the code

| actions | code |
|---|---|
| `Put`, `RecordFetched`, `CommitDocument`, `LoseArchiver` | the file; the `artefacts` row, inserted or found; the document's commit; a run that dies in between |
| `BeginPurge`, `EmptyStore`, `CommitPurge` | `purge_artefact`: its guards, the unlink, the commit of the purge row |
| `BeginCollection`, `CollectBytes`, `CommitCollection`, `LoseKeeper` | `collect_garbage`: what nothing references, one file after the other, the rows |
| `Rot` | a file that no longer has its digest |
| `DumpDatabase`, `CopyFile`, `Restore` | `create_backup` in its two steps; `restore_backup`, which copies only what is absent |

`Retention` is what `_licensed_provider_for` can say of a document.
`CollectsAlone` is an operator who runs the sweep when nothing archives; the
code does not see to it.

### How `Drafting` corresponds to the code

`record` is the report as the run's session sees it: for each section its
status, the draft shown, the claims on record, and whether a revision was of
it; the disagreements, challenges and notes; the seal. `durable` is the same as
committed. A step that stops commits what the session holds (`Stop`, as the
engine's failure path does), a death rolls it back (`Die`).

| actions | code |
|---|---|
| `BeginDraft`, `StartSection`, `WriteSection`, `FailSection`, `RaiseSection`, `StopDraft`, `EndDraft` | `_draft`: what is left to write, `DRAFT_FAN_OUT` of them at a time, each on a session of its own; one that raises drains the others and stops the step |
| `Validate` | `_validate`: the contradictions among the figures the draft publishes |
| `RedTeam` | `run_red_team`: challenges against claims on record |
| `BeginRevise`, `SkipCustom`, `LeaveOver`, `Redraft`, `Revise`, `RefuseRevision`, `StopRevise` | `revise_challenged_sections`, the gravest first, up to `MAX_REVISED_SECTIONS`; what is refused keeps the draft it had |
| `Seal` | the end of `_revise`: the notes and the payload |

A draft is which step wrote it and the one figure it publishes.

### How `Ladder` corresponds to the code

`Rule`, `Winner` and `Resolve` are `resolve`, after the two sides are put in
canonical order: its rungs are tried in turn (units differ, values agree, a power
of ten apart, tiers differ, bases differ, filing dates differ, values differ),
and only the tier and the date name a winner; the rest go to a person.
`Publish` adds a fact, `Check` is `check_report_consistency` for one
group: one fact per value, every pair up to `_MAX_PAIRS_PER_GROUP`, a row for
each recordable outcome. Values are whole numbers and shares are compared by
multiplying out.

### How `Fetching` corresponds to the code

`bucket` is the hash the token-bucket script keeps, with the time it was
written; `failures` the counter and its expiry; `openUntil` the open key.
`Acquire` is one run of the script (hence one step), `Wake` the sleep after a
refusal, `Answered`, `Abandoned` and `Fail` what a request comes to; `Counted`,
`OpenCircuit` and `ClearCounter` are the separate commands of
`record_failure` and `record_success`, between which other fetches come.
`Expire` is a key whose time to live is over, `Tick` the clock; a clock may show
`Skew` more than the time. `granted`, `sour` and `cause` are histories the
properties read.

### How `Book` corresponds to the code

`BeginWork`, `RecordTransaction`/`RecordAction` and `CommitRecord` are the
portfolio page and the price acquisition: a session that adds its row, derives
the splits missing for what it sees, and commits or fails on a constraint
(`FailRecord`). `InForce` is the order every reader walks in: a row's place is
one more than the rows that come before it. `Stride` and `Walk` are `_walk`, one
row and all of them; `Moved` is `quantity_held`, `Stray` what the walk leaves
out, `Dealt` the rows of an episode that its first date is taken from.
`RunReview` and `ConfirmReview` are the review agent's pass over a closed
position and its confirmation.

### How `ThesisWatch` corresponds to the code

`File` and `Restate` bring a year's figure into the store; a year may be filed
after later ones. `BeginPass` is `run_monitor`, `Pass` the premises it goes
over, `Unobservable` and `AskModel` the two ways through `_read_premise`,
`Answer` the finding as `_bounded_status` limits it, `Refuse` and `FailPass` the
endings that leave work undone. `News` and `WindowTo` are the window since the
last reading and what `_nothing_newer` drops. `against` is the year a growth was
measured from (`YearBefore`, the one before the newest in the store). `OpenForm`
and `ResolveFinding` are `decide_finding` between its check and its commit,
`Withdraw` gives up a premise, `Reset` is the CLI's.

## 4. Instances, bounds and fairness

**`MCRunEngine`** defines three workflows. `Five`: plan, gate, two paid steps side
by side, close. `Beside`: plan, then a gate and a paid step in one wave, then
close, so that a pause and a failure meet in a wave. `Ask`: a conditional gate
with nothing to ask beside a paid step, a gate behind the first that meets the
step in a wave when it is retried, then close.
Between them they have a chain, a fork, a join, both paths through the engine
and each kind of gate.

`MaxTickets` (3 or 4) bounds the queue entries and inline executions ever made.
A run needs one to reach its gate and one to go on; a third and a fourth bring
the duplicate, the resume and the restart. `MaxCrashes` is 1: after one loss the
rows and the job are in every state a loss can leave, and further ones repeat
it. `MaxParallel` is 2. No symmetry is used: the steps differ.

**`FinalGate`** is checked with two conflicts: with one, a settlement empties the
list and two settlements cannot lose each other. One handler (`Platform`) is one
request at a time, two (`FairParts`) are every pairwise race. `MaxBreaks` (0 to 2)
bounds executions stopped on the way, not the operator's resumes, which are free.

**`MCPlatform`** (`Platform.cfg`), part by part:

- *spend*: a run whose steps go one at a time and one with a wave of two, a cap
  of 2 that may be raised to the platform's 3, a month of 3, prices of 1 and 2
  with a premium of 1, three calls, one loss. Three calls are one more than a cap
  pays for; caps small enough that each of the two ceilings is the one that binds.
- *standing*: one entry, two commissions of cap 1 against a budget of 1, so that
  the second fits only when the first has ended and spent nothing; a page and a
  drain; runs that spend up to twice their cap; one of them brought back.
  `QueueWithRoom` has a budget that never refuses (three requests, budget 3), so
  that only what `state_of` says keeps a second run from an entry; nothing is
  spent there. A drain over several entries is in the proofs only.
- *requests*: three runs (first, its successor, one too many), two edits, one
  handler at a time; the operator continues no superseded run.
- *audit*: two sessions that record at once, three events of two payloads and two
  actors, pages of two, so that a walk has a full, a part and an empty page and a
  fork may fall on a page boundary; one row harmed. The proofs have any number.
- *store*: one digest (digests do not interact), two runs that archive it, one
  file that rots, one death.
- *drafting*: five sections, two of them a user's skill of which one is pinned,
  one answered from the record; two written at a time; two values of the figure;
  two challenges of up to two sections in three severities, 2 being material;
  one revision allowed, so that something is left over; one stop.
- *final*: above, with one request at a time.
- *ladder*: up to three facts of 61 (five values, three tiers, two dates, two
  bases; another unit), three pairs compared. Three facts are what a chain of
  tolerances needs.
- *watch*: two premises, one a growth; amounts on both sides of the floor; three
  years, the fewest in which one read can later come to have another year before
  it; two days, one monitor, one page, two passes, one act. Findings that are
  decided and then reopened take two acts: the proof has them.

**`MCFair`** (`FairParts.cfg`):

- *final*: above, with two requests at once and one stop.
- *gate*: slates of up to three themes (proposed, approved, added to), two
  executions that stop on the way (`MaxHalts`).
- *fetch*: two fetchers, a bucket of two requests refilled by one every two
  ticks, two attempts, one redirect, a threshold of two; no fetch starts after
  tick 3, and the keys expire within what follows.
- *book*: two dates, one lot, one ratio, two recorders, four records: a round
  trip, a second one and the split between them.

Every configuration says `CHECK_DEADLOCK FALSE`: a finished run with an empty
queue has nothing more to do, a sealed report is at its end, and a model whose
bounds are used up stops too.

**Fairness** is weak and per process. `RunEngine.FairSpec`: a worker polls the queue
(arq's loop), a live executor gets on with its round (it awaits only its own
steps, which are bounded by timeouts), and a cancel request, once begun, is
answered. Nobody owes the run a decision, a resume or a start, and the liveness
runs take no crashes: no retry exists (`max_tries` is 1), so nothing would be
promised after one.
`FinalGate`'s has the worker and begun requests go on, and, for `AgreedRunsGoOn`,
an operator who resumes a stopped run and reseals a drifted one when the run's
message says so: the code promises release on that condition only. `GateStuck`
is run under `PersistentSpec`, which adds an operator who opens the page and
approves whenever that is accepted: even so the gate stays shut. `AgreedRunsGoOn`
leaves the evidence check out (`EvidenceMayFail` FALSE): what mends failed
evidence is not modelled. `LiveGate` needs the worker and the resumes,
`Fetching` that time passes and that each coroutine is scheduled (its requests
have timeouts). The other modules have safety and action properties only.

## 5. Runs

| run | instance | what it shows |
|---|---|---|
| `RunOneWorker` | `Five`, one worker, 4 tickets, 1 crash, enqueues may be lost | the deployment `worker.py` is built for: a running job is run, a waiting one says for what, completed steps are kept, a failure stands, a cancellation is heard |
| `RunRacing` | `Beside`, a worker and `aer step`, 3 tickets, 1 crash | what survives two executors: gates are still respected, neither executor is ever left without a next step, and `GatedPlan` is implemented |
| `RunLive` | `Ask`, one worker, fair, a queue that keeps its entries | every execution ends, and an approved gate is passed |
| `Platform` | `MCPlatform`, nine parts | *spend*: overspend is bounded, every pound is counted; *standing*: commissions fit the month; *requests*: `WorkOrder` is implemented: one run at a time, one report, under the terms the request shows, removed under nobody; *audit*: the verdict is right and no harm goes unseen while two sessions record; *store*: cited bytes are kept; *drafting*: claims are the drafts', the worst are revised, passed drafts stand, the seal is true; *final* (one request at a time): `ApprovalGate` is implemented, so the gate is decided once and the record past it is the one approved and stays so, and the seal follows it; *ladder*: no silent winner; *watch*: one gate per year, no defeat missed |
| `QueueWithRoom` | `MCPlatform`, the queue alone, room for every run | one run for an entry nobody commissioned under another session's eyes |
| `FairParts` | `MCFair`, four parts, fair | *final* (two requests at once): the gate passes only on an approval of a sealed draft, and an approval of what the page shows is released, by a reseal if need be; *gate*: `ApprovalGate` is implemented, so only approved rows are used, and approved ones that stand are used in the end; *fetch*: the pace is kept, a circuit opens for cause, every fetch ends; *book*: splits arrive, a holding is its history, episodes are round trips, reviews stand |
| `RunLostWakeup` | violation | an approval's wake-up can be spent for nothing |
| `RunCancelIgnored` | violation | a cancellation taken before a pause has no effect |
| `GateStuck` | violation | an approval taken before the seal shuts the gate for good |
| `RotSurvivesRestore` | violation | a rotten file is not replaced by a sound backup's |
| `AmendmentMissed` | violation | a year filed again, with a figure that defeats the premise, is not read |
| `TwoSubmits` | violation | a session that waited for an entry's row lock starts a second live run |

Each property is stated in words above its definition. The violations are listed
under `findings` with the sentence of the repository each contradicts. Both parts
have one type invariant, `TypesOK` and `FairTypesOK`, which say of the part
picked what its module's own type theorem says.

### What rests on how the system is used

Some properties hold because the deployment has one worker and one operator, and
the code does not enforce that. Each says so in its statement or in a constant,
and widening the constant shows what happens:

- `CompletedStepsAreKept` fails once `Shells` holds an `aer step` beside the
  worker: both pass `execute`'s unlocked test, and one writes RUNNING over the
  other's SUCCEEDED row. `ApprovedGatesArePassed` fails the same way
  (`RunLostWakeup`).
- A finished run can turn CANCELLED, in any instance: the handler decides on what
  it read while the run waited. No property here says otherwise.
- `FinalGateIsAGate` and `SealIsThePayload` each fail with the two
  handlers of `FairParts`: a settlement commits under a decision; of two
  settlements the seal loses one; and two decisions of one gate are both recorded
  (`OneDecision`).
- `KeepsThePromise` of `LiveGate` fails where the using step compares nothing (`Rechecks`
  FALSE): a valuation reads figures amended after their gate.
  A slate proposed empty is not asked about (`Required` FALSE); a theme added to
  it by hand then fails the using step, at every resume.
- Steps of a wave do not see each other's uncommitted spend: together they may
  spend the cap once each, and that is what `OverspendIsBounded` says.
- `WorkedToOrder` fails with
  `ContinuesOld` TRUE (a superseded run is continued, and reports) and with two
  `Tabs` (two starts, or an edit under a start).
- `TheVerdictIsRight` and `NoHarmGoesUnseen` hold for any number of writers, and say
  less for it. The verdict may name a fork, which two sessions that record at once
  leave behind: that no walk of a log nobody harmed reports a break (`NoFalseAlarm`)
  fails, and every later walk stops there, of which `audit_verify.py:130` says that a
  record was inserted, removed or reordered. A deletion is seen by the rows linked
  to the deleted one, but for those committed behind the walk (`missed`), and if
  its siblings of a fork do not stand in for it. What lies outside the digest may be
  edited unseen (`EveryEditIsSeen` fails, section 3).
- `CommissionsFitTheBudget` counts each run up to its cap and excepts three kinds of
  request: `uncounted` ones, commissioned on a reading another session has
  overtaken (the lock is the entry's, not the month's) or purged while a session
  had them loaded, and those `revived`: a run brought back spends its cap again.
- `OneRunPerEntry` excepts entries `outrun`, commissioned while another session had
  them loaded, and the `revived`. Without the first exception it is what the comment
  at `watchlist.py:446` promises (`OneRunUnderTheLock`), and false (`TwoSubmits`).
- `CitedBytesAreKept` excepts a sweep beside runs that archive (`CollectsAlone`
  FALSE: a file found unreferenced is cited before it is deleted), a keeper that
  dies between bytes and row, and an erasure while a backup is taken. A restore
  also brings purged bytes back, with the purge row gone.
- `PaceIsKept` needs clocks that agree (`Skew`): the script takes its time from
  the caller.
- `SplitsArrive` and `ReviewsStand` except two recorders at once (`crossed`): the
  first trade and the first split do not see each other, and neither derives the
  row. The derivation checks and then inserts, where ADR 0094 says "ON CONFLICT DO
  NOTHING"; the one that comes second fails whole. `HoldingIsTheHistory`
  excepts a trade dealt on a split's own date, which is multiplied.
  `ReviewsStand` excepts a row typed in for a date before the close
  (`backdated`), and two round trips that close on one day share a review key.
- `OneGatePerYear` fails with two `Monitors`: a worker's pass and the CLI's read
  the same window and each opens a gate for it. Two `Pages` do not break it.
- `DefeatIsNotMissed` excepts years `Amended` behind their reading: a figure filed
  again (`AmendmentMissed` is the run that shows it), and a growth whose year
  before came to the store after it was measured from an older one.
- `TheSealIsTrue` lets a section keep what an attempt at its revision wrote
  *before* a stop: the second attempt is then refused while the first one's draft
  is shown.
- `NoSilentWinner` speaks of the facts that represent their value: the earliest id
  may hide a better tier of the same value. It speaks of the figures the validator
  saw: those a revision publishes are compared with none.

## 6. What is proved

Theorems hold for every value of the constants that satisfies the module's
`ASSUME`, and for every behaviour of the module's specification; what else a
theorem assumes is said here. Where an argument counts or adds up, the constants
are assumed finite (the steps, requests, sections, severities, premises and
years there are) or numbers (what figures, tiers and dates are compared by);
`Spend` also assumes that a job has a wave. The code's tables and enumerations
are of that kind.

### Parts side by side

`PlatformProofs` ties the modules' theorems to the two compositions that TLC
checks. `PlatformIsItsParts`: `PlatformSpec` implies the specification of each of
the nine modules in it; `FairPartsAreTheirParts`: the same of `FairPartsSpec` and
its four. Each step of one part is a step or a stutter of every other
(`PlatformSteps`, `FairSteps`), since the parts share no variable. Hence every
theorem `SpendSpec => []Inv` below is one about `PlatformSpec`, and the type
invariants of the runs follow from those of the modules: `PlatformTypesCorrect`
(`PlatformSpec => []TypesOK`) and `FairTypesCorrect` (`FairPartsSpec =>
[]FairTypesOK`).

### The run engine

`RunEngineProofs`, for every workflow, every set of executors and every
bound (`StepsAssumption`: the steps are finite, needs are acyclic, the closing
step is downstream of all others; `GatesAssumption`; `BoundsAssumption`):

| theorem | |
|---|---|
| `TypeCorrect` | `Spec => []TypeOK` |
| `EngineInvariant` | `Spec => []EngineInv` |
| `NoGateIsBypassed` | `Spec => []NothingPastAnUndecidedGate` |
| `SuccessIsWhole` | `Spec => []SuccessMeansAllDone` |
| `RunningIsRun` | `Spec => []RunningMeansSomeoneRuns` |
| `EngineKeepsThePlan` | `Spec => KeepsThePlan`, the refinement of `GatedPlan` |
| `CancellationStands` | `Spec => CancelledRunsStartNothing` |
| `FailuresAreTold` | `Spec => FailureIsNotForgotten` |
| `CompletedStepsStand` | `Spec => CompletedStepsAreKept`, assuming one executor (`Executors = {e}`) |
| `OneExecutorShowsWhy` | `Spec => []WaitingJobsShowWhy`, assuming one executor (`Executors = {e}`) |
| `NobodyIsEverStuck` | `Spec => []NobodyIsStuck` |
| `ExecutionsGetShorter` | `Spec => EveryStepCounts` |

The argument. None of the properties is inductive: a row can be
overwritten by a second executor, so "the rows upstream are SUCCEEDED" is not
kept. `done`, the steps *ever* recorded SUCCEEDED, only grows, and the engine
invariant is stated over it:

- `RowsInv`: a SUCCEEDED row is in `done`, and a begun step has its needs there;
- `DoneInv`: `done` is closed under needs and its gates are approved;
- `HeldInv`: what an executor holds, outputs and nodes, is backed by `done`;
- `TrackInv`: an executor loses no step: each is pending, in hand, output or
  abandoned, and nothing is abandoned without a failure;
- `SuccessMeansAllDone` itself, for the closing step's early write;
- `RunInv`: a RUNNING job has an executor that knows it.

A bypassed gate would be upstream of a begun step, and `Upstream` is the least
set closed under needs, so `DoneInv` puts the gate in `done` and its decision at
APPROVED. Success at the end of the loop needs `SomethingIsReady`: if pending
steps remain, nothing was abandoned and none is ready, then the pending ones
would form a set with no minimal element, against `StepsAssumption`. Success at
the closing step needs `ClosingComesLast`. The refinement needs that an APPROVED
decision is never overwritten (`DecisionMoves`) and maps each step that adds to
`done` to `Complete`, each new decision to `Decide`, everything else to a
stutter. `WaitingJobsShowWhy` needs `ShownInv`: the one executor there is, from
the report of a pause on, leaves the row that shows it alone; a second one would
begin the step again, which is why the assumption is there.

Three properties of single steps need little beside the engine invariant.
`CancellationStands` needs only that a cancelled run's flag is read before a step
is scheduled. `FailuresAreTold` needs `FailureInv`: an executor remembers a failure
only while it works, so that who stops with one has just said so.
`CompletedStepsStand` needs `KeptInv`: what the one executor has in hand has not
succeeded, for it read the rows after whoever wrote them had stopped. A second
executor's reading may be older than the first one's row.

The last two are what an execution's end rests on, for any plan and any number of
executors, without a word of fairness. `CanGoOn(e)` spells out, action by action,
when executor `e` has a step to take, and `NobodyIsStuck` says that one which is
not idle always has. It needs `HandInv`: a round has always something in hand, only
gates are open or shut, and the one step of the serial path has neither been
refused nor come to its outcome. From a round there is a way on because
`NothingLeft` covers the case in which everything left waits for what failed; with
the mutant that waits for it, `RunRacing` gets stuck. `Ahead(e)` is what `e` has
still to do: up to five for each step of the workflow, less the further it has
got with it, and the way in and out. `EveryStepCounts` says that a step of the
system either leaves all that `e` holds as it was or lowers `Ahead(e)`, so an
execution takes at most five steps for each step of the workflow and two. The sum
strictly falls because one summand does and none rises (`SumStrictlyLess` of
`SetFacts`). That a live executor is given its turns is the fairness of `FairSpec`;
with it, `ExecutionsEnd` follows, and that last inference is TLC's (`RunLive`).

### The gates

`FinalGateProofs`, for any conflicts, handlers and bounds:

| theorem | |
|---|---|
| `GateTypeCorrect` | `FinalSpec => []FinalTypeOK` |
| `AnyTabsInvariant`, `NoPassWithoutApproval` | `FinalSpec => []AnyTabsInv`, `FinalSpec => []PassedMeansApproved` |
| `FinalGateKeepsThePromise` | assuming `OneTab` (any two handlers are the same): `FinalSpec => FinalGateIsAGate`, the refinement of `ApprovalGate` |
| `OneTabInvariant`, `ApprovedRecordStands`, `SealFollowsThePayload`, `DecidedOnce` | assuming `OneTab`: `FinalSpec => []` of `OneTabInv`, `TheRecordIsWhatWasApproved`, `SealIsThePayload`, `OneDecision` |

`PassedMeansApproved` needs to know what the worker holds between its reads:
past `ReviseAndSeal` it holds a sealed hash, and where it is about to pass, an approval
of a sealed draft exists (`PassInv`); approvals are never deleted, so overlapping
requests cannot undo that. With one request at a time the rest follows from what
a begun request still knows at its commit: `SealingInv` (its hash is that of the
record it leaves; it settles nothing under a decision) and `AgreedInv` (decisions
of a sealed draft are decisions of the present record, and the seal is its hash
unless a commit is due). An approval taken before the draft was sealed is in
neither: it never matches, and `GateStuck` shows the price.

`OperatorProofs` proves, of `LiveGate`, `TypeCorrect`, and
`RecheckedRowsAreApproved`: assuming `Rechecks`, `Spec => []OnlyApprovedIsUsed`.
What was approved must be known not to change afterwards, hence `UseInv` adds
that an approval is decided, and a decided gate is not decided again. And
`RecheckedGatesKeepThePromise`: assuming `Rechecks`, `Spec => KeepsThePromise`.

Both modules thus implement one abstract gate, which is decided once, on what
there is at that moment, and lets the run act, once, on what was approved and
still is so. In `LiveGate` the four variables are the module's own; `OnceInv`
(what has been used belongs to a run that succeeded) makes the use the only one.
In `FinalGate` `content` is the payload, `approved` the hashes of the approvals of
a sealed draft (`Agreements`), `decided` that there is a decision, and what is
acted on is the payload from the moment the gate's row reads passed: a payload
that moved after that would be no step of `ApprovalGate`. The passing step maps to
`Act` because of `AgreedInv`, and is the only one because of `PassedInv`: past the
gate the worker does not come to it again. A settlement or the revision of the
draft maps to `Change`, which `OneTabInv` confines to a gate not passed.

### Money

`SpendProofs`: `SpendTypeCorrect`; `EveryStepKeepsTheCaps` (what a step has
flushed and asks for is within run's and month's ceiling, but for the premium,
whatever runs beside it); `SerialRunsKeepTheCap` (a run whose waves are single
steps keeps its cap to the premium, through refusals, losses and continuations);
`EstimatesFitTogether` (the estimates of the steps admitted side by side);
`TheMonthNeverForgets` (an action property). `CapInv` bounds what is held and
asked by the caps, which only rise. `SerialInv` needs `OneUp`, that of a serial
run one step at most is running, hence what it holds and what is committed are
all there is; and it needs both terms, since a call is asked for against the
committed sum and committed after it. That is also why it fails in a wave.

`SideBySideIsBounded` (`SpendSpec => []OverspendIsBounded`) is what a wave keeps
instead. Steps of one wave do not see each other, so none of them bounds the sum;
but each call that was let through fitted the cap on top of what was committed
then. `SideBound` adds up the worst each running step may still cost (what it has
flushed, and a call under way at its price and the premium) and bounds that sum,
with what is committed, by cap and premium times the widest wave. A commit moves an
amount from the one to the other, a call raises one summand. `SideInv` says that
the running steps are of one wave. `EveryPoundIsOnRecord` (`SpendSpec =>
[]EveryPoundIsCounted`) is inductive as it stands, once each step's part is taken
out of the sum.

`SpendProofs` also has `StandingBudget`, for any entries, requests, sessions and
caps: `StandingTypeCorrect`; `OneRunForEachEntry` (`StandingSpec =>
[]OneRunPerEntry`); `CommissionsFit` (`StandingSpec => []CommissionsFitTheBudget`).
Both rest on `HoldInv`, which says what a session holds: one lock per entry, its
uncommitted requests under locks it has, views only of what was committed when it
looked. `EntryInv` adds, of an entry that nobody commissioned under another's eyes,
that whoever has it loaded has seen every commission of it, so that what it takes
for the latest run is the latest. `RoomInv` is about money: what the queue's
requests are still owed of their caps (`AllOwed`: the cap of each live run, what
each other one has spent of it, up to the cap, and nothing for the uncounted and the
revived) fits the budget, and for each session that has read "enough" and not been
overtaken, one cap more does. That is said of each such session alone: the first of
two to commission overtakes the other. A reading that another session has
overtaken keeps no room, and the request commissioned on it is `uncounted`: that is
where the exception comes from.

### Requests

`SpendProofs`: `RequestsTypeCorrect`; and, assuming one handler at a time and
no superseded run continued (`Tabs = {t}`, `~ContinuesOld`), `OneReportInAll`,
`NoEditFalsifiesTheRecord`, `TheGuardsSeeEveryLiveRun`,
`RemovalWaitsForTheRun` and `RequestsAreWorkedToOrder` (`RequestsSpec =>
WorkedToOrder`). The handler's read ages while workers go on. `StillSo`
is what of it is still so at the commit, for a worker ends runs and makes none
live; `RecordInv` says that only the newest run can be live, works under the
terms the request shows, and that evidence and report were made under them. The
refinement of `WorkOrder` reads the live runs as the ones at work, everything else
as itself (`OrderStep`): starting and continuing map to `Start`, what a handler
reads and a worker loads to a stutter, the rest to the action of its name.

### The audit log

`EvidenceProofs`, for any number of sessions, harms and pages:
`AuditTypeCorrect`; `VerdictsAreRight` (`AuditSpec => []TheVerdictIsRight`);
`HarmIsSeen` (`AuditSpec => NoHarmGoesUnseen`). A row that was edited keeps its id
and its hashes, so the links are stated over the rows there were, whatever became
of them. `ParentInv`: each row, written or about to be, is linked to an earlier one
that is in the log or deleted, or to the start; nothing says to the *newest*, since
sessions do not see each other. `WalkInv` says of a walk that its anchor is a row
read, and, undisturbed, that all it has passed says what its hash says and, unless it was
committed behind the walk, is linked to a row that is still in the log.

Where a walk finds a wrong link, the row's parent is either gone or further back.
Of the rows up to there that do not follow the one before them, take the first
(`SetFacts!Least`): if nothing is missing, its parent is an earlier row that
another one already follows, so two rows have one parent (`AGapIsAFork`). That is
the third verdict, and the least is needed: past the first gap the order of the log
says nothing of links. A walk that ends well has met no gap, hence no row it read is
linked to a deleted one that nothing stands in for. A hash is what it digests,
so that equal hashes are of equal payloads; that is the sense in which digests do
not collide here.

An earlier attempt found the property false where a row is harmed twice: edited, and
edited back, it counted as harmed and no walk could find it. `Harm` now records
rows as they were written.

### Bytes

`EvidenceProofs`: `StoreTypeCorrect`; `CitedEvidenceIsKept`. The invariant
is an implication, as the property is: while nothing has died between two steps,
the sweep is alone and no backup was torn (`Clean`), what is cited is kept, what
a begun sweep may delete nothing cites, and a dump is whole (`DumpIsWhole`: the
bytes its documents cite are copied, or still there to be), which is what a
restore needs (`CleanInv`). `Unbegun` keeps a copy from preceding its dump.

### Drafting

`DraftingProofs`, for any sections, skills, drafts, challenges and limits:
`DraftingTypeCorrect`; `ClaimsFollowTheDraft` (`DraftingSpec =>
[]ClaimsAreTheDrafts`); `DraftsThatPassStand` (`DraftingSpec =>
PassedDraftsStand`). `DraftInv` says it of each section, of what the run's session
holds and of what is committed: the claims are the draft's and a section
without a passing draft is empty (`SectionInv`); a committed draft is also the
session's, unless a revision is about to replace it (`LinkInv`); a section waits
to be written only while the draft step runs, and only where neither has a
draft of it (`WriterInv`), which is what keeps a continued step from writing over
one that was paid for. `LinkInv` is what a refused revision needs: where there was
no draft to restore, none was committed.

`SealsAreTrue` (`DraftingSpec => []TheSealIsTrue`): `SealInv` follows a
section's note from the moment an attempt is made to the seal, in the session
and as committed, and `RowsInv` says that whichever step records a disagreement
also lists it, in what it commits. `TheWorstComeFirst` (`DraftingSpec =>
[]TheWorstAreRevised`): `Worse` orders the challenged sections, and `RevisedInv`
says that what was tried comes before all that is due, that what was passed over
was passed over for want of room, and that a revised draft is of one of the
first `MaxRevised` (`AmongWorst`). The last is what bounds the revisions of two
visits together: both take from the same end of one order.

Of `Ladder`, for any figures: `NamingOrderIsNothing` (`Resolve(f, g) =
Resolve(g, f)`) and `RejectionsGoDown`: whichever rung rejects a figure, the
winner has the lower tier number, or the same and a later filing, and no circle
goes down all the way. The tolerances, which are not transitive, cannot undo that.
`TakenRung` carries both: some rung always fires, because equal values agree.
`NobodyWinsSilently` (`LadderSpec => []NoSilentWinner`) puts them together: of a
finite group the figure of the least tier, and of those the latest filed, is
beaten by none, and a pair that is compared and left standing on both sides was
taken by a rung that names no winner, and is recorded.

### Fetching

`EvidenceProofs`: `FetchTypeCorrect`, whatever the clocks show;
`ThePaceIsKept`, assuming `Skew[f] = 0` for every fetcher: between any two of the
tokens taken, no more than burst and rate allow; `TheCircuitOpensForCause`.
`PaceInv` says of each earlier token that what was taken since, and what is in
the bucket, together fit burst and rate (`KeptPace`), and `Expire` keeps it because
an idle bucket is full by then; `KeptMeansPaced` gets the property from it.
`CauseInv` bounds the counter by the failures recorded since the last success, as
each fetch's own increment left it, for the opening that follows is another
command.

`EveryFetchGetsShorter` (`FetchSpec => FetchesGetShorter`) and `NoSleepIsLong`
(`FetchSpec => []SleepsAreShort`) are what the end of a fetch rests on, without
fairness: `StepsToGo` counts down hops, attempts, ticks it may still wait and its
way through the attempt; a hop or an attempt is worth more than all that starts
over when it is used up, and a wait for tokens takes at least a tick (`WaitsAreReal`), however often
others empty the bucket first. And a fetch that sleeps wakes within the longest
wait or back-off. That time passes and a fetch that can step does is the fairness.

### The thesis monitor

`OperatorProofs`: `WatchTypeCorrect`; and, assuming one monitor (`OneMonitor`:
any two are the same), `YearsOpenOneGate` (`WatchSpec => []OneGatePerYear`) and
`DefeatsAreFound` (`WatchSpec => DefeatIsNotMissed`). `GateInv` says that the years
a premise was measured in only go up, and that the one under way is above them
all: a reading of an amended past is none of a newer year. A second monitor's
answer may be of a year that was read meanwhile. `SaysInv` says of each reading,
and of the question under way, that what it concluded is what the figures said
then, and say still if none was filed since. `SettledInv` is the walk over the
premises: those the pass has gone past are settled, and one it asks about is
asked about in the newest year. A premise with no news is settled because its
last reading said so (`NoNewsIsSettled`), and that is where `Amended` is needed.

The attempt found the property false with three years, when the checks had two: a
growth read from year 1, year 2 arriving later, is not read again although
`_measure` would now compare with year 2. `_nothing_newer` looks at the newest
year of the window only. The model has since had the year a reading was measured
from, the property the exception, and the instance a third year.

### The book

`OperatorProofs`, for any dates, lots, ratios, recorders and bounds, each as
`BookSpec => []...`: `BookTypeCorrect`; `SplitsReachTheBook` (`SplitsArrive`);
`ReviewsStandFast` (`ReviewsStand`); `ClosedPositionsAreRoundTrips`
(`EpisodesAreRoundTrips`); `HoldingsAreTheHistory` (`HoldingIsTheHistory`).

Two kinds of facts meet. The invariant, `BookInv`, is of the records: no two
rows have their date, time and place in a session in common, in the book or on
their way to it (`BookRowsInv`), a book with trades has the splits that are known
and a recorder that works alone brings the missing ones (`SplitsInv`), a session
that works alone writes the latest rows (`AloneInv`), and reviews are of closed
positions (`ReviewsInv`). The rest is of the walk, and true of any rows that can
be told apart (`Ordered`):

- a row's place counts the rows before it, places are one each, and the sequence
  is the rows in order (`OrderFacts`, `InForceIs`);
- the fold is taken row by row (`WalkRowByRow`), and nothing is held exactly when
  no episode is under way (`WalkShape`);
- each episode, walked by itself, leads to what the walk had there (`TripShape`,
  by `Replays`);
- the holding and the sales together are the purchases, each multiplied by the
  splits met so far (`Accounts`): a split multiplies both sides, for without a
  trade on its own date it is after all that was dealt before it.

A later row that comes after every other leaves what was walked before it, which
is why reviews stand.

### Sums, folds and products

`SetFacts` has what several arguments share. The library's induction theorems
cannot be used, as section 7 says, so what a sum, a product or a fold comes to
is proved from a smallest counterexample: a set of naturals has a least element
(`Least`), of the sets a claim fails for one has the fewest members
(`SmallestSet`), and the element that is taken out of it carries the claim over.
From that come the sum of a set with one element more, with one summand changed,
of larger summands, of all multiplied (`SumScale`), the same of products, and
that a finite set of numbers has a greatest.

## 7. What is only model-checked

- Liveness (`ExecutionsEnd`, `ApprovedGatesArePassed`, `AgreedRunsGoOn`,
  `ApprovedIsUsed`, `EveryFetchEnds`): fairness and `ENABLED` are out of the
  prover's reach. Of `ExecutionsEnd` the two halves that are not temporal are
  proved: an executor can always go on, and each of its steps brings its end
  nearer. So is that of `EveryFetchEnds` which is about retries, redirects and
  waits.
- That `CanGoOn(e)` is `ENABLED` of the executor's next step is by comparison of
  the two definitions, guard by guard; no theorem can speak of `ENABLED`.

The induction theorems of the library take an operator as a parameter, which
none of the provers instantiates, and they give `SortSeq` and `SelectSeq` no
meaning. `Book` therefore sorts by counting and finds an episode's first date
by a set of positions; TLC explores the same states as with the library's two.

## 8. Not modelled

| part | why |
|---|---|
| calculation engine, extraction, rendering, charts, export | sequential code over documents and numbers, where the risk is in the content; of `calc/portfolio.py` the fold of a holding is in `Book` |
| agents and prompts, the checks of a draft, the investigation loop | what a model answers is a choice in `Drafting`, `Spend` and `ThesisWatch` |
| providers and routing, data clients | HTTP; a call's price and outcome are inputs |
| robots.txt, the SSRF policy | pure decisions over a URL; robots.txt is asked for the first URL of a chain only, which `Fetching`'s redirects do not tell apart |
| decisions | a log whose entries are revised at most once by a unique constraint; what is hard is one check of a trade against an entry being withdrawn, next in the plan |
| skills between plan and draft | pins are an input of `Drafting`; that another run's plan may write a newer definition of a pinned skill is not |
| configuration overrides | a read-merge-write service; in the plan |
| persistence layer, migrations, observability, bootstrap | table definitions and wiring; the columns the models need are their variables |
| evaluation, tests, audit harness | tooling around the program |

Within the modelled parts: `stop_after`; archiving and restoring a request;
the thesis a commission may name and due dates; token prices and cost categories;
streaming and temporary files of the store; citation checks and escalation
triggers; the arithmetic of a metric; prices, currencies and cost basis of the
book.
