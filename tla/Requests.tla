------------------------------ MODULE Requests ------------------------------
(***************************************************************************)
(* The life of one research request: edited while nothing has come of it,  *)
(* run, run again when a run died without a report, continued, deleted or  *)
(* purged.  Each handler reads the newest run and what the runs left       *)
(* behind, and commits later; the worker writes evidence and the report    *)
(* under the terms it loaded.                                              *)
(***************************************************************************)
EXTENDS Integers

CONSTANTS
  Runs,          \* bound: jobs the request may have
  Tabs,          \* handlers that may be under way at once
  ContinuesOld,  \* does the operator continue runs that were superseded?
  MaxEdits       \* bound: edits

ASSUME RequestsAssumption == ContinuesOld \in BOOLEAN /\ MaxEdits \in Nat

VARIABLES
  terms,     \* the version of what the request asks for
  run,       \* run[j]: "none", "live", "dead" (failed, cancelled) or "done"
  latest,    \* latest_run: the job that started last
  loaded,    \* loaded[j]: the terms j's worker works under, if it has begun
  evidence,  \* the terms source documents were admitted under
  reports,   \* the reports of the request, with the terms each was made under
  tab,       \* tab[t]: what the handler is about to commit
  present    \* the request and its work order exist

requestVars == <<terms, run, latest, loaded, evidence, reports, tab, present>>

None    == {}
Ops     == [do : {"start", "edit", "delete", "purge"}, on : {None}]
             \cup [do : {"continue"}, on : {{j} : j \in Runs}]
Pending == {None} \cup {{op} : op \in Ops}

RequestsTypeOK ==
  /\ terms \in Nat
  /\ run \in [Runs -> {"none", "live", "dead", "done"}]
  /\ latest \in {None} \cup {{j} : j \in Runs}
  /\ loaded \in [Runs -> SUBSET Nat]
  /\ evidence \subseteq Nat
  /\ reports \subseteq [job : Runs, terms : Nat]
  /\ tab \in [Tabs -> Pending]
  /\ present \in BOOLEAN

RequestsInit ==
  /\ terms = 0
  /\ run = [j \in Runs |-> "none"]
  /\ latest = None
  /\ loaded = [j \in Runs |-> None]
  /\ evidence = {}
  /\ reports = {}
  /\ tab = [t \in Tabs |-> None]
  /\ present = TRUE

-----------------------------------------------------------------------------
(* What a handler reads before it acts: only ever the newest run.          *)
IsLive(j)      == run[j] = "live"
HasReported(j) == \E r \in reports : r.job = j

MayBeSuperseded(j) == ~IsLive(j) /\ ~HasReported(j)

(* Mutant: evidence does not freeze the request. *)
ImmutableIfReported == (\E j \in latest : IsLive(j)) \/ (latest # None /\ reports # {})

Immutable ==
  \/ \E j \in latest : IsLive(j)
  \/ latest # None /\ (reports # {} \/ evidence # {})

Purgeable == \A j \in latest : ~IsLive(j)

May(op) ==
  CASE op.do = "start"              -> \A j \in latest : MayBeSuperseded(j)
    [] op.do \in {"edit", "delete"} -> ~Immutable
    [] op.do = "purge"              -> Purgeable
    [] op.do = "continue"           -> \A j \in op.on : run[j] = "dead"

Chosen(op) == ContinuesOld \/ op.on \subseteq latest

ReadRequest(t, op) ==
  /\ present
  /\ tab[t] = None
  /\ Chosen(op)
  /\ May(op)
  /\ tab' = [tab EXCEPT ![t] = {op}]
  /\ UNCHANGED <<terms, run, latest, loaded, evidence, reports, present>>

Committing(t, do, on) ==
  /\ present
  /\ tab[t] = {[do |-> do, on |-> on]}
  /\ tab' = [tab EXCEPT ![t] = None]

-----------------------------------------------------------------------------
(* start_run, resume_run, update_request, delete_request, purge_request.   *)
CommitStart(t) == \E j \in Runs :
  /\ Committing(t, "start", None)
  /\ run[j] = "none"
  /\ run' = [run EXCEPT ![j] = "live"]
  /\ latest' = {j}
  /\ UNCHANGED <<terms, loaded, evidence, reports, present>>

CommitContinue(t) == \E j \in Runs :
  /\ Committing(t, "continue", {j})
  /\ run' = [run EXCEPT ![j] = "live"]
  /\ UNCHANGED <<terms, latest, loaded, evidence, reports, present>>

CommitEdit(t) ==
  /\ Committing(t, "edit", None)
  /\ terms < MaxEdits
  /\ terms' = terms + 1
  /\ UNCHANGED <<run, latest, loaded, evidence, reports, present>>

CommitRemoval(t) ==
  /\ Committing(t, "delete", None) \/ Committing(t, "purge", None)
  /\ present' = FALSE
  /\ UNCHANGED <<terms, run, latest, loaded, evidence, reports>>

-----------------------------------------------------------------------------
(* The worker: it loads the request once for each execution.               *)
Begin(j) ==
  /\ present
  /\ IsLive(j)
  /\ loaded[j] = None
  /\ loaded' = [loaded EXCEPT ![j] = {terms}]
  /\ UNCHANGED <<terms, run, latest, evidence, reports, tab, present>>

Gather(j) ==
  /\ present
  /\ loaded[j] # None
  /\ evidence' = evidence \cup loaded[j]
  /\ UNCHANGED <<terms, run, latest, loaded, reports, tab, present>>

(* reports.job_id is unique; request_id is not.                            *)
WriteReport(j) == \E v \in loaded[j] :
  /\ present
  /\ ~HasReported(j)
  /\ reports' = reports \cup {[job |-> j, terms |-> v]}
  /\ UNCHANGED <<terms, run, latest, loaded, evidence, tab, present>>

EndRun(j) ==
  /\ present
  /\ IsLive(j)
  /\ \/ run' = [run EXCEPT ![j] = "dead"]
     \/ HasReported(j) /\ run' = [run EXCEPT ![j] = "done"]
  /\ loaded' = [loaded EXCEPT ![j] = None]
  /\ UNCHANGED <<terms, latest, evidence, reports, tab, present>>

Handler(t) ==
  \/ \E op \in Ops : ReadRequest(t, op)
  \/ CommitStart(t) \/ CommitContinue(t) \/ CommitEdit(t) \/ CommitRemoval(t)

RequestsNext ==
  \/ \E t \in Tabs : Handler(t)
  \/ \E j \in Runs : Begin(j) \/ Gather(j) \/ WriteReport(j) \/ EndRun(j)

RequestsSpec == RequestsInit /\ [][RequestsNext]_requestVars

-----------------------------------------------------------------------------
(* "One report per request, not one job": a run is superseded only if it   *)
(* died without a report, so no two runs of a request ever report.         *)
OneReportPerRequest == \A r, q \in reports : r = q

(* What was gathered and reported was gathered and reported under the      *)
(* terms the request shows: no edit falsifies the record.                  *)
TheRecordKeepsItsTerms ==
  evidence \cup {r.terms : r \in reports} \subseteq {terms}

(* The request is never removed under a run that is alive.                 *)
NoLiveRunIsRemoved == [][present /\ ~present' => \A j \in Runs : ~IsLive(j)]_requestVars

(* Every live run is the one the pages show and the guards look at.        *)
LiveRunsAreLatest == \A j \in Runs : IsLive(j) => j \in latest

(* What a request promises whoever wrote it: see WorkOrder.  Of the above  *)
(* only the last does not follow from it.                                  *)
OnRequest == INSTANCE WorkOrder WITH working <- {j \in Runs : IsLive(j)}
WorkedToOrder == OnRequest!Spec
=============================================================================
