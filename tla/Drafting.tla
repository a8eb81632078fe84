------------------------------ MODULE Drafting ------------------------------
(***************************************************************************)
(* The report of one run, from its draft to its seal.  The draft step      *)
(* writes its sections side by side, each on a session of its own; the     *)
(* validator, the adversary and the revision work on the run's session,    *)
(* which a stop commits and a death rolls back.  What a stopped step had   *)
(* committed is there when the run is continued.                           *)
(***************************************************************************)
EXTENDS Integers, FiniteSets

CONSTANTS
  Sections,      \* the sections a model writes, in the order of their keys
  Custom,        \* those of a user's skill
  Pinned,        \* the custom ones whose skill the plan pinned
  FromRecord,    \* those their augmenter answers from the record, uncharged
  Values,        \* what a draft may say of the figure they all may publish
  Attacks,       \* the sections one challenge may attack the claims of
  Severities,    \* of a challenge
  Material,      \* MATERIAL_SEVERITY
  FanOut,        \* DRAFT_FAN_OUT
  MaxRevised,    \* MAX_REVISED_SECTIONS
  MaxChallenges, \* bound: challenges of a report of the adversary
  MaxStops       \* bound: steps stopped by a failure, the budget or a death

ASSUME DraftingAssumption ==
  /\ Sections \subseteq Int /\ IsFiniteSet(Sections)
  /\ Custom \subseteq Sections
  /\ Severities \subseteq Int /\ IsFiniteSet(Severities)
  /\ {MaxRevised, MaxStops} \subseteq Nat

VARIABLES
  stage,    \* the step that is next or under way
  running,  \* is it under way
  writer,   \* writer[s]: where the draft step is with s
  due,      \* the challenged sections the revision has not come to
  tried,    \* the sections this revision has redrafted
  record,   \* the report as the run's session sees it
  durable,  \* the report as committed
  stops     \* steps stopped

draftVars == <<stage, running, writer, due, tried, record, durable, stops>>

Blank    == {}
Drafts   == [by : {"draft", "revise"}, visit : 0..MaxStops, says : Values]
MaybeDraft == {Blank} \cup {{d} : d \in Drafts}
Conflict == [on |-> {}, severity |-> 0]
Rows     == {Conflict} \cup [on : Attacks, severity : Severities]

Reports ==
  [status : [Sections -> {"pending", "failed", "generated"}],
   content : [Sections -> MaybeDraft],
   claims : [Sections -> MaybeDraft],
   rows : SUBSET Rows,
   listed : SUBSET Rows,
   notes : [Sections -> {"none", "revised", "revision_refused", "skipped_custom"}]]

NewReport ==
  [status |-> [s \in Sections |-> "pending"],
   content |-> [s \in Sections |-> Blank],
   claims |-> [s \in Sections |-> Blank],
   rows |-> {},
   listed |-> {},
   notes |-> [s \in Sections |-> "none"]]

(* Every part of the report and of the steps that make it keeps its type.  *)
DraftingTypeOK ==
  /\ stage \in {"draft", "validate", "red_team", "revise", "sealed"}
  /\ running \in BOOLEAN
  /\ writer \in [Sections -> {"idle", "queued", "writing", "settled", "raised"}]
  /\ due \subseteq Sections /\ tried \subseteq Sections
  /\ record \in Reports /\ durable \in Reports
  /\ stops \in 0..MaxStops

DraftingInit ==
  /\ stage = "draft"
  /\ running = FALSE
  /\ writer = [s \in Sections |-> "idle"]
  /\ due = {} /\ tried = {}
  /\ record = NewReport /\ durable = NewReport
  /\ stops = 0

-----------------------------------------------------------------------------
(* What becomes of a section: execute_builtin_section and                  *)
(* execute_custom_section write one that passed, record_draft_claims with  *)
(* it, and _failed clears one that did not.                                *)
Draft(step, v) == {[by |-> step, visit |-> stops, says |-> v]}

(* Mutant: a draft's claims join those of the draft it replaces. *)
ClaimsJoined(report, s, d) ==
  IF s \in FromRecord THEN report.claims[s] ELSE report.claims[s] \cup d

ClaimsAfter(report, s, d) ==
  IF s \in FromRecord THEN report.claims[s] ELSE d

Passed(report, s, d) ==
  [report EXCEPT !.status[s] = "generated", !.content[s] = d,
                 !.claims[s] = ClaimsAfter(report, s, d)]

Failed(report, s) ==
  [report EXCEPT !.status[s] = "failed", !.content[s] = Blank]

-----------------------------------------------------------------------------
(* The draft step.                                                         *)
Refused == Custom \ Pinned

ToWrite(s) == record.status[s] # "generated" /\ s \notin Refused

BeginDraft ==
  /\ stage = "draft" /\ ~running
  /\ running' = TRUE
  /\ writer' = [s \in Sections |-> IF ToWrite(s) THEN "queued" ELSE "idle"]
  /\ record' = [record EXCEPT !.status = [s \in Sections |->
                  IF s \in Refused THEN "failed" ELSE record.status[s]]]
  /\ UNCHANGED <<stage, due, tried, durable, stops>>

Writing == {s \in Sections : writer[s] = "writing"}

StartSection(s) ==
  /\ writer[s] = "queued"
  /\ Cardinality(Writing) < FanOut
  /\ writer' = [writer EXCEPT ![s] = "writing"]
  /\ UNCHANGED <<stage, running, due, tried, record, durable, stops>>

(* Each section commits on its own session, and the run's sees it.         *)
EndSection(s, Becomes(_)) ==
  /\ writer[s] = "writing"
  /\ writer' = [writer EXCEPT ![s] = "settled"]
  /\ record' = Becomes(record)
  /\ durable' = Becomes(durable)
  /\ UNCHANGED <<stage, running, due, tried, stops>>

WriteSection(s) == \E v \in Values :
  EndSection(s, LAMBDA report : Passed(report, s, Draft("draft", v)))

FailSection(s) ==
  /\ s \notin FromRecord
  /\ EndSection(s, LAMBDA report : Failed(report, s))

RaiseSection(s) ==
  /\ writer[s] = "writing"
  /\ stops < MaxStops
  /\ writer' = [writer EXCEPT ![s] = "raised"]
  /\ UNCHANGED <<stage, running, due, tried, record, durable, stops>>

(* A step that stops commits what the run's session holds.                 *)
Stop ==
  /\ running
  /\ stops < MaxStops
  /\ running' = FALSE
  /\ durable' = record
  /\ stops' = stops + 1
  /\ UNCHANGED <<stage, writer, due, tried, record>>

Raised == \E s \in Sections : writer[s] = "raised"

Drained == \A s \in Sections : writer[s] \notin {"queued", "writing"}

StopDraft == stage = "draft" /\ Drained /\ Raised /\ Stop

EndStage(next) ==
  /\ running' = FALSE
  /\ stage' = next
  /\ durable' = record'
  /\ UNCHANGED stops

EndDraft ==
  /\ running /\ stage = "draft"
  /\ Drained /\ ~Raised
  /\ UNCHANGED <<writer, due, tried, record>>
  /\ EndStage("validate")

-----------------------------------------------------------------------------
(* _validate and _red_team: one row for a figure the sections contradict   *)
(* each other on, one for each challenge, attributed through the claims it *)
(* attacks, and the section that lists the rows written anew.              *)
Shown(report) == UNION {report.content[s] : s \in Sections}

Contradicted(report) == \E d, e \in Shown(report) : d.says # e.says

Claimed == {s \in Sections : record.claims[s] # Blank}

Relisted(report) == [report EXCEPT !.listed = report.rows]

Validate ==
  /\ stage = "validate"
  /\ record' = Relisted([record EXCEPT !.rows =
                 @ \cup {c \in {Conflict} : Contradicted(record)}])
  /\ EndStage("red_team")
  /\ UNCHANGED <<writer, due, tried>>

(* Mutant: the section is not written again. *)
ChallengedOnly(challenges) == [record EXCEPT !.rows = @ \cup challenges]

Challenged(challenges) == Relisted([record EXCEPT !.rows = @ \cup challenges])

RedTeam ==
  /\ stage = "red_team"
  /\ \E n \in 0..(IF Claimed = {} THEN 0 ELSE MaxChallenges) :
       \E said \in [1..n -> [on : Attacks \cap SUBSET Claimed, severity : Severities]] :
         record' = Challenged({said[i] : i \in 1..n})
  /\ EndStage("revise")
  /\ UNCHANGED <<writer, due, tried>>

-----------------------------------------------------------------------------
(* revise_challenged_sections and the seal.                                *)
Against(s)  == {row \in record.rows : s \in row.on /\ row.severity >= Material}
Targets     == {s \in Sections : Against(s) # {}}
Worse(s, t) == \E a \in Against(s) : \A b \in Against(t) : a.severity > b.severity

(* Mutant: in the order of their keys. *)
ByKey(s, t) == s <= t

Before(s, t) == Worse(s, t) \/ (~Worse(t, s) /\ s <= t)

BeginRevise ==
  /\ stage = "revise" /\ ~running
  /\ running' = TRUE
  /\ due' = Targets
  /\ tried' = {}
  /\ record' = [record EXCEPT !.notes =
                  IF Targets = {} THEN @ ELSE [s \in Sections |-> "none"]]
  /\ UNCHANGED <<stage, writer, durable, stops>>

Room == Cardinality(tried) < MaxRevised

(* Mutant: what a refused attempt due is kept. *)
NotRestored(s) == Failed(record, s)

Restored(s) == IF record.status[s] = "generated" THEN record ELSE Failed(record, s)

Note(report, s, disposition) == [report EXCEPT !.notes[s] = disposition]

ReviseNext(s) ==
  /\ running /\ stage = "revise"
  /\ s \in due
  /\ \A t \in due : Before(s, t)
  /\ due' = due \ {s}
  /\ UNCHANGED <<stage, running, writer, durable, stops>>

SkipCustom(s) ==
  /\ s \in Custom
  /\ ReviseNext(s)
  /\ record' = Note(record, s, "skipped_custom")
  /\ UNCHANGED tried

LeaveOver(s) ==
  /\ s \notin Custom /\ ~Room
  /\ ReviseNext(s)
  /\ UNCHANGED <<record, tried>>

Redraft(s) ==
  /\ s \notin Custom /\ Room
  /\ ReviseNext(s)
  /\ tried' = tried \cup {s}

Revise(s) == \E v \in Values :
  /\ Redraft(s)
  /\ record' = Note(Passed(record, s, Draft("revise", v)), s, "revised")

Disposition(s) == IF record.status[s] = "generated" THEN "revision_refused" ELSE "revised"

RefuseRevision(s) ==
  /\ Redraft(s)
  /\ record' = Note(Restored(s), s, Disposition(s))

StopRevise == stage = "revise" /\ Stop

Seal ==
  /\ running /\ stage = "revise"
  /\ due = {}
  /\ record' = IF tried = {} THEN record ELSE Relisted(record)
  /\ EndStage("sealed")
  /\ UNCHANGED <<writer, due, tried>>

-----------------------------------------------------------------------------
(* The worker's process is lost: its sessions are rolled back.             *)
Die ==
  /\ running
  /\ stops < MaxStops
  /\ stops' = stops + 1
  /\ running' = FALSE
  /\ record' = durable
  /\ writer' = [s \in Sections |-> "idle"]
  /\ UNCHANGED <<stage, due, tried, durable>>

DraftSection(s) == StartSection(s) \/ WriteSection(s) \/ FailSection(s) \/ RaiseSection(s)

ReviseSection(s) == SkipCustom(s) \/ LeaveOver(s) \/ Revise(s) \/ RefuseRevision(s)

DraftingNext ==
  \/ BeginDraft \/ StopDraft \/ EndDraft
  \/ Validate \/ RedTeam
  \/ BeginRevise \/ StopRevise \/ Seal
  \/ Die
  \/ \E s \in Sections : DraftSection(s) \/ ReviseSection(s)

DraftingSpec == DraftingInit /\ [][DraftingNext]_draftVars

-----------------------------------------------------------------------------
(* The claims of a section are those of the draft it shows, and a section  *)
(* without a draft has none, whatever was stopped, refused or continued    *)
(* ("A recorded draft replaces the section's claims, and only a recorded   *)
(* one does"); and nobody is due writing once the step has stopped.       *)
ClaimsAreTheDrafts ==
  /\ \A s \in Sections : durable.claims[s] =
       IF s \in FromRecord THEN Blank ELSE durable.content[s]
  /\ running \/ Writing = {}

(* A draft that passed is never lost, and is replaced only by a revision   *)
(* that passed: no continued step pays for it again, no refused attempt    *)
(* takes it away.                                                          *)
PassedDraftsStand ==
  [][\A s \in Sections : durable.status[s] = "generated" =>
       /\ durable'.status[s] = "generated"
       /\ \/ durable'.content[s] = durable.content[s]
          \/ \E d \in durable'.content[s] : d.by = "revise"]_draftVars

(* What is sealed says what happened: every row is listed, a section noted *)
(* as revised shows the revision, one whose revision was refused shows     *)
(* nothing of that attempt.                                                *)
TheSealIsTrue == stage = "sealed" =>
  /\ durable.listed = durable.rows
  /\ \A s \in Sections : \A d \in durable.content[s] :
       /\ durable.notes[s] = "revised" => d.by = "revise"
       /\ durable.notes[s] # "revised" => d.by = "draft" \/ d.visit < stops

(* The revision took the worst-challenged sections it had room for, and no *)
(* more of them however often it was continued.                            *)
TheWorstAreRevised ==
  /\ Cardinality({s \in Sections : \E d \in durable.content[s] : d.by = "revise"})
       <= MaxRevised
  /\ stage = "sealed" => \A s \in Targets \ Custom : durable.notes[s] = "none" =>
       Cardinality({t \in Targets \ Custom : t # s /\ ~Worse(s, t)
                      /\ durable.notes[t] # "none"}) >= MaxRevised
=============================================================================
