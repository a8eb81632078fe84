--------------------------- MODULE DraftingProofs ---------------------------
(***************************************************************************)
(* Theorems about Drafting, for any sections, skills, drafts, challenges   *)
(* and limits, and about Ladder, for any figures.                          *)
(***************************************************************************)
EXTENDS Drafting, Ladder, SetFacts, TLAPS

(* The actions by what they change.                                        *)
LEMMA DraftingCases ==
  ASSUME DraftingNext,
         NEW Goal,
         BeginDraft => Goal,
         \A s \in Sections : StartSection(s) => Goal,
         \A s \in Sections : WriteSection(s) => Goal,
         \A s \in Sections : FailSection(s) => Goal,
         \A s \in Sections : RaiseSection(s) => Goal,
         StopDraft => Goal,
         EndDraft => Goal,
         Validate => Goal,
         RedTeam => Goal,
         BeginRevise => Goal,
         \A s \in Sections : SkipCustom(s) => Goal,
         \A s \in Sections : LeaveOver(s) => Goal,
         \A s \in Sections : Revise(s) => Goal,
         \A s \in Sections : RefuseRevision(s) => Goal,
         StopRevise => Goal,
         Seal => Goal,
         Die => Goal
  PROVE  Goal
BY DEF DraftingNext, DraftSection, ReviseSection

-----------------------------------------------------------------------------
(* Types.                                                                  *)

LEMMA OneStopMore ==
  /\ 0 \in 0..MaxStops
  /\ stops \in 0..MaxStops /\ stops < MaxStops => stops + 1 \in 0..MaxStops
BY DraftingAssumption DEF DraftingAssumption

LEMMA NewReportType == NewReport \in Reports
BY DEF NewReport, Reports, MaybeDraft, Blank

LEMMA DraftType ==
  ASSUME DraftingTypeOK, NEW by \in {"draft", "revise"}, NEW v \in Values
  PROVE  Draft(by, v) \in MaybeDraft
<1>1. [by |-> by, visit |-> stops, says |-> v] \in Drafts
  BY DEF Drafts, DraftingTypeOK
<1> QED
  BY <1>1 DEF Draft, MaybeDraft

LEMMA SectionType ==
  ASSUME NEW report \in Reports, NEW s \in Sections, NEW d \in MaybeDraft
  PROVE  /\ Passed(report, s, d) \in Reports
         /\ Failed(report, s) \in Reports
         /\ \A disposition \in {"revised", "revision_refused", "skipped_custom"} :
              Note(report, s, disposition) \in Reports
<1>1. ClaimsAfter(report, s, d) \in MaybeDraft
  BY DEF ClaimsAfter, Reports
<1>2. Blank \in MaybeDraft
  BY DEF MaybeDraft
<1> QED
  BY <1>1, <1>2 DEF Passed, Failed, Note, Reports

LEMMA RelistedType ==
  ASSUME NEW report \in Reports, NEW new \in SUBSET Rows
  PROVE  /\ Relisted(report) \in Reports
         /\ [report EXCEPT !.rows = @ \cup new] \in Reports
BY DEF Relisted, Reports

(* A step that ends or stops leaves its report committed.                  *)
Ends == /\ stage' \in {"draft", "validate", "red_team", "revise", "sealed"}
        /\ running' \in BOOLEAN
        /\ UNCHANGED writer
        /\ due' \subseteq Sections /\ tried' \subseteq Sections
        /\ record' \in Reports
        /\ durable' \in {record', durable}
        /\ stops' \in 0..MaxStops

LEMMA StopType ==
  ASSUME DraftingTypeOK, Stop PROVE Ends
<1>1. stops' \in 0..MaxStops
  BY OneStopMore DEF Stop, DraftingTypeOK
<1> QED
  BY <1>1 DEF Stop, Ends, DraftingTypeOK

LEMMA DraftingTypeStep ==
  ASSUME DraftingTypeOK, [DraftingNext]_draftVars PROVE DraftingTypeOK'
<1> DEFINE Goal == DraftingTypeOK'
<1>0. record \in Reports /\ durable \in Reports /\ stops \in 0..MaxStops
  BY DEF DraftingTypeOK
<1>1. Ends => Goal
  BY DEF Ends, DraftingTypeOK
<1>2. BeginDraft => Goal
  <2> SUFFICES ASSUME BeginDraft PROVE Goal
    OBVIOUS
  <2>1. record' \in Reports
    BY <1>0 DEF BeginDraft, Reports
  <2> QED
    BY <2>1 DEF BeginDraft, DraftingTypeOK
<1>3. ASSUME NEW s \in Sections, StartSection(s) \/ RaiseSection(s) PROVE Goal
  BY <1>3 DEF StartSection, RaiseSection, DraftingTypeOK
<1>4. ASSUME NEW s \in Sections, WriteSection(s) PROVE Goal
  <2>1. PICK v \in Values :
          /\ writer' = [writer EXCEPT ![s] = "settled"]
          /\ record' = Passed(record, s, Draft("draft", v))
          /\ durable' = Passed(durable, s, Draft("draft", v))
          /\ UNCHANGED <<stage, running, due, tried, stops>>
    BY <1>4 DEF WriteSection, EndSection
  <2>2. Draft("draft", v) \in MaybeDraft
    BY DraftType
  <2> QED
    BY <1>0, <2>1, <2>2, SectionType DEF DraftingTypeOK
<1>5. ASSUME NEW s \in Sections, FailSection(s) PROVE Goal
  <2>1. /\ writer' = [writer EXCEPT ![s] = "settled"]
        /\ record' = Failed(record, s)
        /\ durable' = Failed(durable, s)
        /\ UNCHANGED <<stage, running, due, tried, stops>>
    BY <1>5 DEF FailSection, EndSection
  <2>2. Blank \in MaybeDraft
    BY DEF MaybeDraft
  <2> QED
    BY <1>0, <2>1, <2>2, SectionType DEF DraftingTypeOK
<1>6. StopDraft \/ StopRevise => Goal
  BY <1>1, StopType DEF StopDraft, StopRevise
<1>7. EndDraft => Goal
  BY <1>1 DEF EndDraft, EndStage, Ends, DraftingTypeOK
<1>8. ASSUME Validate PROVE Goal
  <2>1. {c \in {Conflict} : Contradicted(record)} \in SUBSET Rows
    BY DEF Rows
  <2>2. record' \in Reports
    BY <1>0, <1>8, <2>1, RelistedType DEF Validate
  <2> QED
    BY <1>1, <1>8, <2>2 DEF Validate, EndStage, Ends, DraftingTypeOK
<1>9. ASSUME RedTeam PROVE Goal
  <2> PICK n \in 0..(IF Claimed = {} THEN 0 ELSE MaxChallenges) :
         \E said \in [1..n -> [on : Attacks \cap SUBSET Claimed, severity : Severities]] :
           record' = Challenged({said[i] : i \in 1..n})
    BY <1>9 DEF RedTeam
  <2>1. PICK said \in [1..n -> [on : Attacks \cap SUBSET Claimed, severity : Severities]] :
          record' = Challenged({said[i] : i \in 1..n})
    OBVIOUS
  <2>2. {said[i] : i \in 1..n} \in SUBSET Rows
    BY DEF Rows
  <2>3. record' \in Reports
    BY <1>0, <2>1, <2>2, RelistedType DEF Challenged
  <2> QED
    BY <1>1, <1>9, <2>3 DEF RedTeam, EndStage, Ends, DraftingTypeOK
<1>10. ASSUME BeginRevise PROVE Goal
  <2>1. record' \in Reports
    BY <1>0, <1>10 DEF BeginRevise, Reports
  <2> QED
    BY <1>1, <1>10, <2>1 DEF BeginRevise, Ends, DraftingTypeOK, Targets
<1>11. ASSUME NEW s \in Sections, ReviseNext(s), record' \in Reports,
              tried' \in {tried, tried \cup {s}}
       PROVE  Goal
  BY <1>1, <1>11 DEF ReviseNext, Ends, DraftingTypeOK
<1>12. ASSUME NEW s \in Sections, SkipCustom(s) \/ LeaveOver(s) PROVE Goal
  <2>1. Blank \in MaybeDraft
    BY DEF MaybeDraft
  <2> QED
    BY <1>0, <1>11, <1>12, <2>1, SectionType DEF SkipCustom, LeaveOver
<1>13. ASSUME NEW s \in Sections, Revise(s) PROVE Goal
  <2>1. PICK v \in Values : /\ Redraft(s)
                            /\ record' = Note(Passed(record, s, Draft("revise", v)), s, "revised")
    BY <1>13 DEF Revise
  <2>2. Draft("revise", v) \in MaybeDraft
    BY DraftType
  <2>3. record' \in Reports
    BY <1>0, <2>1, <2>2, SectionType
  <2> QED
    BY <1>11, <2>1, <2>3 DEF Redraft
<1>14. ASSUME NEW s \in Sections, RefuseRevision(s) PROVE Goal
  <2>1. Blank \in MaybeDraft
    BY DEF MaybeDraft
  <2>2. Restored(s) \in Reports
    BY <1>0, <2>1, SectionType DEF Restored
  <2>3. record' \in Reports
    BY <1>14, <2>1, <2>2, SectionType DEF RefuseRevision, Disposition
  <2> QED
    BY <1>11, <1>14, <2>3 DEF RefuseRevision, Redraft
<1>15. ASSUME Seal PROVE Goal
  <2>1. record' \in Reports
    BY <1>0, <1>15, RelistedType DEF Seal
  <2> QED
    BY <1>1, <1>15, <2>1 DEF Seal, EndStage, Ends, DraftingTypeOK
<1>16. Die => Goal
  BY <1>0, OneStopMore DEF Die, DraftingTypeOK
<1>17. DraftingNext => Goal
  <2> HIDE DEF Goal
  <2> QED
    BY <1>2, <1>3, <1>4, <1>5, <1>6, <1>7, <1>8, <1>9, <1>10, <1>12, <1>13, <1>14, <1>15,
       <1>16, DraftingCases
<1>18. UNCHANGED draftVars => Goal
  BY DEF draftVars, DraftingTypeOK
<1> QED
  BY <1>17, <1>18

(* Whatever a run drafts, is attacked for and revises, and wherever it     *)
(* stops, the report keeps its type.                                       *)
THEOREM DraftingTypeCorrect == DraftingSpec => []DraftingTypeOK
<1>1. DraftingInit => DraftingTypeOK
  BY NewReportType, OneStopMore DEF DraftingInit, DraftingTypeOK
<1> QED
  BY <1>1, DraftingTypeStep, PTL DEF DraftingSpec

-----------------------------------------------------------------------------
(* The claims of a section are its draft's, in what the run's session sees *)
(* as in what is committed.  A section without a passing draft is empty;   *)
(* the two agree on a draft that is committed, unless a revision is about  *)
(* to replace it; and a section waits to be written only while the draft   *)
(* step runs and only where neither has a draft of it.                     *)

SectionInv(report, s) ==
  /\ report.claims[s] = IF s \in FromRecord THEN Blank ELSE report.content[s]
  /\ report.status[s] # "generated" => report.content[s] = Blank
  /\ s \in Refused => report.status[s] # "generated"

Replaced(report, s, by) ==
  /\ by.status[s] = "generated"
  /\ by.content[s] = report.content[s] \/ \E d \in by.content[s] : d.by = "revise"

LinkInv(s) == durable.status[s] = "generated" => Replaced(durable, s, record)

Waits(s) == writer[s] \in {"queued", "writing"}

WriterInv(s) == Waits(s) =>
  /\ running /\ stage = "draft" /\ s \notin Refused
  /\ record.status[s] # "generated" /\ durable.status[s] # "generated"

DraftInv(s) ==
  SectionInv(record, s) /\ SectionInv(durable, s) /\ LinkInv(s) /\ WriterInv(s)

Stands(s) == durable.status[s] = "generated" => Replaced(durable, s, durable')

Kept(s) == DraftInv(s)' /\ Stands(s)

Same(report, new, s) ==
  /\ new.status[s] = report.status[s] /\ new.content[s] = report.content[s]
  /\ new.claims[s] = report.claims[s]

LEMMA SameSection ==
  ASSUME NEW report, NEW new, NEW s, SectionInv(report, s), Same(report, new, s)
  PROVE  SectionInv(new, s)
BY DEF SectionInv, Same

(* A step that leaves the section as it is, and commits it or does not.    *)
LEMMA KeptAsItIs ==
  ASSUME NEW s \in Sections, DraftInv(s), Same(record, record', s),
         durable' \in {record', durable},
         writer'[s] = writer[s] \/ ~Waits(s)',
         UNCHANGED <<running, stage>> \/ ~Waits(s)'
  PROVE  Kept(s)
<1>1. SectionInv(record, s)' /\ SectionInv(durable, s)'
  BY SameSection DEF DraftInv, SectionInv
<1>2. LinkInv(s)' /\ Stands(s)
  BY DEF DraftInv, LinkInv, Stands, Replaced, Same
<1>3. WriterInv(s)'
  BY DEF DraftInv, WriterInv, Waits, Same
<1> QED
  BY <1>1, <1>2, <1>3 DEF Kept, DraftInv

LEMMA PassedKeeps ==
  ASSUME NEW report \in Reports, NEW s \in Sections, NEW t \in Sections, NEW d,
         SectionInv(report, t), s \notin Refused
  PROVE  /\ SectionInv(Passed(report, s, d), t)
         /\ t # s => Same(report, Passed(report, s, d), t)
         /\ Passed(report, s, d).status[s] = "generated"
         /\ Passed(report, s, d).content[s] = d
BY DEF SectionInv, Passed, ClaimsAfter, Same, Reports

LEMMA FailedKeeps ==
  ASSUME NEW report \in Reports, NEW s \in Sections, NEW t \in Sections,
         SectionInv(report, t), SectionInv(report, s), report.status[s] # "generated"
  PROVE  /\ SectionInv(Failed(report, s), t)
         /\ t # s => Same(report, Failed(report, s), t)
         /\ Failed(report, s).status[s] = "failed"
BY DEF SectionInv, Failed, Same, Reports

LEMMA NoteKeeps ==
  ASSUME NEW report \in Reports, NEW s, NEW t, NEW disposition
  PROVE  Same(report, Note(report, s, disposition), t)
BY DEF Note, Same, Reports

LEMMA DraftStep ==
  ASSUME DraftingTypeOK, \A s \in Sections : DraftInv(s), [DraftingNext]_draftVars,
         NEW t \in Sections
  PROVE  Kept(t)
<1> DEFINE Goal == Kept(t)
<1>0. record \in Reports /\ durable \in Reports /\ DraftInv(t)
  BY DEF DraftingTypeOK
<1>1. ASSUME BeginDraft PROVE Goal
  <2>1. /\ writer' = [s \in Sections |-> IF ToWrite(s) THEN "queued" ELSE "idle"]
        /\ record' = [record EXCEPT !.status = [s \in Sections |->
                        IF s \in Refused THEN "failed" ELSE record.status[s]]]
        /\ UNCHANGED <<stage, durable>> /\ stage = "draft" /\ running'
    BY <1>1 DEF BeginDraft
  <2>2. /\ record'.status[t] = IF t \in Refused THEN "failed" ELSE record.status[t]
        /\ record'.content = record.content /\ record'.claims = record.claims
    BY <1>0, <2>1 DEF Reports
  <2>3. SectionInv(record, t)' /\ SectionInv(durable, t)'
    BY <1>0, <2>1, <2>2 DEF DraftInv, SectionInv
  <2>4. LinkInv(t)' /\ Stands(t)
    BY <1>0, <2>1, <2>2 DEF DraftInv, SectionInv, LinkInv, Stands, Replaced
  <2>5. WriterInv(t)'
    BY <1>0, <2>1, <2>2 DEF DraftInv, LinkInv, Replaced, WriterInv, Waits, ToWrite
  <2> QED
    BY <2>3, <2>4, <2>5 DEF Kept, DraftInv
<1>2. ASSUME NEW s \in Sections, StartSection(s) PROVE Goal
  <2>1. WriterInv(t)'
    BY <1>0, <1>2 DEF StartSection, DraftInv, WriterInv, Waits, DraftingTypeOK
  <2> QED
    BY <1>0, <1>2, <2>1 DEF StartSection, Kept, DraftInv, SectionInv, LinkInv, Stands, Replaced
<1>3. ASSUME NEW s \in Sections, RaiseSection(s) PROVE Goal
  <2>1. writer'[t] = writer[t] \/ ~Waits(t)'
    BY <1>3 DEF RaiseSection, Waits, DraftingTypeOK
  <2> QED
    BY <1>0, <1>3, <2>1, KeptAsItIs DEF RaiseSection, Same
<1>4. ASSUME NEW s \in Sections, writer[s] = "writing"
      PROVE  /\ s \notin Refused
             /\ record.status[s] # "generated" /\ durable.status[s] # "generated"
             /\ SectionInv(record, s) /\ SectionInv(durable, s)
  BY <1>4 DEF DraftInv, WriterInv, Waits
<1>5. ASSUME NEW s \in Sections, WriteSection(s) PROVE Goal
  <2>1. PICK v \in Values :
          /\ writer[s] = "writing"
          /\ writer' = [writer EXCEPT ![s] = "settled"]
          /\ record' = Passed(record, s, Draft("draft", v))
          /\ durable' = Passed(durable, s, Draft("draft", v))
          /\ UNCHANGED <<stage, running>>
    BY <1>5 DEF WriteSection, EndSection
  <2>2. SectionInv(record, t)' /\ SectionInv(durable, t)'
    BY <1>0, <1>4, <2>1, PassedKeeps DEF DraftInv, SectionInv
  <2>3. CASE t = s
    <3>1. LinkInv(t)' /\ Stands(t)
      BY <1>0, <1>4, <2>1, <2>3, PassedKeeps DEF DraftInv, LinkInv, Stands, Replaced
    <3>2. WriterInv(t)'
      BY <2>1, <2>3 DEF WriterInv, Waits, DraftingTypeOK
    <3> QED
      BY <2>2, <3>1, <3>2 DEF Kept, DraftInv
  <2>4. CASE t # s
    <3>1. Same(record, record', t) /\ Same(durable, durable', t)
      BY <1>0, <1>4, <2>1, <2>4, PassedKeeps DEF DraftInv
    <3>2. writer'[t] = writer[t]
      BY <2>1, <2>4 DEF DraftingTypeOK
    <3> QED
      BY <1>0, <2>1, <2>2, <3>1, <3>2
      DEF Kept, DraftInv, LinkInv, Stands, Replaced, Same, WriterInv, Waits
  <2> QED
    BY <2>3, <2>4
<1>6. ASSUME NEW s \in Sections, FailSection(s) PROVE Goal
  <2>1. /\ writer[s] = "writing"
        /\ writer' = [writer EXCEPT ![s] = "settled"]
        /\ record' = Failed(record, s)
        /\ durable' = Failed(durable, s)
        /\ UNCHANGED <<stage, running>>
    BY <1>6 DEF FailSection, EndSection
  <2>2. SectionInv(record, t)' /\ SectionInv(durable, t)'
    BY <1>0, <1>4, <2>1, FailedKeeps DEF DraftInv, SectionInv
  <2>3. CASE t = s
    <3>1. durable'.status[t] # "generated"
      BY <1>0, <1>4, <2>1, <2>3, FailedKeeps DEF DraftInv
    <3>2. WriterInv(t)'
      BY <2>1, <2>3 DEF WriterInv, Waits, DraftingTypeOK
    <3> QED
      BY <1>4, <2>1, <2>2, <2>3, <3>1, <3>2 DEF Kept, DraftInv, LinkInv, Stands
  <2>4. CASE t # s
    <3>1. Same(record, record', t) /\ Same(durable, durable', t)
      BY <1>0, <1>4, <2>1, <2>4, FailedKeeps DEF DraftInv
    <3>2. writer'[t] = writer[t]
      BY <2>1, <2>4 DEF DraftingTypeOK
    <3> QED
      BY <1>0, <2>1, <2>2, <3>1, <3>2
      DEF Kept, DraftInv, LinkInv, Stands, Replaced, Same, WriterInv, Waits
  <2> QED
    BY <2>3, <2>4
<1>7. StopDraft => Goal
  BY <1>0, KeptAsItIs DEF StopDraft, Stop, Drained, Waits, Same
<1>8. EndDraft => Goal
  BY <1>0, KeptAsItIs DEF EndDraft, EndStage, Drained, Waits, Same
<1>9. stage # "draft" => ~Waits(t)
  BY <1>0 DEF DraftInv, WriterInv
<1>10. ASSUME NEW new PROVE Same(record, Relisted([record EXCEPT !.rows = @ \cup new]), t)
  BY <1>0 DEF Relisted, Same, Reports
<1>11. Validate => Goal
  BY <1>0, <1>9, <1>10, KeptAsItIs DEF Validate, EndStage, Waits
<1>12. RedTeam => Goal
  BY <1>0, <1>9, <1>10, KeptAsItIs DEF RedTeam, Challenged, EndStage, Waits
<1>13. ASSUME BeginRevise PROVE Goal
  <2>1. Same(record, record', t)
    BY <1>0, <1>13 DEF BeginRevise, Same, Reports
  <2> QED
    BY <1>0, <1>9, <1>13, <2>1, KeptAsItIs DEF BeginRevise, Waits
<1>14. ASSUME NEW s \in Sections, SkipCustom(s) \/ LeaveOver(s) PROVE Goal
  <2>1. Same(record, record', t)
    BY <1>0, <1>14, NoteKeeps DEF SkipCustom, LeaveOver, Same
  <2> QED
    BY <1>0, <1>14, <2>1, KeptAsItIs DEF SkipCustom, LeaveOver, ReviseNext
<1>15. ASSUME NEW s \in Sections, Revise(s) PROVE Goal
  <2>1. PICK v \in Values : /\ Redraft(s)
                            /\ record' = Note(Passed(record, s, Draft("revise", v)), s, "revised")
    BY <1>15 DEF Revise
  <2>2. s \notin Refused /\ ~Waits(t) /\ UNCHANGED <<stage, running, writer, durable>>
    BY <1>9, <2>1 DEF Redraft, ReviseNext, Refused
  <2>3. Passed(record, s, Draft("revise", v)) \in Reports
    BY <1>0, DraftType, SectionType
  <2>4. PICK new \in Reports :
          /\ new = Passed(record, s, Draft("revise", v))
          /\ SectionInv(new, t)
          /\ t # s => Same(record, new, t)
          /\ new.content[s] = Draft("revise", v) /\ new.status[s] = "generated"
    BY <1>0, <2>2, <2>3, PassedKeeps DEF DraftInv
  <2>5. Same(new, record', t)
    BY <2>1, <2>3, <2>4, NoteKeeps
  <2>6. SectionInv(record, t)'
    BY <2>4, <2>5, SameSection DEF SectionInv
  <2>7. record'.status[t] = new.status[t] /\ record'.content[t] = new.content[t]
    BY <2>5 DEF Same
  <2>8. ASSUME t = s PROVE LinkInv(t)'
    <3>1. \E d \in record'.content[t] : d.by = "revise"
      <4>1. record'.content[t] = {[by |-> "revise", visit |-> stops, says |-> v]}
        BY <2>4, <2>7, <2>8 DEF Draft
      <4> QED
        BY <4>1
    <3>2. record'.status[t] = "generated"
      BY <2>4, <2>7, <2>8
    <3> QED
      BY <3>1, <3>2, <2>2 DEF LinkInv, Replaced
  <2>9. ASSUME t # s PROVE LinkInv(t)'
    <3>1. record'.status[t] = record.status[t] /\ record'.content[t] = record.content[t]
      BY <2>4, <2>7, <2>9 DEF Same
    <3> QED
      BY <1>0, <2>2, <3>1 DEF DraftInv, LinkInv, Replaced
  <2>10. LinkInv(t)'
    BY <2>8, <2>9
  <2> QED
    BY <1>0, <2>2, <2>6, <2>10 DEF Kept, DraftInv, SectionInv, WriterInv, Waits, Stands, Replaced
<1>16. ASSUME NEW s \in Sections, RefuseRevision(s) PROVE Goal
  <2>1. /\ record' = Note(Restored(s), s, Disposition(s))
        /\ ~Waits(t) /\ UNCHANGED <<stage, running, writer, durable>>
    BY <1>9, <1>16 DEF RefuseRevision, Redraft, ReviseNext
  <2>2. CASE record.status[s] = "generated"
    <3>1. Same(record, record', t)
      BY <1>0, <2>1, <2>2, NoteKeeps DEF Restored
    <3> QED
      BY <1>0, <2>1, <3>1, KeptAsItIs
  <2>3. CASE record.status[s] # "generated"
    <3>1. Restored(s) \in Reports /\ Restored(s) = Failed(record, s)
      BY <1>0, <2>3, SectionType DEF Restored, MaybeDraft
    <3>2. Same(Restored(s), record', t)
      BY <2>1, <3>1, NoteKeeps
    <3>3. SectionInv(record, s) /\ durable.status[s] # "generated"
      BY <2>3 DEF DraftInv, LinkInv, Replaced
    <3>4. /\ SectionInv(Restored(s), t)
          /\ t # s => Same(record, Restored(s), t)
      BY <1>0, <2>3, <3>1, <3>3, FailedKeeps DEF DraftInv
    <3>5. SectionInv(record, t)'
      BY <3>2, <3>4, SameSection DEF SectionInv
    <3>6. LinkInv(t)'
      BY <1>0, <2>1, <3>2, <3>3, <3>4 DEF DraftInv, LinkInv, Replaced, Same
    <3> QED
      BY <1>0, <2>1, <3>5, <3>6 DEF Kept, DraftInv, SectionInv, WriterInv, Waits, Stands, Replaced
  <2> QED
    BY <2>2, <2>3
<1>17. StopRevise => Goal
  BY <1>0, <1>9, KeptAsItIs DEF StopRevise, Stop, Waits, Same
<1>18. ASSUME Seal PROVE Goal
  <2>1. Same(record, record', t)
    BY <1>0, <1>18 DEF Seal, Relisted, Same, Reports
  <2> QED
    BY <1>0, <1>9, <1>18, <2>1, KeptAsItIs DEF Seal, EndStage, Waits
<1>19. ASSUME Die PROVE Goal
  <2>1. ~Waits(t)'
    BY <1>19 DEF Die, Waits
  <2> QED
    BY <1>0, <1>19, <2>1 DEF Die, Kept, DraftInv, SectionInv, LinkInv, Replaced, WriterInv, Stands
<1>20. DraftingNext => Goal
  <2> HIDE DEF Goal
  <2> QED
    BY <1>1, <1>2, <1>3, <1>5, <1>6, <1>7, <1>8, <1>11, <1>12, <1>13, <1>14, <1>15, <1>16,
       <1>17, <1>18, <1>19, DraftingCases
<1>21. UNCHANGED draftVars => Goal
  BY <1>0, KeptAsItIs DEF draftVars, Same
<1> QED
  BY <1>20, <1>21

LEMMA DraftsBegin == DraftingInit => \A s \in Sections : DraftInv(s)
BY DEF DraftingInit, NewReport, DraftInv, SectionInv, LinkInv, WriterInv, Waits

DraftsInv == DraftingTypeOK /\ \A s \in Sections : DraftInv(s)

LEMMA DraftsInvHolds == DraftingSpec => []DraftsInv
<1>1. DraftingInit => DraftsInv
  BY DraftsBegin, NewReportType, OneStopMore DEF DraftsInv, DraftingInit, DraftingTypeOK
<1>2. DraftsInv /\ [DraftingNext]_draftVars => DraftsInv'
  BY DraftingTypeStep, DraftStep DEF DraftsInv, Kept
<1> QED
  BY <1>1, <1>2, PTL DEF DraftingSpec

(* Claims follow the draft that is shown, for any sections and skills and  *)
(* wherever the steps fail, stop, die and are continued.                   *)
THEOREM ClaimsFollowTheDraft == DraftingSpec => []ClaimsAreTheDrafts
<1>1. DraftsInv => ClaimsAreTheDrafts
  BY DEF DraftsInv, DraftInv, SectionInv, WriterInv, Waits, ClaimsAreTheDrafts, Writing
<1> QED
  BY <1>1, DraftsInvHolds, PTL

(* A draft that passed is never lost to a continued step, a refused        *)
(* revision or a death, for any sections and limits.                       *)
THEOREM DraftsThatPassStand == DraftingSpec => PassedDraftsStand
<1> DEFINE Stand == \A s \in Sections : durable.status[s] = "generated" =>
                      /\ durable'.status[s] = "generated"
                      /\ \/ durable'.content[s] = durable.content[s]
                         \/ \E d \in durable'.content[s] : d.by = "revise"
<1>1. DraftsInv /\ [DraftingNext]_draftVars => [Stand]_draftVars
  BY DraftStep DEF DraftsInv, Kept, Stands, Replaced
<1> QED
  BY <1>1, DraftsInvHolds, PTL DEF DraftingSpec, PassedDraftsStand
-----------------------------------------------------------------------------
(* What is sealed.  Every row is listed whenever a row is written.  Until  *)
(* the revision, nothing is noted and every draft is the draft step's.     *)
(* Then what a note calls revised shows a revision; what is not yet noted  *)
(* shows no revision of this visit; and what the revision comes back to    *)
(* after a stop is of an earlier visit.                                    *)
LEMMA Fields ==
  ASSUME NEW report \in Reports, NEW s \in Sections, NEW d, NEW disposition
  PROVE  /\ Passed(report, s, d).rows = report.rows
         /\ Passed(report, s, d).listed = report.listed
         /\ Passed(report, s, d).notes = report.notes
         /\ \A t \in Sections : Passed(report, s, d).content[t]
                                  = IF t = s THEN d ELSE report.content[t]
         /\ Failed(report, s).rows = report.rows
         /\ Failed(report, s).listed = report.listed
         /\ Failed(report, s).notes = report.notes
         /\ \A t \in Sections : Failed(report, s).content[t]
                                  = IF t = s THEN Blank ELSE report.content[t]
         /\ Note(report, s, disposition).rows = report.rows
         /\ Note(report, s, disposition).listed = report.listed
         /\ Note(report, s, disposition).content = report.content
         /\ \A t \in Sections : Note(report, s, disposition).notes[t]
                                  = IF t = s THEN disposition ELSE report.notes[t]
         /\ Relisted(report).rows = report.rows
         /\ Relisted(report).listed = report.rows
         /\ Relisted(report).content = report.content
         /\ Relisted(report).notes = report.notes
BY DEF Passed, Failed, Note, Relisted, Reports

AllListed(report) == report.listed = report.rows

RowsInv == AllListed(record) /\ AllListed(durable) /\ record.rows = durable.rows

FreshDraft(report, s) == report.notes[s] = "none" /\ \A d \in report.content[s] : d.by = "draft"

NoteTrue(report, s) ==
  report.notes[s] = "revised" => \A d \in report.content[s] : d.by = "revise"

Past(report, s) == \A d \in report.content[s] : d.visit <= stops

OfBefore(report, s) == \A d \in report.content[s] : d.by = "revise" => d.visit < stops

Early == stage \in {"draft", "validate", "red_team"}

SealInv(s) ==
  /\ Early => FreshDraft(record, s) /\ FreshDraft(durable, s)
  /\ NoteTrue(record, s) /\ NoteTrue(durable, s)
  /\ Past(record, s) /\ Past(durable, s)
  /\ stage = "revise" => OfBefore(durable, s)
  /\ stage = "revise" /\ (~running \/ record.notes[s] # "revised") => OfBefore(record, s)
  /\ stage = "revise" /\ running /\ s \in due => record.notes[s] # "revised"
  /\ stage = "sealed" => ~running
  /\ stage = "sealed" /\ durable.notes[s] # "revised" => OfBefore(durable, s)

(* A step before the revision that leaves this section as it is in what    *)
(* the run sees and in what is committed, or commits the one for the other.*)
Alike(report, new, s) == new.content[s] = report.content[s] /\ new.notes[s] = report.notes[s]

LEMMA EarlyKeeps ==
  ASSUME DraftingTypeOK, NEW s \in Sections, SealInv(s), Early, Alike(record, record', s),
         durable' = record' \/ durable' = durable, stage' # "sealed", stops' = stops
  PROVE  SealInv(s)'
<1>1. FreshDraft(record, s)' /\ Past(record, s)'
  BY DEF SealInv, FreshDraft, Past, Alike
<1>2. FreshDraft(durable, s)' /\ Past(durable, s)'
  BY <1>1 DEF SealInv, FreshDraft, Past
<1>3. OfBefore(record, s)' /\ OfBefore(durable, s)'
  BY <1>1, <1>2 DEF FreshDraft, OfBefore
<1> QED
  BY <1>1, <1>2, <1>3 DEF SealInv, NoteTrue, FreshDraft

LEMMA RowsStep ==
  ASSUME DraftingTypeOK, RowsInv, [DraftingNext]_draftVars PROVE RowsInv'
<1> DEFINE Goal == RowsInv'
<1>0. /\ record \in Reports /\ durable \in Reports
      /\ record.listed = record.rows /\ durable.listed = durable.rows
      /\ record.rows = durable.rows
  BY DEF DraftingTypeOK, RowsInv, AllListed
<1>1. ASSUME record'.listed = record'.rows, record'.rows = record.rows,
             durable' = record' \/ durable' = durable
      PROVE  Goal
  BY <1>0, <1>1 DEF RowsInv, AllListed
<1>2. ASSUME record'.listed = record'.rows, durable' = record'
      PROVE  Goal
  BY <1>0, <1>2 DEF RowsInv, AllListed
<1>3. BeginDraft => Goal
  BY <1>0, <1>1 DEF BeginDraft, Reports
<1>4. ASSUME NEW s \in Sections, StartSection(s) \/ RaiseSection(s) \/ LeaveOver(s) PROVE Goal
  BY <1>0, <1>1, <1>4 DEF StartSection, RaiseSection, LeaveOver, ReviseNext
<1>5. ASSUME NEW s \in Sections, WriteSection(s) PROVE Goal
  <2>1. PICK v \in Values : /\ record' = Passed(record, s, Draft("draft", v))
                            /\ durable' = Passed(durable, s, Draft("draft", v))
    BY <1>5 DEF WriteSection, EndSection
  <2> QED
    BY <1>0, <2>1, Fields DEF RowsInv, AllListed
<1>6. ASSUME NEW s \in Sections, FailSection(s) PROVE Goal
  BY <1>0, <1>6, Fields DEF FailSection, EndSection, RowsInv, AllListed
<1>7. StopDraft \/ StopRevise => Goal
  BY <1>0, <1>1 DEF StopDraft, StopRevise, Stop
<1>8. EndDraft => Goal
  BY <1>0, <1>1 DEF EndDraft, EndStage
<1>9. ASSUME NEW new \in SUBSET Rows, record' = Relisted([record EXCEPT !.rows = @ \cup new])
      PROVE  record'.listed = record'.rows
  <2>1. [record EXCEPT !.rows = @ \cup new] \in Reports
    BY <1>0, RelistedType
  <2> QED
    BY <1>9, <2>1 DEF Relisted, Reports
<1>10. ASSUME Validate PROVE Goal
  <2>1. {c \in {Conflict} : Contradicted(record)} \in SUBSET Rows
    BY DEF Rows
  <2> QED
    BY <1>2, <1>9, <1>10, <2>1 DEF Validate, EndStage
<1>11. ASSUME RedTeam PROVE Goal
  <2> PICK n \in 0..(IF Claimed = {} THEN 0 ELSE MaxChallenges) :
         \E said \in [1..n -> [on : Attacks \cap SUBSET Claimed, severity : Severities]] :
           record' = Challenged({said[i] : i \in 1..n})
    BY <1>11 DEF RedTeam
  <2>1. PICK said \in [1..n -> [on : Attacks \cap SUBSET Claimed, severity : Severities]] :
          record' = Challenged({said[i] : i \in 1..n})
    OBVIOUS
  <2>2. {said[i] : i \in 1..n} \in SUBSET Rows
    BY DEF Rows
  <2>3. record'.listed = record'.rows
    BY <1>9, <2>1, <2>2 DEF Challenged
  <2> QED
    BY <1>2, <1>11, <2>3 DEF RedTeam, EndStage
<1>12. BeginRevise => Goal
  BY <1>0, <1>1 DEF BeginRevise, Reports
<1>13. ASSUME NEW s \in Sections, SkipCustom(s) PROVE Goal
  BY <1>0, <1>1, <1>13, Fields DEF SkipCustom, ReviseNext
<1>14. ASSUME NEW s \in Sections, Revise(s) PROVE Goal
  <2>1. PICK v \in Values : /\ Redraft(s)
                            /\ record' = Note(Passed(record, s, Draft("revise", v)), s, "revised")
    BY <1>14 DEF Revise
  <2>2. Passed(record, s, Draft("revise", v)) \in Reports
    BY <1>0, DraftType, SectionType
  <2>3. record'.listed = record'.rows /\ record'.rows = record.rows
    BY <1>0, <2>1, <2>2, Fields
  <2> QED
    BY <1>1, <2>1, <2>3 DEF Redraft, ReviseNext
<1>15. ASSUME NEW s \in Sections, RefuseRevision(s) PROVE Goal
  <2>1. Restored(s) \in Reports
    BY <1>0, SectionType DEF Restored, MaybeDraft
  <2>2. Restored(s).rows = record.rows /\ Restored(s).listed = record.listed
    BY <1>0, Fields DEF Restored
  <2>3. record'.listed = record'.rows /\ record'.rows = record.rows
    BY <1>0, <1>15, <2>1, <2>2, Fields DEF RefuseRevision
  <2> QED
    BY <1>1, <1>15, <2>3 DEF RefuseRevision, Redraft, ReviseNext
<1>16. ASSUME Seal PROVE Goal
  <2>1. record'.listed = record'.rows /\ durable' = record'
    BY <1>0, <1>16 DEF Seal, EndStage, Relisted, Reports
  <2> QED
    BY <1>2, <2>1
<1>17. Die => Goal
  BY <1>0 DEF Die, RowsInv, AllListed
<1>18. UNCHANGED draftVars => Goal
  BY <1>0 DEF draftVars, RowsInv, AllListed
<1>19. DraftingNext => Goal
  <2> HIDE DEF Goal
  <2> QED
    BY <1>3, <1>4, <1>5, <1>6, <1>7, <1>8, <1>10, <1>11, <1>12, <1>13, <1>14, <1>15, <1>16,
       <1>17, DraftingCases
<1> QED
  BY <1>18, <1>19

LEMMA SealStep ==
  ASSUME DraftingTypeOK, \A s \in Sections : DraftInv(s), \A s \in Sections : SealInv(s),
         [DraftingNext]_draftVars, NEW t \in Sections
  PROVE  SealInv(t)'
<1> DEFINE Goal == SealInv(t)'
<1>0. /\ record \in Reports /\ durable \in Reports /\ SealInv(t)
      /\ stops \in Int /\ t \in Sections
  BY DraftingAssumption DEF DraftingTypeOK
<1>1. /\ \A d \in record.content[t] : d.visit \in Int
      /\ \A d \in durable.content[t] : d.visit \in Int
  BY <1>0 DEF Reports, MaybeDraft, Drafts, Blank
<1>2. ASSUME BeginDraft PROVE Goal
  <2>1. Alike(record, record', t) /\ Early /\ stage' # "sealed"
        /\ durable' = durable /\ stops' = stops
    BY <1>0, <1>2 DEF BeginDraft, Alike, Early, Reports
  <2> QED
    BY <2>1, <1>0, EarlyKeeps
<1>3. ASSUME NEW s \in Sections, StartSection(s) \/ RaiseSection(s) PROVE Goal
  BY <1>0, <1>3 DEF StartSection, RaiseSection, SealInv, FreshDraft, NoteTrue, Past, OfBefore, Early
<1>4. ASSUME NEW s \in Sections, writer[s] = "writing" PROVE stage = "draft"
  BY <1>4 DEF DraftInv, WriterInv, Waits
<1>5. ASSUME NEW s \in Sections, WriteSection(s) PROVE Goal
  <2>1. PICK v \in Values : /\ record' = Passed(record, s, Draft("draft", v))
                            /\ durable' = Passed(durable, s, Draft("draft", v))
                            /\ writer[s] = "writing"
                            /\ UNCHANGED <<stage, stops>>
    BY <1>5 DEF WriteSection, EndSection
  <2>2. stage = "draft"
    BY <1>4, <2>1
  <2>3. \A d \in Draft("draft", v) : d.by = "draft" /\ d.visit = stops
    BY DEF Draft
  <2>4. FreshDraft(record, t)' /\ Past(record, t)'
    BY <1>0, <2>1, <2>2, <2>3, Fields DEF SealInv, Early, FreshDraft, Past
  <2>5. FreshDraft(durable, t)' /\ Past(durable, t)'
    BY <1>0, <2>1, <2>2, <2>3, Fields DEF SealInv, Early, FreshDraft, Past
  <2> QED
    BY <2>1, <2>2, <2>4, <2>5 DEF SealInv, NoteTrue, FreshDraft, Early
<1>6. ASSUME NEW s \in Sections, FailSection(s) PROVE Goal
  <2>1. /\ record' = Failed(record, s) /\ durable' = Failed(durable, s)
        /\ writer[s] = "writing"
        /\ UNCHANGED <<stage, stops>>
    BY <1>6 DEF FailSection, EndSection
  <2>2. stage = "draft"
    BY <1>4, <2>1
  <2>3. FreshDraft(record, t)' /\ Past(record, t)'
    BY <1>0, <2>1, <2>2, Fields DEF SealInv, Early, FreshDraft, Past, Blank
  <2>4. FreshDraft(durable, t)' /\ Past(durable, t)'
    BY <1>0, <2>1, <2>2, Fields DEF SealInv, Early, FreshDraft, Past, Blank
  <2> QED
    BY <2>1, <2>2, <2>3, <2>4 DEF SealInv, NoteTrue, FreshDraft, Early
<1>7. ASSUME StopDraft \/ StopRevise PROVE Goal
  <2>1. /\ running' = FALSE /\ durable' = record /\ stops' = stops + 1
        /\ stage \in {"draft", "revise"} /\ UNCHANGED <<stage, record>>
    BY <1>7 DEF StopDraft, StopRevise, Stop
  <2>2. Past(record, t)' /\ OfBefore(record, t)'
    BY <1>0, <1>1, <2>1 DEF SealInv, Past, OfBefore
  <2>3. Past(durable, t)' /\ OfBefore(durable, t)'
    BY <2>1, <2>2 DEF Past, OfBefore
  <2> QED
    BY <1>0, <2>1, <2>2, <2>3 DEF SealInv, Early, FreshDraft, NoteTrue
<1>8. ASSUME EndDraft PROVE Goal
  <2>1. /\ Alike(record, record', t) /\ Early /\ stage' # "sealed"
        /\ durable' = record' /\ stops' = stops
    BY <1>8 DEF EndDraft, EndStage, Alike, Early
  <2> QED
    BY <2>1, <1>0, EarlyKeeps
<1>9. ASSUME NEW new \in SUBSET Rows, record' = Relisted([record EXCEPT !.rows = @ \cup new])
      PROVE  Alike(record, record', t)
  BY <1>0, <1>9 DEF Relisted, Reports, Alike
<1>10. ASSUME Validate PROVE Goal
  <2>1. {c \in {Conflict} : Contradicted(record)} \in SUBSET Rows
    BY DEF Rows
  <2>2. /\ Alike(record, record', t) /\ Early /\ stage' # "sealed"
        /\ durable' = record' /\ stops' = stops
    BY <1>9, <1>10, <2>1 DEF Validate, EndStage, Early
  <2> QED
    BY <2>2, <1>0, EarlyKeeps
<1>11. ASSUME RedTeam PROVE Goal
  <2> PICK n \in 0..(IF Claimed = {} THEN 0 ELSE MaxChallenges) :
         \E said \in [1..n -> [on : Attacks \cap SUBSET Claimed, severity : Severities]] :
           record' = Challenged({said[i] : i \in 1..n})
    BY <1>11 DEF RedTeam
  <2>1. PICK said \in [1..n -> [on : Attacks \cap SUBSET Claimed, severity : Severities]] :
          record' = Challenged({said[i] : i \in 1..n})
    OBVIOUS
  <2>2. {said[i] : i \in 1..n} \in SUBSET Rows
    BY DEF Rows
  <2>3. /\ Alike(record, record', t) /\ Early /\ stage' # "sealed"
        /\ durable' = record' /\ stops' = stops
    BY <1>9, <1>11, <2>1, <2>2 DEF Challenged, RedTeam, EndStage, Early
  <2> QED
    BY <2>3, <1>0, EarlyKeeps
<1>12. ASSUME BeginRevise PROVE Goal
  <2>1. /\ record'.content = record.content
        /\ record'.notes = IF Targets = {} THEN record.notes ELSE [s \in Sections |-> "none"]
        /\ due' = Targets /\ stage = "revise" /\ ~running /\ running'
        /\ UNCHANGED <<stage, durable, stops>>
    BY <1>0, <1>12 DEF BeginRevise, Reports
  <2>2. /\ record'.notes[t] = "none" \/ record'.notes[t] = record.notes[t]
        /\ t \in due' => record'.notes[t] = "none"
    BY <2>1
  <2> QED
    BY <1>0, <2>1, <2>2 DEF SealInv, NoteTrue, Past, OfBefore, Early
<1>13. ASSUME NEW s \in Sections, ReviseNext(s), t # s, Alike(record, record', t) PROVE Goal
  BY <1>0, <1>13 DEF ReviseNext, SealInv, Alike, NoteTrue, Past, OfBefore, Early
<1>14. ASSUME ReviseNext(t), record'.content[t] = record.content[t],
              record'.notes[t] # "revised"
       PROVE  Goal
  BY <1>0, <1>14 DEF ReviseNext, SealInv, NoteTrue, Past, OfBefore, Early
<1>15. ASSUME ReviseNext(t), record'.notes[t] = "revised",
              \A d \in record'.content[t] : d.by = "revise" /\ d.visit <= stops
       PROVE  Goal
  BY <1>0, <1>15 DEF ReviseNext, SealInv, NoteTrue, Past, OfBefore, Early
<1>16. ASSUME NEW s \in Sections, SkipCustom(s) PROVE Goal
  <2>1. record' = Note(record, s, "skipped_custom") /\ ReviseNext(s)
    BY <1>16 DEF SkipCustom
  <2>2. t # s => Alike(record, record', t)
    BY <1>0, <2>1, Fields DEF Alike
  <2>3. t = s => record'.content[t] = record.content[t] /\ record'.notes[t] # "revised"
    BY <1>0, <2>1, Fields
  <2> QED
    BY <1>13, <1>14, <2>1, <2>2, <2>3
<1>17. ASSUME NEW s \in Sections, LeaveOver(s) PROVE Goal
  <2>1. ReviseNext(s) /\ record' = record /\ s \in due /\ running /\ stage = "revise"
    BY <1>17 DEF LeaveOver, ReviseNext
  <2>2. t = s => record'.notes[t] # "revised"
    BY <1>0, <2>1 DEF SealInv
  <2> QED
    BY <1>13, <1>14, <2>1, <2>2 DEF Alike
<1>18. ASSUME NEW s \in Sections, Revise(s) PROVE Goal
  <2>1. PICK v \in Values : /\ Redraft(s)
                            /\ record' = Note(Passed(record, s, Draft("revise", v)), s, "revised")
    BY <1>18 DEF Revise
  <2>2. Passed(record, s, Draft("revise", v)) \in Reports /\ ReviseNext(s)
    BY <1>0, <2>1, DraftType, SectionType DEF Redraft
  <2>3. t # s => Alike(record, record', t)
    BY <1>0, <2>1, <2>2, Fields DEF Alike
  <2>4. t = s => /\ record'.notes[t] = "revised"
                 /\ \A d \in record'.content[t] : d.by = "revise" /\ d.visit <= stops
    <3>1. \A d \in Draft("revise", v) : d.by = "revise" /\ d.visit <= stops
      BY <1>0 DEF Draft
    <3> QED
      BY <1>0, <2>1, <2>2, <3>1, Fields
  <2> QED
    BY <1>13, <1>15, <2>2, <2>3, <2>4
<1>19. ASSUME NEW s \in Sections, RefuseRevision(s) PROVE Goal
  <2>1. /\ record' = Note(Restored(s), s, Disposition(s)) /\ ReviseNext(s)
        /\ Restored(s) \in Reports
    BY <1>0, <1>19, SectionType DEF RefuseRevision, Redraft, Restored, MaybeDraft
  <2>2. t # s => Alike(record, record', t)
    BY <1>0, <2>1, Fields DEF Alike, Restored
  <2>3. t = s /\ record.status[s] = "generated" =>
          record'.content[t] = record.content[t] /\ record'.notes[t] # "revised"
    BY <1>0, <2>1, Fields DEF Restored, Disposition
  <2>4. t = s /\ record.status[s] # "generated" =>
          record'.content[t] = Blank /\ record'.notes[t] = "revised"
    BY <1>0, <2>1, Fields DEF Restored, Disposition
  <2> QED
    BY <1>13, <1>14, <1>15, <2>1, <2>2, <2>3, <2>4 DEF Blank
<1>20. ASSUME Seal PROVE Goal
  <2>1. /\ running /\ stage = "revise" /\ stage' = "sealed" /\ running' = FALSE
        /\ durable' = record' /\ stops' = stops
        /\ record'.content = record.content /\ record'.notes = record.notes
    BY <1>0, <1>20, Fields DEF Seal, EndStage
  <2> QED
    BY <1>0, <2>1 DEF SealInv, NoteTrue, Past, OfBefore, Early
<1>21. ASSUME Die PROVE Goal
  <2>1. /\ running /\ running' = FALSE /\ record' = durable /\ stops' = stops + 1
        /\ UNCHANGED <<stage, durable>>
    BY <1>21 DEF Die
  <2>2. Past(durable, t)' /\ OfBefore(durable, t)'
    BY <1>0, <1>1, <2>1 DEF SealInv, Past, OfBefore
  <2>3. Past(record, t)' /\ OfBefore(record, t)'
    BY <2>1, <2>2 DEF Past, OfBefore
  <2> QED
    BY <1>0, <2>1, <2>2, <2>3 DEF SealInv, Early, FreshDraft, NoteTrue
<1>22. DraftingNext => Goal
  <2> HIDE DEF Goal
  <2> QED
    BY <1>2, <1>3, <1>5, <1>6, <1>7, <1>8, <1>10, <1>11, <1>12, <1>16, <1>17, <1>18, <1>19,
       <1>20, <1>21, DraftingCases
<1>23. UNCHANGED draftVars => Goal
  BY <1>0 DEF draftVars, SealInv, FreshDraft, NoteTrue, Past, OfBefore, Early
<1> QED
  BY <1>22, <1>23

SealedInv == DraftsInv /\ RowsInv /\ \A s \in Sections : SealInv(s)

LEMMA SealedInvHolds == DraftingSpec => []SealedInv
<1>1. DraftingInit => SealedInv
  <2> SUFFICES ASSUME DraftingInit PROVE SealedInv
    OBVIOUS
  <2>1. DraftsInv
    BY DraftsBegin, NewReportType, OneStopMore DEF DraftsInv, DraftingInit, DraftingTypeOK
  <2>2. RowsInv
    BY DEF DraftingInit, NewReport, RowsInv, AllListed
  <2>3. \A s \in Sections : SealInv(s)
    BY DEF DraftingInit, NewReport, SealInv, Early, FreshDraft, NoteTrue, Past, Blank
  <2> QED
    BY <2>1, <2>2, <2>3 DEF SealedInv
<1>2. SealedInv /\ [DraftingNext]_draftVars => SealedInv'
  BY DraftingTypeStep, DraftStep, RowsStep, SealStep DEF SealedInv, DraftsInv, Kept
<1> QED
  BY <1>1, <1>2, PTL DEF DraftingSpec

(* A sealed report says what happened, for any sections, challenges and    *)
(* limits and wherever the steps stop, die and are continued: every row is *)
(* listed, and each note is true of the draft that is shown.               *)
THEOREM SealsAreTrue == DraftingSpec => []TheSealIsTrue
<1>1. SealedInv => TheSealIsTrue
  <2> SUFFICES ASSUME SealedInv, stage = "sealed",
                      NEW s \in Sections, NEW d \in durable.content[s]
               PROVE  /\ durable.listed = durable.rows
                      /\ durable.notes[s] = "revised" => d.by = "revise"
                      /\ durable.notes[s] # "revised" => d.by = "draft" \/ d.visit < stops
    BY DEF TheSealIsTrue, SealedInv, RowsInv, AllListed
  <2>1. d.by \in {"draft", "revise"}
    BY DEF SealedInv, DraftsInv, DraftingTypeOK, Reports, MaybeDraft, Drafts, Blank
  <2> QED
    BY <2>1 DEF SealedInv, RowsInv, AllListed, SealInv, NoteTrue, OfBefore
<1> QED
  BY <1>1, SealedInvHolds, PTL

-----------------------------------------------------------------------------
(* The order of the revision.  Of two challenged sections the one with the *)
(* greater severity against it goes first, and of equals the one with the  *)
(* lesser key: a total order, in which any sections have a last one.       *)
Marks(s) == {row.severity : row \in Against(s)}
Gravity(s) == CHOOSE v \in Marks(s) : \A w \in Marks(s) : w <= v

LEMMA GravityIsGreatest ==
  ASSUME DraftingTypeOK, NEW s \in Targets
  PROVE  /\ Gravity(s) \in Int
         /\ \E a \in Against(s) : a.severity = Gravity(s)
         /\ \A a \in Against(s) : a.severity \in Int /\ a.severity <= Gravity(s)
<1>1. Marks(s) \subseteq Severities \cup {0} /\ Marks(s) # {}
  BY DEF DraftingTypeOK, Reports, Rows, Conflict, Against, Marks, Targets
<1>2. IsFiniteSet(Severities \cup {0})
  BY DraftingAssumption, FS_Singleton, FS_Union
<1>3. IsFiniteSet(Marks(s)) /\ \A v \in Marks(s) : v \in Int
  <2>1. IsFiniteSet(Marks(s))
    BY <1>1, <1>2, FS_Subset
  <2>2. Severities \subseteq Int
    BY DraftingAssumption
  <2>3. ASSUME NEW v \in Marks(s) PROVE v \in Int
    <3>1. v \in Severities \/ v = 0
      BY <1>1
    <3>2. v \in Severities => v \in Int
      BY <2>2
    <3> QED
      BY <3>1, <3>2
  <2> QED
    BY <2>1, <2>3
<1> DEFINE itself == [v \in Marks(s) |-> v]
<1>4. \A v \in Marks(s) : itself[v] = v /\ itself[v] \in Int
  BY <1>3
<1>5. \E v \in Marks(s) : \A w \in Marks(s) : w <= v
  <2> HIDE DEF itself
  <2>1. PICK x \in Marks(s) : \A y \in Marks(s) : itself[y] <= itself[x]
    BY <1>1, <1>3, <1>4, Greatest
  <2> QED
    BY <1>4, <2>1
<1>6. Gravity(s) \in Marks(s) /\ \A w \in Marks(s) : w <= Gravity(s)
  BY <1>5 DEF Gravity
<1> QED
  BY <1>3, <1>6 DEF Marks

LEMMA WorseIsGraver ==
  ASSUME DraftingTypeOK, NEW s \in Targets, NEW t \in Targets
  PROVE  Worse(s, t) <=> Gravity(s) > Gravity(t)
<1>1. PICK a \in Against(s) : a.severity = Gravity(s)
  BY GravityIsGreatest
<1>2. PICK b \in Against(t) : b.severity = Gravity(t)
  BY GravityIsGreatest
<1>3. /\ Gravity(s) \in Int /\ Gravity(t) \in Int
      /\ \A c \in Against(s) : c.severity \in Int /\ c.severity <= Gravity(s)
      /\ \A c \in Against(t) : c.severity \in Int /\ c.severity <= Gravity(t)
  BY GravityIsGreatest
<1> QED
  BY <1>1, <1>2, <1>3 DEF Worse

LEMMA LastOfAny ==
  ASSUME DraftingTypeOK, NEW T \in SUBSET Targets, T # {}
  PROVE  \E x \in T : \A y \in T : Before(y, x)
<1>1. IsFiniteSet(T) /\ T \subseteq Int
  BY DraftingAssumption, FS_Subset DEF Targets
<1>2. \A s \in T : Gravity(s) \in Int
  BY GravityIsGreatest
<1> DEFINE mild == [s \in T |-> -Gravity(s)]
<1>3. \A s \in T : mild[s] \in Int /\ mild[s] = -Gravity(s)
  BY <1>2
<1>4. PICK m \in T : \A y \in T : Gravity(m) <= Gravity(y)
  <2> HIDE DEF mild
  <2>1. PICK m \in T : \A y \in T : mild[y] <= mild[m]
    BY <1>1, <1>3, Greatest
  <2> QED
    BY <1>2, <1>3, <2>1
<1> DEFINE U == {s \in T : Gravity(s) = Gravity(m)}
           key == [s \in U |-> s]
<1>5. IsFiniteSet(U) /\ U # {} /\ \A s \in U : key[s] \in Int /\ key[s] = s
  <2>1. IsFiniteSet(U) /\ U # {}
    BY <1>1, <1>4, FS_Subset
  <2> QED
    BY <1>1, <2>1
<1>6. PICK x \in U : \A y \in U : y <= x
  <2> HIDE DEF key, U
  <2>1. PICK x \in U : \A y \in U : key[y] <= key[x]
    BY <1>5, Greatest
  <2> QED
    BY <1>5, <2>1
<1>7. ASSUME NEW y \in T PROVE Before(y, x)
  <2>1. x \in Targets /\ y \in Targets /\ Gravity(x) = Gravity(m) /\ Gravity(x) <= Gravity(y)
    BY <1>4, <1>6
  <2>2. Gravity(x) \in Int /\ Gravity(y) \in Int
    BY <1>2, <1>6
  <2>3. CASE Gravity(y) = Gravity(x)
    <3>1. y \in U
      BY <2>1, <2>3
    <3>2. y <= x
      BY <1>6, <3>1
    <3>3. ~Worse(x, y)
      BY <2>1, <2>2, <2>3, WorseIsGraver
    <3> QED
      BY <3>2, <3>3 DEF Before
  <2>4. CASE Gravity(y) # Gravity(x)
    <3>1. Worse(y, x)
      BY <2>1, <2>2, <2>4, WorseIsGraver
    <3> QED
      BY <3>1 DEF Before
  <2> QED
    BY <2>3, <2>4
<1> QED
  BY <1>6, <1>7

LEMMA OnlyOneBefore ==
  ASSUME DraftingTypeOK, NEW s \in Targets, NEW t \in Targets, Before(s, t), Before(t, s)
  PROVE  s = t
<1>1. Gravity(s) \in Int /\ Gravity(t) \in Int /\ s \in Int /\ t \in Int
  BY GravityIsGreatest, DraftingAssumption DEF Targets
<1>2. /\ Worse(s, t) <=> Gravity(s) > Gravity(t)
      /\ Worse(t, s) <=> Gravity(t) > Gravity(s)
  BY WorseIsGraver
<1> QED
  BY <1>1, <1>2 DEF Before

(* The worst are those with fewer than MaxRevised before them, and they    *)
(* are no more than MaxRevised.                                            *)
Challengeable == Targets \ Custom
Ahead(s) == {t \in Challengeable : t # s /\ Before(t, s)}
AmongWorst(s) == s \in Challengeable /\ Cardinality(Ahead(s)) < MaxRevised

LEMMA FewAreWorst ==
  ASSUME DraftingTypeOK
  PROVE  LET worst == {s \in Sections : AmongWorst(s)} IN
         IsFiniteSet(worst) /\ Cardinality(worst) <= MaxRevised
<1> DEFINE worst == {s \in Sections : AmongWorst(s)}
<1>1. IsFiniteSet(worst) /\ IsFiniteSet(Challengeable) /\ MaxRevised \in Nat
      /\ worst \subseteq Challengeable /\ Challengeable \subseteq Targets
  BY DraftingAssumption, FS_Subset DEF Challengeable, Targets, AmongWorst
<1>2. CASE worst = {}
  BY <1>1, <1>2, FS_EmptySet
<1>3. CASE worst # {}
  <2>1. PICK x \in worst : \A y \in worst : Before(y, x)
    <3>1. worst \in SUBSET Targets
      BY <1>1
    <3> HIDE DEF worst
    <3> QED
      BY <1>3, <3>1, LastOfAny
  <2>2. worst \ {x} \subseteq Ahead(x) /\ Cardinality(Ahead(x)) < MaxRevised
    BY <1>1, <2>1 DEF Ahead, AmongWorst
  <2> HIDE DEF worst
  <2>3. IsFiniteSet(Ahead(x))
    BY <1>1, FS_Subset DEF Ahead
  <2>4. /\ Cardinality(worst \ {x}) <= Cardinality(Ahead(x))
        /\ Cardinality(worst \ {x}) \in Nat /\ Cardinality(Ahead(x)) \in Nat
    BY <2>2, <2>3, FS_Subset, FS_CardinalityType
  <2>5. Cardinality(worst \ {x}) = Cardinality(worst) - 1 /\ Cardinality(worst) \in Nat
    BY <1>1, <2>1, FS_RemoveElement, FS_CardinalityType
  <2>6. Cardinality(worst) <= MaxRevised
    BY <1>1, <2>2, <2>4, <2>5
  <2> QED
    BY <1>1, <2>6 DEF worst
<1> QED
  BY <1>2, <1>3

(* The revision.  Only the worst are ever shown revised; what this visit   *)
(* has tried is noted and came before all it has not come to; and what it  *)
(* passed over it passed over for want of room.                            *)
ShowsRevision(report, s) == \E d \in report.content[s] : d.by = "revise"

Later == (stage = "revise" /\ running) \/ stage = "sealed"

RevisedInv ==
  /\ ~Early => \A s \in Sections :
       ShowsRevision(record, s) \/ ShowsRevision(durable, s) => AmongWorst(s)
  /\ Later =>
       /\ tried \subseteq Challengeable /\ due \subseteq Targets /\ tried \cap due = {}
       /\ \A t \in tried : record.notes[t] # "none" /\ \A s \in due : Before(t, s)
       /\ \A s \in Challengeable \ (due \cup tried) :
            Cardinality(tried) >= MaxRevised /\ \A t \in tried : Before(t, s)
  /\ stage = "sealed" => due = {} /\ durable = record

(* A section the revision redrafts is one of the worst.                    *)
LEMMA RedraftsTheWorst ==
  ASSUME DraftingTypeOK, RevisedInv, NEW s \in Sections, Redraft(s)
  PROVE  /\ AmongWorst(s)
         /\ \A t \in due : t # s => Before(s, t)
         /\ \A t \in Challengeable \ (due \cup tried) : FALSE
<1>1. /\ Cardinality(tried) < MaxRevised /\ s \in due /\ s \notin Custom
      /\ \A t \in due : Before(s, t)
      /\ Later
  BY DEF Redraft, ReviseNext, Room, Later
<1>2. /\ tried \subseteq Challengeable /\ due \subseteq Targets
      /\ \A t \in Challengeable \ (due \cup tried) : Cardinality(tried) >= MaxRevised
  BY <1>1 DEF RevisedInv
<1>3. IsFiniteSet(tried) /\ MaxRevised \in Nat
  BY DraftingAssumption, FS_Subset DEF DraftingTypeOK
<1>4. Cardinality(tried) \in Nat
  BY <1>3, FS_CardinalityType
<1>5. \A t \in Challengeable \ (due \cup tried) : FALSE
  BY <1>1, <1>2, <1>3, <1>4
<1>6. Ahead(s) \subseteq tried
  <2> SUFFICES ASSUME NEW t \in Challengeable, t # s, Before(t, s) PROVE t \in tried
    BY DEF Ahead
  <2>1. t \notin due
    BY <1>1, <1>2, OnlyOneBefore
  <2> QED
    BY <1>5, <2>1
<1>7. Cardinality(Ahead(s)) <= Cardinality(tried) /\ Cardinality(Ahead(s)) \in Nat
  BY <1>3, <1>6, FS_Subset, FS_CardinalityType
<1>8. Cardinality(Ahead(s)) < MaxRevised
  BY <1>1, <1>3, <1>4, <1>7
<1>9. s \in Challengeable
  BY <1>1, <1>2 DEF Challengeable
<1> QED
  BY <1>1, <1>5, <1>8, <1>9 DEF AmongWorst

(* The targets and their order are those of the rows.                      *)
LEMMA SameRowsSameWorst ==
  ASSUME record'.rows = record.rows
  PROVE  /\ Targets' = Targets /\ Challengeable' = Challengeable
         /\ \A s, t : Before(s, t)' <=> Before(s, t)
         /\ \A s \in Sections : AmongWorst(s)' <=> AmongWorst(s)
<1>1. \A s : Against(s)' = Against(s)
  BY DEF Against
<1>2. Targets' = Targets /\ Challengeable' = Challengeable
  BY <1>1 DEF Targets, Challengeable
<1>3. \A s, t : Before(s, t)' <=> Before(s, t)
  BY <1>1 DEF Before, Worse
<1>4. \A s : Ahead(s)' = Ahead(s)
  BY <1>2, <1>3 DEF Ahead
<1> QED
  BY <1>2, <1>3, <1>4 DEF AmongWorst

LEMMA RevisedStep ==
  ASSUME DraftingTypeOK, \A s \in Sections : DraftInv(s), \A s \in Sections : SealInv(s),
         RowsInv, RowsInv', RevisedInv, [DraftingNext]_draftVars
  PROVE  RevisedInv'
<1> DEFINE Goal == RevisedInv'
<1>0. record \in Reports /\ durable \in Reports /\ record.rows = durable.rows
  BY DEF DraftingTypeOK, RowsInv
<1>1. Early' => Goal
  BY DEF RevisedInv, Early, Later
<1>2. ASSUME ~Early, ~Later', ~Early', stage' # "sealed", record'.rows = record.rows,
             record'.content = record.content \/ record'.content = durable.content,
             durable'.content = record.content \/ durable'.content = durable.content
      PROVE  Goal
  BY <1>2, SameRowsSameWorst DEF RevisedInv, ShowsRevision
<1>3. BeginDraft \/ StopDraft \/ EndDraft \/ Validate => Early'
  BY DEF BeginDraft, StopDraft, EndDraft, Validate, Stop, EndStage, Early
<1>4. ASSUME NEW s \in Sections, StartSection(s) \/ WriteSection(s) \/ FailSection(s)
                                  \/ RaiseSection(s)
      PROVE  Early'
  <2>1. writer[s] \in {"queued", "writing"} /\ stage' = stage
    BY <1>4 DEF StartSection, WriteSection, FailSection, RaiseSection, EndSection
  <2>2. stage = "draft"
    BY <2>1 DEF DraftInv, WriterInv, Waits
  <2> QED
    BY <2>1, <2>2 DEF Early
<1>5. ASSUME RedTeam PROVE Goal
  <2>1. /\ Early /\ stage' = "revise" /\ running' = FALSE /\ durable' = record'
        /\ record'.content = record.content
    BY <1>0, <1>5 DEF RedTeam, EndStage, Early, Challenged, Relisted, Reports
  <2>2. \A s \in Sections : ~ShowsRevision(record, s)
    BY <2>1 DEF SealInv, FreshDraft, ShowsRevision
  <2> QED
    BY <2>1, <2>2 DEF RevisedInv, Later, ShowsRevision
<1>6. ASSUME BeginRevise PROVE Goal
  <2>1. /\ ~Early /\ ~Early' /\ stage' # "sealed" /\ durable' = durable
        /\ record'.content = record.content /\ record'.rows = record.rows
        /\ due' = Targets /\ tried' = {}
    BY <1>0, <1>6 DEF BeginRevise, Early, Reports
  <2> QED
    BY <2>1, SameRowsSameWorst DEF RevisedInv, ShowsRevision, Challengeable
<1>7. ASSUME StopRevise PROVE Goal
  BY <1>0, <1>2, <1>7 DEF StopRevise, Stop, Early, Later
<1>8. ASSUME Die PROVE Goal
  <2>1. /\ running' = FALSE /\ record' = durable /\ UNCHANGED <<stage, durable>> /\ running
    BY <1>8 DEF Die
  <2>3. CASE Early
    BY <1>1, <2>1, <2>3 DEF Early
  <2>4. CASE ~Early /\ stage # "sealed"
    BY <1>0, <1>2, <2>1, <2>4 DEF Early, Later
  <2>5. CASE stage = "sealed"
    <3>1. record' = record
      BY <2>1, <2>5 DEF RevisedInv
    <3>2. due' = due /\ tried' = tried
      BY <1>8 DEF Die
    <3> QED
      BY <2>1, <2>5, <3>1, <3>2, SameRowsSameWorst DEF RevisedInv, Early, Later, ShowsRevision
  <2> QED
    BY <2>3, <2>4, <2>5
<1>9. ASSUME NEW s \in Sections, ReviseNext(s)
      PROVE  /\ Later /\ Later' /\ ~Early /\ stage' # "sealed" /\ durable' = durable
             /\ s \in due /\ due' = due \ {s}
  BY <1>9 DEF ReviseNext, Later, Early
<1>10. ASSUME NEW s \in Sections, SkipCustom(s) PROVE Goal
  <2>1. /\ record'.rows = record.rows /\ record'.content = record.content
        /\ \A t \in Sections : t # s => record'.notes[t] = record.notes[t]
        /\ ReviseNext(s) /\ tried' = tried /\ s \in Custom
    BY <1>0, <1>10, Fields DEF SkipCustom
  <2>2. s \notin Challengeable /\ Challengeable \subseteq Sections
    BY <2>1 DEF Challengeable, Targets
  <2> QED
    BY <1>9, <2>1, <2>2, SameRowsSameWorst DEF RevisedInv, ShowsRevision
<1>11. ASSUME NEW s \in Sections, LeaveOver(s) PROVE Goal
  <2>1. record' = record /\ ReviseNext(s) /\ tried' = tried /\ ~Room
    BY <1>11 DEF LeaveOver
  <2>2. IsFiniteSet(tried) /\ MaxRevised \in Nat
    BY DraftingAssumption, FS_Subset DEF DraftingTypeOK
  <2>3. Cardinality(tried) >= MaxRevised
    BY <2>1, <2>2, FS_CardinalityType DEF Room
  <2>4. \A t \in tried : Before(t, s)
    BY <1>9, <2>1 DEF RevisedInv
  <2> QED
    BY <1>9, <2>1, <2>3, <2>4, SameRowsSameWorst DEF RevisedInv, ShowsRevision
<1>12. ASSUME NEW s \in Sections, Redraft(s), record'.rows = record.rows,
              record'.notes[s] # "none",
              \A t \in Sections : t # s => record'.notes[t] = record.notes[t],
              \A t \in Sections : t # s => record'.content[t] = record.content[t]
       PROVE  Goal
  <2>1. /\ AmongWorst(s)
        /\ \A t \in due : t # s => Before(s, t)
        /\ \A t \in Challengeable \ (due \cup tried) : FALSE
    BY <1>12, RedraftsTheWorst
  <2>2. ReviseNext(s) /\ tried' = tried \cup {s} /\ s \in Challengeable
    BY <1>12, <2>1 DEF Redraft, AmongWorst
  <2>3. /\ Targets' = Targets /\ Challengeable' = Challengeable
        /\ \A q, t : Before(q, t)' <=> Before(q, t)
        /\ \A t \in Sections : AmongWorst(t)' <=> AmongWorst(t)
    BY <1>12, SameRowsSameWorst
  <2>4. \A t \in Sections :
          ShowsRevision(record, t)' \/ ShowsRevision(durable, t)' => AmongWorst(t)'
    BY <1>9, <1>12, <2>1, <2>2, <2>3 DEF RevisedInv, ShowsRevision
  <2>5. /\ tried \subseteq Challengeable /\ due \subseteq Targets /\ tried \cap due = {}
        /\ \A t \in tried : record.notes[t] # "none" /\ \A q \in due : Before(t, q)
    BY <1>9, <2>2 DEF RevisedInv
  <2>6. tried \subseteq Sections
    BY DEF DraftingTypeOK
  <2>7. /\ tried' \subseteq Challengeable' /\ due' \subseteq Targets' /\ tried' \cap due' = {}
        /\ \A t \in tried' : record'.notes[t] # "none"
    BY <1>9, <1>12, <2>2, <2>3, <2>5, <2>6
  <2>8. \A t \in tried', q \in due' : Before(t, q)'
    BY <1>9, <2>1, <2>2, <2>3, <2>5
  <2>9. \A t \in Challengeable' \ (due' \cup tried') : FALSE
    BY <1>9, <2>1, <2>2, <2>3
  <2> QED
    BY <1>9, <2>2, <2>4, <2>7, <2>8, <2>9 DEF RevisedInv
<1>13. ASSUME NEW s \in Sections, Revise(s) PROVE Goal
  <2>1. PICK v \in Values : /\ Redraft(s)
                            /\ record' = Note(Passed(record, s, Draft("revise", v)), s, "revised")
    BY <1>13 DEF Revise
  <2>2. Passed(record, s, Draft("revise", v)) \in Reports
    BY <1>0, DraftType, SectionType
  <2> QED
    BY <1>0, <1>12, <2>1, <2>2, Fields
<1>14. ASSUME NEW s \in Sections, RefuseRevision(s) PROVE Goal
  <2>1. Restored(s) \in Reports /\ Disposition(s) # "none"
    BY <1>0, SectionType DEF Restored, MaybeDraft, Disposition
  <2>2. /\ Restored(s).rows = record.rows /\ Restored(s).notes = record.notes
        /\ \A t \in Sections : t # s => Restored(s).content[t] = record.content[t]
    BY <1>0, Fields DEF Restored
  <2> QED
    BY <1>0, <1>12, <1>14, <2>1, <2>2, Fields DEF RefuseRevision
<1>15. ASSUME Seal PROVE Goal
  <2>1. /\ running /\ stage = "revise" /\ due = {} /\ stage' = "sealed"
        /\ durable' = record' /\ due' = due /\ tried' = tried
        /\ record'.content = record.content /\ record'.notes = record.notes
        /\ record'.rows = record.rows
    BY <1>0, <1>15 DEF Seal, EndStage, Relisted, Reports
  <2> QED
    BY <2>1, SameRowsSameWorst DEF RevisedInv, Later, Early, ShowsRevision
<1>16. UNCHANGED draftVars => Goal
  BY SameRowsSameWorst DEF draftVars, RevisedInv, Later, Early, ShowsRevision
<1>17. DraftingNext => Goal
  <2> HIDE DEF Goal
  <2> QED
    BY <1>1, <1>3, <1>4, <1>5, <1>6, <1>7, <1>8, <1>10, <1>11, <1>13, <1>14, <1>15,
       DraftingCases
<1> QED
  BY <1>16, <1>17

(* The revision takes the worst-challenged sections it has room for, and   *)
(* no more of them however often it is stopped and continued: for any      *)
(* sections, challenges and limit.                                         *)
THEOREM TheWorstComeFirst == DraftingSpec => []TheWorstAreRevised
<1>1. DraftingInit => RevisedInv
  BY DEF DraftingInit, RevisedInv, Early, Later
<1>2. SealedInv /\ SealedInv' /\ RevisedInv /\ [DraftingNext]_draftVars => RevisedInv'
  BY RevisedStep DEF SealedInv, DraftsInv
<1>3. SealedInv /\ RevisedInv => TheWorstAreRevised
  <2> SUFFICES ASSUME SealedInv, RevisedInv PROVE TheWorstAreRevised
    OBVIOUS
  <2>1. DraftingTypeOK /\ MaxRevised \in Nat
    BY DraftingAssumption DEF SealedInv, DraftsInv
  <2> DEFINE shown == {s \in Sections : \E d \in durable.content[s] : d.by = "revise"}
             worst == {s \in Sections : AmongWorst(s)}
  <2>2. IsFiniteSet(worst) /\ Cardinality(worst) <= MaxRevised
    BY <2>1, FewAreWorst
  <2>3. shown \subseteq worst
    <3>1. CASE Early
      BY <3>1 DEF SealedInv, SealInv, FreshDraft
    <3>2. CASE ~Early
      BY <3>2 DEF RevisedInv, ShowsRevision
    <3> QED
      BY <3>1, <3>2
  <2>4. Cardinality(shown) <= MaxRevised
    <3> HIDE DEF shown, worst
    <3>1. IsFiniteSet(shown) /\ Cardinality(shown) <= Cardinality(worst)
      BY <2>2, <2>3, FS_Subset
    <3>2. Cardinality(shown) \in Nat /\ Cardinality(worst) \in Nat
      BY <2>2, <3>1, FS_CardinalityType
    <3> QED
      BY <2>1, <2>2, <3>1, <3>2
  <2>5. ASSUME stage = "sealed", NEW s \in Targets \ Custom, durable.notes[s] = "none"
        PROVE  Cardinality({t \in Targets \ Custom : t # s /\ ~Worse(s, t)
                              /\ durable.notes[t] # "none"}) >= MaxRevised
    <3> DEFINE taken == {t \in Targets \ Custom : t # s /\ ~Worse(s, t)
                           /\ durable.notes[t] # "none"}
    <3>1. /\ tried \subseteq Challengeable /\ due = {} /\ durable = record
          /\ \A t \in tried : record.notes[t] # "none"
          /\ \A q \in Challengeable \ (due \cup tried) :
               Cardinality(tried) >= MaxRevised /\ \A t \in tried : Before(t, q)
      BY <2>5 DEF RevisedInv, Later
    <3>2. s \notin tried /\ s \in Challengeable
      BY <2>5, <3>1 DEF Challengeable
    <3>3. Cardinality(tried) >= MaxRevised /\ \A t \in tried : Before(t, s)
      BY <3>1, <3>2
    <3>4. ASSUME NEW t \in tried PROVE t \in taken
      <4>1. t \in Targets \ Custom /\ t # s /\ durable.notes[t] # "none" /\ Before(t, s)
        BY <3>1, <3>2, <3>3 DEF Challengeable
      <4>2. Gravity(t) \in Int /\ Gravity(s) \in Int
        BY <2>1, <4>1, GravityIsGreatest
      <4>3. ~Worse(s, t)
        BY <2>1, <4>1, <4>2, WorseIsGraver DEF Before
      <4> QED
        BY <4>1, <4>3
    <3>5. IsFiniteSet(taken)
      BY DraftingAssumption, FS_Subset DEF Targets
    <3> HIDE DEF taken
    <3>6. tried \subseteq taken
      BY <3>4
    <3>7. /\ IsFiniteSet(tried) /\ Cardinality(tried) <= Cardinality(taken)
          /\ Cardinality(tried) \in Nat /\ Cardinality(taken) \in Nat
      BY <3>5, <3>6, FS_Subset, FS_CardinalityType
    <3>8. Cardinality(taken) >= MaxRevised
      BY <2>1, <3>3, <3>7
    <3> QED
      BY <3>8 DEF taken
  <2> QED
    BY <2>4, <2>5 DEF TheWorstAreRevised
<1> QED
  BY <1>1, <1>2, <1>3, SealedInvHolds, PTL DEF DraftingSpec

-----------------------------------------------------------------------------
(* The ladder.                                                             *)

IsFigure(f) == f.id \in Int /\ f.value \in Int /\ f.tier \in Int /\ f.filed \in Int

LEMMA OneComesFirst ==
  ASSUME NEW f, NEW g, IsFigure(f), IsFigure(g), f.id # g.id
  PROVE  Precedes(f, g) <=> ~Precedes(g, f)
BY DEF IsFigure, Precedes

(* What the ladder says of two figures does not depend on which of them is *)
(* named first, for any two figures.                                       *)
THEOREM NamingOrderIsNothing ==
  ASSUME NEW f, NEW g, IsFigure(f), IsFigure(g), f.id = g.id => f = g
  PROVE  Resolve(f, g) = Resolve(g, f)
<1>1. CASE f.id = g.id
  BY <1>1
<1>2. CASE f.id # g.id
  BY <1>2, OneComesFirst DEF Resolve
<1> QED
  BY <1>1, <1>2

(* The rung that is taken is one that fires, and none before it does.      *)
LEMMA TakenRung ==
  ASSUME NEW a, NEW b, IsFigure(a), IsFigure(b)
  PROVE  \E i \in 1..7 : /\ Rule(a, b) = Rungs(a, b)[i][1]
                         /\ Rungs(a, b)[i][2]
                         /\ \A j \in 1..(i - 1) : ~Rungs(a, b)[j][2]
<1> DEFINE rung == Rungs(a, b)
           First(i) == rung[i][2] /\ \A j \in 1..(i - 1) : ~rung[j][2]
<1>1. DOMAIN rung = 1..7
  BY DEF Rungs
<1>2. rung[2][2] \/ rung[7][2]
  <2>1. a.value = b.value => Agree(a, b)
    BY DEF IsFigure, Agree, Within, Abs, Larger
  <2> QED
    BY <2>1 DEF Rungs
<1>3. \E i \in 1..7 : First(i)
  <2> HIDE DEF rung
  <2>1. \/ rung[1][2] \/ (~rung[1][2] /\ rung[2][2])
        \/ (~rung[1][2] /\ ~rung[2][2] /\ rung[7][2])
    BY <1>2
  <2>2. CASE rung[1][2] \/ (~rung[1][2] /\ rung[2][2])
    <3>1. rung[1][2] => First(1)
      OBVIOUS
    <3>2. ~rung[1][2] /\ rung[2][2] => First(2)
      OBVIOUS
    <3> QED
      BY <2>2, <3>1, <3>2
  <2>3. CASE ~rung[1][2] /\ ~rung[2][2] /\ rung[7][2]
    <3>1. CASE rung[3][2]
      BY <2>3, <3>1
    <3>2. CASE ~rung[3][2] /\ rung[4][2]
      BY <2>3, <3>2
    <3>3. CASE ~rung[3][2] /\ ~rung[4][2] /\ rung[5][2]
      BY <2>3, <3>3
    <3>4. CASE ~rung[3][2] /\ ~rung[4][2] /\ ~rung[5][2] /\ rung[6][2]
      BY <2>3, <3>4
    <3>5. CASE ~rung[3][2] /\ ~rung[4][2] /\ ~rung[5][2] /\ ~rung[6][2]
      BY <2>3, <3>5
    <3> QED
      BY <3>1, <3>2, <3>3, <3>4, <3>5
  <2> QED
    BY <2>1, <2>2, <2>3
<1>4. Rule(a, b) = rung[CHOOSE i \in DOMAIN rung : First(i)][1]
  BY DEF Rule
<1> HIDE DEF rung, First
<1>5. PICK i \in 1..7 : i = (CHOOSE k \in DOMAIN rung : First(k)) /\ First(i)
  BY <1>1, <1>3
<1> QED
  BY <1>4, <1>5 DEF rung, First

(* A figure that the ladder rejects is of a lower standing than the one    *)
(* it is rejected for, a higher tier number or an earlier filing in the    *)
(* same tier, whatever the tolerances say between the two: so no figures   *)
(* reject one another in a circle.                                         *)
THEOREM RejectionsGoDown ==
  ASSUME NEW f, NEW g, IsFigure(f), IsFigure(g), f.id # g.id,
         NEW w \in Resolve(f, g).winner, NEW l, Rejects(Resolve(f, g), l)
  PROVE  w.tier < l.tier \/ (w.tier = l.tier /\ w.filed > l.filed)
<1>1. PICK a, b : /\ IsFigure(a) /\ IsFigure(b) /\ Precedes(a, b)
                  /\ Resolve(f, g) = Resolution(a, b)
  BY OneComesFirst DEF Resolve
<1>2. /\ w \in Winner(a, b, Rule(a, b))
      /\ l \in {a, b} \ Winner(a, b, Rule(a, b))
  BY <1>1 DEF Resolution, Rejects
<1>3. PICK i \in 1..7 : /\ Rule(a, b) = Rungs(a, b)[i][1]
                       /\ Rungs(a, b)[i][2]
                       /\ \A j \in 1..(i - 1) : ~Rungs(a, b)[j][2]
  BY <1>1, TakenRung
<1>4. CASE Rule(a, b) = "lower_tier_wins"
  <2>1. i = 4
    BY <1>3, <1>4 DEF Rungs
  <2>2. a.tier # b.tier
    BY <1>3, <2>1 DEF Rungs
  <2>3. w = a /\ l = b
    BY <1>2, <1>4 DEF Winner
  <2> QED
    BY <1>1, <2>2, <2>3 DEF Precedes, IsFigure
<1>5. CASE Rule(a, b) = "later_filing_wins"
  <2>1. i = 6
    BY <1>3, <1>5 DEF Rungs
  <2>2. a.filed # b.filed
    BY <1>3, <2>1 DEF Rungs
  <2>3. a.tier = b.tier
    <3>1. ~Rungs(a, b)[4][2]
      <4>1. 4 \in 1..(i - 1)
        BY <2>1
      <4> QED
        BY <1>3, <4>1
    <3> QED
      BY <3>1 DEF Rungs
  <2>4. w = b /\ l = a
    BY <1>2, <1>5 DEF Winner
  <2> QED
    BY <1>1, <2>2, <2>3, <2>4 DEF Precedes, IsFigure
<1>6. CASE Rule(a, b) \notin {"lower_tier_wins", "later_filing_wins"}
  BY <1>2, <1>6 DEF Winner
<1> QED
  BY <1>4, <1>5, <1>6
-----------------------------------------------------------------------------
(* The check of a group.  Each fact it publishes is a figure with a number *)
(* of its own, and once the check has run its rows are what the ladder     *)
(* says of the pairs it compared.                                          *)
LadderInv ==
  /\ IsFiniteSet(facts)
  /\ \A f \in facts : IsFigure(f) /\ f.id <= Cardinality(facts)
  /\ \A f, g \in facts : f.id = g.id => f = g
  /\ checked => conflicts = {r \in {Resolve(p[1], p[2]) : p \in Compared} : Recordable(r)}

LEMMA LadderStep ==
  ASSUME LadderInv, [LadderNext]_ladderVars PROVE LadderInv'
<1>0. Cardinality(facts) \in Nat
  BY FS_CardinalityType DEF LadderInv
<1>1. ASSUME Publish PROVE LadderInv'
  <2>1. PICK figure \in Figures :
       facts' = facts \cup
         {[id |-> Cardinality(facts) + 1, value |-> figure.value, unit |-> figure.unit,
           tier |-> figure.tier, filed |-> figure.filed, basis |-> figure.basis]}
    BY <1>1 DEF Publish
  <2> DEFINE f == [id |-> Cardinality(facts) + 1, value |-> figure.value, unit |-> figure.unit,
                   tier |-> figure.tier, filed |-> figure.filed, basis |-> figure.basis]
  <2>2. IsFigure(f) /\ f.id = Cardinality(facts) + 1
    BY <1>0, LadderAssumption DEF IsFigure
  <2>3. facts' = facts \cup {f}
    BY <2>1
  <2> HIDE DEF f
  <2>4. f \notin facts
    BY <1>0, <2>2 DEF LadderInv
  <2>5. IsFiniteSet(facts') /\ Cardinality(facts') = Cardinality(facts) + 1
    BY <2>3, <2>4, FS_AddElement DEF LadderInv
  <2>6. \A g \in facts : IsFigure(g) /\ g.id \in Int /\ g.id <= Cardinality(facts)
    BY DEF LadderInv, IsFigure
  <2>7. \A g \in facts' : IsFigure(g) /\ g.id <= Cardinality(facts')
    BY <1>0, <2>2, <2>3, <2>5, <2>6
  <2>8. \A g, h \in facts' : g.id = h.id => g = h
    BY <1>0, <2>2, <2>3, <2>6 DEF LadderInv
  <2> QED
    BY <1>1, <2>5, <2>7, <2>8 DEF LadderInv, Publish
<1>2. ASSUME Check PROVE LadderInv'
  BY <1>2 DEF Check, LadderInv, Compared, OnePerValue
<1>3. ASSUME UNCHANGED ladderVars PROVE LadderInv'
  <2>1. Compared' = Compared /\ UNCHANGED <<facts, conflicts, checked>>
    BY <1>3 DEF ladderVars, Compared, OnePerValue
  <2> QED
    BY <2>1 DEF LadderInv
<1> QED
  BY <1>1, <1>2, <1>3 DEF LadderNext

(* The row of a pair names it, and its winner, if any, is one of the two.  *)
LEMMA RowOfPair ==
  ASSUME NEW f, NEW g
  PROVE  LET r == Resolve(f, g) IN
         /\ {r.a, r.b} = {f, g}
         /\ r.winner = {} \/ r.winner = {r.a} \/ r.winner = {r.b}
         /\ r.rule = Rule(r.a, r.b)
BY DEF Resolve, Resolution, Winner

(* A figure that beats another stands higher.                              *)
LEMMA BeatsStandsHigher ==
  ASSUME LadderInv, checked, NEW f \in facts, NEW g \in facts, Beats(f, g)
  PROVE  f.tier < g.tier \/ (f.tier = g.tier /\ f.filed > g.filed)
<1>1. PICK r \in conflicts : f \in r.winner /\ Rejects(r, g)
  BY DEF Beats
<1>2. PICK p \in Compared : r = Resolve(p[1], p[2])
  BY <1>1 DEF LadderInv
<1>3. p[1] \in facts /\ p[2] \in facts /\ p[1].id < p[2].id
  BY <1>2 DEF Compared, OnePerValue
<1>4. IsFigure(p[1]) /\ IsFigure(p[2]) /\ p[1].id # p[2].id
  BY <1>3 DEF LadderInv, IsFigure
<1> QED
  BY <1>1, <1>2, <1>4, RejectionsGoDown

(* So among any figures of the group one is beaten by none of them: of     *)
(* those of the lowest tier, the one filed last.                           *)
LEMMA OneIsUnbeaten ==
  ASSUME LadderInv, checked, NEW group \in (SUBSET OnePerValue) \ {{}}
  PROVE  \E f \in group : ~\E g \in group : Beats(g, f)
<1>1. group \subseteq facts /\ IsFiniteSet(group) /\ group # {}
  BY FS_Subset DEF LadderInv, OnePerValue
<1>2. \A f \in group : f.tier \in Int /\ f.filed \in Int
  BY <1>1 DEF LadderInv, IsFigure
<1>3. PICK x \in group : \A y \in group : x.tier <= y.tier
  <2> DEFINE low == [f \in group |-> -f.tier]
  <2>1. \A f \in group : low[f] \in Int /\ low[f] = -f.tier
    BY <1>2
  <2> HIDE DEF low
  <2>2. PICK x \in group : \A y \in group : low[y] <= low[x]
    BY <1>1, <2>1, Greatest
  <2> QED
    BY <1>2, <2>1, <2>2
<1> DEFINE low == {f \in group : f.tier = x.tier}
<1>4. PICK z \in low : \A y \in low : y.filed <= z.filed
  <2> DEFINE late == [f \in low |-> f.filed]
  <2>1. \A f \in low : late[f] \in Int /\ late[f] = f.filed
    BY <1>2
  <2>2. IsFiniteSet(low) /\ low # {}
    BY <1>1, <1>3, FS_Subset
  <2> HIDE DEF late, low
  <2>3. PICK z \in low : \A y \in low : late[y] <= late[z]
    BY <2>1, <2>2, Greatest
  <2> QED
    BY <2>1, <2>3
<1>5. ASSUME NEW g \in group, Beats(g, z) PROVE FALSE
  <2>1. g.tier < z.tier \/ (g.tier = z.tier /\ g.filed > z.filed)
    BY <1>1, <1>4, <1>5, BeatsStandsHigher
  <2>2. z \in group /\ z.tier = x.tier /\ x.tier <= g.tier
    BY <1>3, <1>4
  <2>3. CASE g.tier < z.tier
    BY <1>2, <2>2, <2>3
  <2>4. CASE g.tier = z.tier /\ g.filed > z.filed
    BY <1>2, <1>4, <2>2, <2>4
  <2> QED
    BY <2>1, <2>3, <2>4
<1> QED
  BY <1>4, <1>5

(* Two figures compared agree, or one is rejected, or a person is asked.   *)
LEMMA NobodyIsSilent ==
  ASSUME LadderInv, checked, NEW p \in Compared
  PROVE  \/ p[1].unit = p[2].unit /\ Agree(p[1], p[2])
         \/ \E f \in {p[1], p[2]} : ~Unbeaten(f)
         \/ \E r \in conflicts : {r.a, r.b} = {p[1], p[2]} /\ r.winner = {}
<1> DEFINE r == Resolve(p[1], p[2])
<1>1. /\ p[1] \in facts /\ p[2] \in facts /\ p[1].id < p[2].id
      /\ IsFigure(p[1]) /\ IsFigure(p[2]) /\ p[1] # p[2]
  BY DEF Compared, OnePerValue, LadderInv, IsFigure
<1>2. /\ {r.a, r.b} = {p[1], p[2]}
      /\ r.winner = {} \/ r.winner = {r.a} \/ r.winner = {r.b}
      /\ r.rule = Rule(r.a, r.b)
  BY RowOfPair
<1> HIDE DEF r
<1>3. CASE r.rule = "values_agree"
  <2>1. IsFigure(r.a) /\ IsFigure(r.b)
    BY <1>1, <1>2
  <2>2. PICK i \in 1..7 : /\ Rule(r.a, r.b) = Rungs(r.a, r.b)[i][1]
                          /\ Rungs(r.a, r.b)[i][2]
                          /\ \A j \in 1..(i - 1) : ~Rungs(r.a, r.b)[j][2]
    BY <2>1, TakenRung
  <2>3. i = 2
    <3>1. Rungs(r.a, r.b)[i][1] = "values_agree"
      BY <1>2, <1>3, <2>2
    <3> QED
      BY <3>1 DEF Rungs
  <2>4. Rungs(r.a, r.b)[2][2] /\ ~Rungs(r.a, r.b)[1][2]
    BY <2>2, <2>3
  <2>5. Agree(r.a, r.b) /\ r.a.unit = r.b.unit
    BY <2>4 DEF Rungs
  <2>6. Agree(r.a, r.b) <=> Agree(r.b, r.a)
    BY <2>1 DEF IsFigure, Agree, Within, Abs, Larger
  <2> QED
    BY <1>2, <2>5, <2>6
<1>4. CASE r.rule # "values_agree"
  <2>1. r \in conflicts
    BY <1>4 DEF LadderInv, Recordable, r
  <2>2. CASE r.winner = {}
    BY <1>2, <2>1, <2>2
  <2>3. CASE r.winner # {}
    <3>1. PICK f \in {r.a, r.b} : f \notin r.winner
      BY <1>1, <1>2, <2>3
    <3>2. Rejects(r, f)
      BY <2>3, <3>1 DEF Rejects
    <3> QED
      BY <1>2, <2>1, <3>1, <3>2 DEF Unbeaten
  <2> QED
    BY <2>2, <2>3
<1> QED
  BY <1>3, <1>4

(* No silent winner, for any figures a group may publish and any bound on  *)
(* the pairs compared: the ladder's answer does not depend on the order of *)
(* naming, every group of figures has one that no other beats, and two     *)
(* that contradict each other both stand only where a person is asked.     *)
THEOREM NobodyWinsSilently == LadderSpec => []NoSilentWinner
<1>1. LadderInit => LadderInv
  BY FS_EmptySet DEF LadderInit, LadderInv
<1>2. LadderInv /\ [LadderNext]_ladderVars => LadderInv'
  BY LadderStep
<1>3. LadderInv => NoSilentWinner
  <2> SUFFICES ASSUME LadderInv, checked PROVE NoSilentWinner
    BY DEF NoSilentWinner
  <2>1. \A f, g \in facts : Resolve(f, g) = Resolve(g, f)
    BY NamingOrderIsNothing DEF LadderInv
  <2> QED
    BY <2>1, OneIsUnbeaten, NobodyIsSilent DEF NoSilentWinner
<1> QED
  BY <1>1, <1>2, <1>3, PTL DEF LadderSpec
=============================================================================
