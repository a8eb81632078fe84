--------------------------- MODULE OperatorProofs ---------------------------
(***************************************************************************)
(* Theorems about what the operator's pages read and write: LiveGate,      *)
(* where no change of the rows gets past the gate unapproved; ThesisWatch, *)
(* for any premises and years; and Book, for any dates and splits.         *)
(***************************************************************************)
EXTENDS LiveGate, ThesisWatch, Book, SetFacts, TLAPS

-----------------------------------------------------------------------------
(* LiveGate.                                                               *)

LEMMA TypeInit == Init => TypeOK
<1>1. Nothing \in Maybe
  BY DEF Maybe
<1>2. Proposed \in Contents
  BY LiveGateAssumption
<1>3. Init => decided \in BOOLEAN /\ queued \in BOOLEAN
  BY DEF Init
<1> QED
  BY <1>1, <1>2, <1>3 DEF Init, TypeOK

LEMMA TypeStep == TypeOK /\ [Next]_vars => TypeOK'
<1> SUFFICES ASSUME TypeOK, [Next]_vars PROVE TypeOK'
  OBVIOUS
<1> USE LiveGateAssumption DEF TypeOK
<1>0. \A c \in Contents : Just(c) \in Maybe
  BY DEF Maybe
<1>1. CASE Claim
  BY <1>1 DEF Claim, operator
<1>2. CASE ReadApproval \/ PassGate \/ WaitAtGate
  BY <1>2 DEF ReadApproval, PassGate, WaitAtGate, operator
<1>3. CASE Use
  BY <1>0, <1>3 DEF Use, operator
<1>4. CASE StopShort
  BY <1>4 DEF StopShort, operator
<1>5. CASE Resume
  BY <1>5 DEF Resume, operator, engine
<1>6. CASE Amend
  BY <1>6 DEF Amend, engine
<1>7. CASE OpenPage
  BY <1>0, <1>7 DEF OpenPage, engine
<1>8. CASE Decide
  <2>1. page' \in Maybe /\ approved' \in Maybe /\ queued' \in BOOLEAN
    BY <1>0, <1>8 DEF Decide, Maybe, Nothing
  <2> QED
    BY <1>8, <2>1 DEF Decide, engine
<1>9. CASE UNCHANGED vars
  BY <1>9 DEF vars
<1> QED
  BY <1>1, <1>2, <1>3, <1>4, <1>5, <1>6, <1>7, <1>8, <1>9 DEF Next, Worker

(* Every variable of a gate over live rows keeps its type.                 *)
THEOREM TypeCorrect == Spec => []TypeOK
BY TypeInit, TypeStep, PTL DEF Spec

(* What the using step worked with stays what was approved: a decision,    *)
(* once taken, is never taken again, and there is none without being       *)
(* decided.                                                                *)
UseInv == OnlyApprovedIsUsed /\ (approved # Nothing => decided)

LEMMA UseInit == Init => UseInv
BY DEF Init, UseInv, OnlyApprovedIsUsed

LEMMA UseStep == ASSUME Rechecks, UseInv, [Next]_vars PROVE UseInv'
<1> USE DEF UseInv, OnlyApprovedIsUsed
<1>1. CASE UNCHANGED <<approved, decided, used>>
  BY <1>1
<1>2. CASE Claim \/ ReadApproval \/ PassGate \/ WaitAtGate \/ StopShort
  BY <1>1, <1>2 DEF Claim, ReadApproval, PassGate, WaitAtGate, StopShort, operator
<1>3. CASE Resume \/ Amend \/ OpenPage
  BY <1>1, <1>3 DEF Resume, Amend, OpenPage, operator, engine
<1>4. CASE Use
  BY <1>4 DEF Use, Admissible, Matches, Just, operator
<1>5. CASE Decide
  <2>1. ~decided /\ decided' /\ used' = used /\ approved = Nothing
    BY <1>5 DEF Decide, engine
  <2>2. used # Nothing => ~Required /\ used = Just(Proposed)
    BY <2>1
  <2> QED
    BY <2>1, <2>2
<1>6. CASE UNCHANGED vars
  BY <1>1, <1>6 DEF vars
<1> QED
  BY <1>2, <1>3, <1>4, <1>5, <1>6 DEF Next, Worker

(* Peers and themes: the step that uses them works with the rows that were *)
(* approved, or with a slate proposed empty and left so, whatever the      *)
(* operator adds after the decision and however often the run stops.       *)
THEOREM RecheckedRowsAreApproved == ASSUME Rechecks PROVE Spec => []OnlyApprovedIsUsed
<1>1. Init => UseInv
  BY UseInit
<1>2. UseInv /\ [Next]_vars => UseInv'
  BY UseStep
<1>3. UseInv => OnlyApprovedIsUsed
  BY DEF UseInv
<1> QED
  BY <1>1, <1>2, <1>3, PTL DEF Spec

(* What has been used is used once: the run has succeeded.                 *)
OnceInv == used # Nothing => job = "SUCCEEDED" /\ pc = "idle"

LEMMA OnceStep == ASSUME TypeOK, OnceInv, [Next]_vars PROVE OnceInv'
<1> USE DEF OnceInv
<1>1. CASE Claim \/ ReadApproval \/ PassGate \/ WaitAtGate \/ StopShort
  BY <1>1 DEF Claim, ReadApproval, PassGate, WaitAtGate, StopShort
<1>2. CASE Use
  BY <1>2 DEF Use, Just, Nothing
<1>3. CASE Resume \/ Amend \/ OpenPage \/ Decide
  BY <1>3 DEF Resume, Amend, OpenPage, Decide, engine
<1>4. CASE UNCHANGED vars
  BY <1>4 DEF vars
<1> QED
  BY <1>1, <1>2, <1>3, <1>4 DEF Next, Worker

promised == <<content, approved, decided, used>>

LEMMA LiveGatePromiseStep ==
  ASSUME Rechecks, TypeOK, OnceInv, [Next]_vars
  PROVE  Gate!Next \/ UNCHANGED promised
<1> USE DEF promised
<1>1. CASE Claim \/ ReadApproval \/ PassGate \/ WaitAtGate \/ StopShort
  BY <1>1 DEF Claim, ReadApproval, PassGate, WaitAtGate, StopShort, operator
<1>2. CASE Use
  <2>1. CASE UNCHANGED used
    BY <1>2, <2>1 DEF Use, operator
  <2>2. CASE ~UNCHANGED used
    <3>1. used = {}
      BY <1>2 DEF OnceInv, Use, Nothing
    <3>2. used' = {content} /\ Admissible /\ UNCHANGED <<content, approved, decided>>
      BY <1>2, <2>2 DEF Use, Just, operator
    <3>3. Gate!Act
      BY <3>1, <3>2 DEF Gate!Act, Admissible, Matches, Just
    <3> QED
      BY <3>3 DEF Gate!Next
  <2> QED
    BY <2>1, <2>2
<1>3. CASE Resume \/ OpenPage
  BY <1>3 DEF Resume, OpenPage, operator, engine
<1>4. CASE Amend
  <2>1. content' \in Contents /\ UNCHANGED <<approved, decided, used>>
    BY <1>4, LiveGateAssumption DEF Amend, engine, TypeOK
  <2> QED
    BY <2>1 DEF Gate!Next, Gate!Change
<1>5. CASE Decide
  <2>1. Gate!Decide
    BY <1>5 DEF Decide, engine, Gate!Decide, Just, Nothing
  <2> QED
    BY <2>1 DEF Gate!Next
<1>6. CASE UNCHANGED vars
  BY <1>6 DEF vars
<1> QED
  BY <1>1, <1>2, <1>3, <1>4, <1>5, <1>6 DEF Next, Worker

(* Peers and themes: however the rows are amended and the run stops, the   *)
(* operator sees the gate of ApprovalGate: one decision, on what the page  *)
(* shows at that moment, and what is used, once, is what it approved.      *)
THEOREM RecheckedGatesKeepThePromise == ASSUME Rechecks PROVE Spec => KeepsThePromise
<1>1. Init => Gate!Init /\ OnceInv
  BY DEF Init, Gate!Init, OnceInv, Nothing
<1>2. TypeOK /\ OnceInv /\ [Next]_vars => [Gate!Next]_promised
  BY LiveGatePromiseStep
<1>3. TypeOK /\ OnceInv /\ [Next]_vars => OnceInv'
  BY OnceStep
<1> QED
  BY <1>1, <1>2, <1>3, TypeCorrect, PTL DEF Spec, KeepsThePromise, Gate!Spec, promised

-----------------------------------------------------------------------------
(* ThesisWatch.                                                            *)

(* The actions by what they change.                                        *)
LEMMA WatchCases ==
  ASSUME WatchNext,
         NEW Goal,
         \A y \in Years, figure \in Amounts, day \in Days :
           (File(y, figure, day) => Goal) /\ (Restate(y, figure, day) => Goal),
         \A m \in Monitors : BeginPass(m) => Goal,
         \A m \in Monitors, p \in Premises :
           (Pass(m, p) => Goal) /\ (Unobservable(m, p) => Goal) /\ (AskModel(m, p) => Goal),
         \A m \in Monitors, reply \in Statuses : Answer(m, reply) => Goal,
         \A m \in Monitors : (Refuse(m) => Goal) /\ (FailPass(m) => Goal) /\ (Finish(m) => Goal),
         \A c \in Pages, i \in DOMAIN findings, act \in Acts : OpenForm(c, i, act) => Goal,
         \A c \in Pages : ResolveFinding(c) => Goal,
         \A p \in Premises : Withdraw(p) => Goal,
         Reset => Goal
  PROVE  Goal
BY DEF WatchNext, PassStep

-----------------------------------------------------------------------------
(* The shape of the state: a year is filed with a figure and a day, and a  *)
(* pass is over, at a premise it reads or done with them all.              *)
Finding == [kind : {"reading", "stopped"}, premise : Premises \union {0}, status : Statuses,
            year : Years \union {0}, against : Years \union {0}, to : Days \union {0},
            root : BOOLEAN, last : Acts]
PassState == [at : {"off", "reading", "asking"}, next : 0..(Cardinality(Premises) + 1),
              skips : SUBSET Premises, holds : BOOLEAN, year : Years \union {0},
              against : Years \union {0}, to : Days \union {0}, quiet : BOOLEAN]

WatchShape ==
  /\ store \in [Years -> {Unfiled} \union [figure : Amounts, day : Days]]
  /\ withdrawn \subseteq Premises
  /\ findings \in Seq(Finding)
  /\ acts \in 0..MaxActs
  /\ pass \in [Monitors -> PassState]
  /\ \A m \in Monitors : /\ pass[m].at = "reading" => pass[m].next # 0
                         /\ pass[m].at = "asking" => pass[m].next \in Premises
  /\ form \in [Pages -> [row : 0..Len(findings), act : Acts]]
  /\ \A c \in Pages : form[c].row # 0 /\ form[c].act = "withdrawn" =>
                        findings[form[c].row].premise # 0
  /\ passes \in 0..MaxPasses

LEMMA SomePremises ==
  /\ Cardinality(Premises) \in Nat
  /\ \A p : p \in Premises <=> p \in Nat /\ 1 <= p /\ p <= Cardinality(Premises)
BY WatchAssumption, FS_CardinalityType

LEMMA StoreFacts ==
  ASSUME WatchShape
  PROVE  /\ Filed \in SUBSET Years /\ Filed \in SUBSET Nat /\ IsFiniteSet(Filed)
         /\ \A y \in Filed : store[y] \in [figure : Amounts, day : Days]
         /\ \A y \in Filed : store[y].figure \in Int /\ store[y].day \in Int /\ store[y].day > 0
         /\ Filed # {} => Latest \in Filed /\ \A y \in Filed : y <= Latest
         /\ Cardinality(Filed) > 1 => Prior \in Filed
<1>1. Filed \in SUBSET Years /\ Filed \in SUBSET Nat /\ IsFiniteSet(Filed)
  BY WatchAssumption, FS_Subset DEF Filed
<1>2. \A y \in Filed : store[y] \in [figure : Amounts, day : Days]
  BY DEF WatchShape, Filed
<1>3. \A y \in Filed : store[y].figure \in Int /\ store[y].day \in Int /\ store[y].day > 0
  <2>1. Amounts \subseteq Int /\ \A d \in Days : d \in Int /\ d > 0
    BY WatchAssumption
  <2> QED
    BY <1>2, <2>1
<1>4. Filed # {} => Latest \in Filed /\ \A y \in Filed : y <= Latest
  BY <1>1, MaxOfFinite DEF Latest
<1>5. ASSUME Cardinality(Filed) > 1 PROVE Prior \in Filed
  <2>1. Filed \ {Latest} # {}
    <3>1. ASSUME Filed \subseteq {Latest} PROVE FALSE
      <4>1. Filed = {} \/ Filed = {Latest}
        BY <3>1
      <4>2. Cardinality(Filed) = 0 \/ Cardinality(Filed) = 1
        BY <4>1, FS_EmptySet, FS_Singleton
      <4> QED
        BY <1>5, <4>2
    <3> QED
      BY <3>1
  <2>2. IsFiniteSet(Filed \ {Latest}) /\ Filed \ {Latest} \in SUBSET Nat
    BY <1>1, FS_Subset
  <2> QED
    BY <2>1, <2>2, MaxOfFinite DEF Prior
<1> QED
  BY <1>1, <1>2, <1>3, <1>4, <1>5

(* The window is of filed years, and ends on the day of one of them.       *)
LEMMA WindowFacts ==
  ASSUME WatchShape, NEW p, Window(p) # {}
  PROVE  /\ Filed # {} /\ Window(p) \in SUBSET Filed
         /\ Max(Window(p)) \in Window(p) /\ \A y \in Window(p) : y <= Max(Window(p))
         /\ \E y \in Filed : WindowTo(p) = store[y].day
<1>1. Window(p) \in SUBSET Filed /\ IsFiniteSet(Window(p)) /\ Window(p) \in SUBSET Nat
  BY StoreFacts, FS_Subset DEF Window
<1>2. Max(Window(p)) \in Window(p) /\ \A y \in Window(p) : y <= Max(Window(p))
  BY <1>1, MaxOfFinite
<1> DEFINE days == {store[y].day : y \in Window(p)}
<1> DEFINE dayOf == [y \in Window(p) |-> store[y].day]
<1>3. \A y \in Window(p) : dayOf[y] = store[y].day /\ dayOf[y] \in Int
  BY <1>1, StoreFacts
<1>4. PICK x \in Window(p) : \A y \in Window(p) : dayOf[y] <= dayOf[x]
  <2> HIDE DEF dayOf
  <2> QED
    BY <1>1, <1>3, Greatest
<1>5. Max(days) \in days
  <2>1. store[x].day \in days /\ \A d \in days : store[x].day >= d
    BY <1>3, <1>4
  <2> HIDE DEF days
  <2> QED
    BY <2>1 DEF Max
<1> QED
  BY <1>1, <1>2, <1>5 DEF WindowTo

(* The readings of a premise that measured something.                      *)
Measures(i) == findings[i].kind = "reading" /\ findings[i].status # "unobservable"
Of(p) == {i \in DOMAIN findings : Measures(i) /\ findings[i].premise = p}

LEMMA LastReadingIs ==
  ASSUME WatchShape, NEW p
  PROVE  /\ LastReading(p) = 0 <=> Of(p) = {}
         /\ LastReading(p) # 0 => LastReading(p) \in Of(p) /\ \A i \in Of(p) : i <= LastReading(p)
<1>1. LastReading(p) = IF Of(p) = {} THEN 0 ELSE Max(Of(p))
  <2>1. Of(p) = {i \in DOMAIN findings : /\ findings[i].kind = "reading"
                                         /\ findings[i].premise = p
                                         /\ findings[i].status # "unobservable"}
    BY DEF Of, Measures
  <2> QED
    BY <2>1 DEF LastReading
<1>2. DOMAIN findings = 1..Len(findings) /\ Len(findings) \in Nat
  BY DEF WatchShape
<1>3. IsFiniteSet(1..Len(findings))
  BY <1>2, FS_Interval
<1>4. Of(p) \in SUBSET Nat /\ IsFiniteSet(Of(p)) /\ 0 \notin Of(p)
  BY <1>2, <1>3, FS_Subset DEF Of
<1>5. Of(p) # {} => Max(Of(p)) \in Of(p) /\ \A i \in Of(p) : i <= Max(Of(p))
  BY <1>4, MaxOfFinite
<1> QED
  BY <1>1, <1>4, <1>5

-----------------------------------------------------------------------------
LEMMA ReadingIsFinding ==
  ASSUME NEW p \in Premises, NEW status \in Statuses, NEW year \in Years \union {0},
         NEW against \in Years \union {0}, NEW to \in Days \union {0}
  PROVE  Reading(p, status, year, against, to) \in Finding
BY DEF Reading, Finding, Acts

LEMMA StoppedIsFinding == Stopped \in Finding
BY DEF Stopped, Reading, Finding, Statuses, Acts

LEMMA RestIsState == NoPass \in PassState
<1>1. 0 \in 0..(Cardinality(Premises) + 1)
  BY SomePremises
<1> QED
  BY <1>1 DEF NoPass, PassState

LEMMA OnToIsState ==
  ASSUME WatchShape, NEW m \in Monitors, pass[m].next \in Premises
  PROVE  /\ OnTo(m) \in [Monitors -> PassState]
         /\ \A n \in Monitors : n # m => OnTo(m)[n] = pass[n]
         /\ OnTo(m)[m] = [NoPass EXCEPT !.at = "reading", !.next = pass[m].next + 1,
                            !.skips = pass[m].skips, !.quiet = pass[m].quiet]
         /\ OnTo(m)[m].at = "reading" /\ OnTo(m)[m].next = pass[m].next + 1
         /\ OnTo(m)[m].skips = pass[m].skips /\ OnTo(m)[m].quiet = pass[m].quiet
<1> DEFINE next == pass[m].next + 1
           there == [NoPass EXCEPT !.at = "reading", !.next = next,
                       !.skips = pass[m].skips, !.quiet = pass[m].quiet]
<1>1. next \in 0..(Cardinality(Premises) + 1)
  BY SomePremises
<1>2. pass[m].skips \in SUBSET Premises /\ pass[m].quiet \in BOOLEAN
  BY DEF WatchShape, PassState
<1> HIDE DEF next
<1>3. there \in PassState
  BY <1>1, <1>2, RestIsState DEF PassState, NoPass
<1>4. there.at = "reading" /\ there.next = next /\ there.skips = pass[m].skips
      /\ there.quiet = pass[m].quiet
  BY DEF NoPass
<1>5. pass \in [Monitors -> PassState] /\ OnTo(m) = [pass EXCEPT ![m] = there]
  BY DEF WatchShape, OnTo, next
<1> HIDE DEF there
<1>6. OnTo(m)[m] = there
  BY <1>5
<1> QED
  BY <1>3, <1>4, <1>5, <1>6 DEF there, next

(* A row appended to the findings is the last one.                         *)
LEMMA Appended ==
  ASSUME WatchShape, NEW r \in Finding, findings' = Append(findings, r)
  PROVE  /\ findings' \in Seq(Finding) /\ Len(findings') = Len(findings) + 1
         /\ DOMAIN findings' = DOMAIN findings \union {Len(findings) + 1}
         /\ \A i \in DOMAIN findings : findings'[i] = findings[i] /\ i < Len(findings) + 1
         /\ findings'[Len(findings) + 1] = r
         /\ Len(findings) + 1 \notin DOMAIN findings /\ Len(findings) \in Nat
BY DEF WatchShape

(* What is on a page stays on it.                                          *)
LEMMA FormsStand ==
  ASSUME WatchShape, UNCHANGED form, Len(findings') \in Nat, Len(findings) <= Len(findings'),
         \A i \in DOMAIN findings : findings'[i].premise = findings[i].premise
  PROVE  /\ form' \in [Pages -> [row : 0..Len(findings'), act : Acts]]
         /\ \A c \in Pages : form'[c].row # 0 /\ form'[c].act = "withdrawn" =>
                               findings'[form'[c].row].premise # 0
<1>1. DOMAIN findings = 1..Len(findings) /\ Len(findings) \in Nat
  BY DEF WatchShape
<1>2. \A c \in Pages : form[c] \in [row : 0..Len(findings), act : Acts]
  BY DEF WatchShape
<1>3. 0..Len(findings) \subseteq 0..Len(findings')
  BY <1>1
<1>4. \A c \in Pages : form[c].row # 0 => form[c].row \in DOMAIN findings
  BY <1>1, <1>2
<1>5. \A c \in Pages : form[c] \in [row : 0..Len(findings'), act : Acts]
  BY <1>2, <1>3
<1> QED
  BY <1>4, <1>5 DEF WatchShape

LEMMA ShapeStep == ASSUME WatchShape, [WatchNext]_watchVars PROVE WatchShape'
<1> DEFINE Goal == WatchShape'
<1>1. ASSUME NEW y \in Years, NEW figure \in Amounts, NEW day \in Days,
             File(y, figure, day) \/ Restate(y, figure, day)
      PROVE  Goal
  <2>1. store' = [store EXCEPT ![y] = [figure |-> figure, day |-> day]] /\ pass' = Disturbed
        /\ UNCHANGED <<withdrawn, findings, acts, form, passes>>
    BY <1>1 DEF File, Restate
  <2>2. store' \in [Years -> {Unfiled} \union [figure : Amounts, day : Days]]
    BY <2>1 DEF WatchShape
  <2>3. \A m \in Monitors : /\ pass'[m] \in PassState
                            /\ pass'[m].at = pass[m].at
                            /\ pass[m].at # "off" => pass'[m].next = pass[m].next
    <3>1. \A m \in Monitors :
            pass'[m] = IF pass[m].at = "off" THEN NoPass ELSE [pass[m] EXCEPT !.quiet = FALSE]
      BY <2>1 DEF Disturbed
    <3>2. NoPass.at = "off"
      BY DEF NoPass
    <3>3. \A s \in PassState : /\ [s EXCEPT !.quiet = FALSE] \in PassState
                               /\ [s EXCEPT !.quiet = FALSE].at = s.at
                               /\ [s EXCEPT !.quiet = FALSE].next = s.next
      BY DEF PassState
    <3> SUFFICES ASSUME NEW m \in Monitors
                 PROVE  /\ pass'[m] \in PassState
                        /\ pass'[m].at = pass[m].at
                        /\ pass[m].at # "off" => pass'[m].next = pass[m].next
      OBVIOUS
    <3>4. pass[m] \in PassState
      BY DEF WatchShape
    <3>5. CASE pass[m].at = "off"
      BY <3>1, <3>2, <3>5, RestIsState
    <3>6. CASE pass[m].at # "off"
      <4>1. pass'[m] = [pass[m] EXCEPT !.quiet = FALSE]
        BY <3>1, <3>6
      <4> QED
        BY <3>3, <3>4, <4>1
    <3> QED
      BY <3>5, <3>6
  <2>4. pass' \in [Monitors -> PassState]
    BY <2>1, <2>3 DEF Disturbed
  <2> QED
    BY <2>1, <2>2, <2>3, <2>4 DEF WatchShape
<1>2. ASSUME NEW m \in Monitors, NEW s \in PassState, pass' = [pass EXCEPT ![m] = s],
             s.at = "reading" => s.next # 0, s.at = "asking" => s.next \in Premises
      PROVE  /\ pass' \in [Monitors -> PassState]
             /\ \A n \in Monitors : /\ pass'[n].at = "reading" => pass'[n].next # 0
                                    /\ pass'[n].at = "asking" => pass'[n].next \in Premises
  BY <1>2 DEF WatchShape
<1>3. ASSUME NEW m \in Monitors, BeginPass(m) PROVE Goal
  <2> DEFINE s == [NoPass EXCEPT !.at = "reading", !.next = 1, !.skips = withdrawn]
  <2>1. s \in PassState /\ s.at = "reading" /\ s.next # 0
    <3>1. 1 \in 0..(Cardinality(Premises) + 1)
      BY SomePremises
    <3>3. withdrawn \in SUBSET Premises
      BY DEF WatchShape
    <3>4. s \in PassState /\ s.at = "reading" /\ s.next = 1
      BY <3>1, <3>3, RestIsState DEF PassState
    <3> QED
      BY <3>4
  <2>2. pass' = [pass EXCEPT ![m] = s] /\ passes' \in 0..MaxPasses
        /\ UNCHANGED <<store, withdrawn, findings, acts, form>>
    BY <1>3, WatchAssumption DEF BeginPass, WatchShape
  <2> HIDE DEF s
  <2> QED
    BY <1>2, <2>1, <2>2 DEF WatchShape
<1>4. ASSUME NEW m \in Monitors, pass[m].next \in Premises, pass' = OnTo(m)
      PROVE  /\ pass' \in [Monitors -> PassState]
             /\ \A n \in Monitors : /\ pass'[n].at = "reading" => pass'[n].next # 0
                                    /\ pass'[n].at = "asking" => pass'[n].next \in Premises
  <2>1. pass[m].next + 1 # 0
    <3>1. pass[m].next \in Nat
      BY <1>4, SomePremises
    <3> QED
      BY <3>1
  <2>2. /\ OnTo(m) \in [Monitors -> PassState]
        /\ \A n \in Monitors : n # m => OnTo(m)[n] = pass[n]
        /\ OnTo(m)[m].at = "reading" /\ OnTo(m)[m].next = pass[m].next + 1
    BY <1>4, OnToIsState
  <2>3. ASSUME NEW n \in Monitors
        PROVE  /\ pass'[n].at = "reading" => pass'[n].next # 0
               /\ pass'[n].at = "asking" => pass'[n].next \in Premises
    <3>1. CASE n = m
      BY <1>4, <2>1, <2>2, <3>1
    <3>2. CASE n # m
      BY <1>4, <2>2, <3>2 DEF WatchShape
    <3> QED
      BY <3>1, <3>2
  <2> QED
    BY <1>4, <2>2, <2>3
<1>5. ASSUME NEW r \in Finding, findings' = Append(findings, r),
             UNCHANGED <<store, withdrawn, acts, form, passes>>,
             pass' \in [Monitors -> PassState],
             \A n \in Monitors : /\ pass'[n].at = "reading" => pass'[n].next # 0
                                 /\ pass'[n].at = "asking" => pass'[n].next \in Premises
      PROVE  Goal
  <2>1. /\ findings' \in Seq(Finding) /\ Len(findings') \in Nat /\ Len(findings) <= Len(findings')
        /\ \A i \in DOMAIN findings : findings'[i].premise = findings[i].premise
    BY <1>5, Appended
  <2> QED
    BY <1>5, <2>1, FormsStand DEF WatchShape
<1>6. ASSUME NEW m \in Monitors, NEW p \in Premises, Pass(m, p) PROVE Goal
  BY <1>4, <1>6 DEF Pass, Reads, WatchShape
<1>7. ASSUME NEW m \in Monitors, NEW p \in Premises, Unobservable(m, p) PROVE Goal
  <2>1. /\ Window(p) # {} /\ pass[m].next = p
        /\ findings' = Append(findings, Reading(p, "unobservable", 0, 0, WindowTo(p)))
        /\ pass' = OnTo(m) /\ UNCHANGED <<store, withdrawn, acts, form, passes>>
    BY <1>7 DEF Unobservable, Reads, News
  <2>2. WindowTo(p) \in Days
    BY <2>1, WindowFacts, StoreFacts
  <2>3. Reading(p, "unobservable", 0, 0, WindowTo(p)) \in Finding
    BY <2>2, ReadingIsFinding DEF Statuses
  <2> QED
    BY <1>4, <1>5, <2>1, <2>3
<1>8. ASSUME NEW m \in Monitors, NEW p \in Premises, AskModel(m, p) PROVE Goal
  <2> DEFINE s == [pass[m] EXCEPT !.at = "asking", !.holds = Holds(p), !.year = Latest,
                                  !.against = YearBefore(p), !.to = WindowTo(p)]
  <2>1. /\ Window(p) # {} /\ pass[m].next = p /\ Measurable(p)
        /\ pass' = [pass EXCEPT ![m] = s]
        /\ UNCHANGED <<store, withdrawn, findings, acts, form, passes>>
    BY <1>8 DEF AskModel, Reads, News, WatchShape
  <2>2. Latest \in Years /\ WindowTo(p) \in Days
    BY <2>1, WindowFacts, StoreFacts
  <2>3. YearBefore(p) \in Years \union {0}
    BY <2>1, StoreFacts DEF YearBefore, Measurable
  <2>4. Holds(p) \in BOOLEAN
    BY DEF Holds
  <2>5. pass[m] \in PassState
    BY DEF WatchShape
  <2>6. s \in PassState /\ s.at = "asking" /\ s.next = p
    BY <2>1, <2>2, <2>3, <2>4, <2>5 DEF PassState
  <2> HIDE DEF s
  <2> QED
    BY <1>2, <2>1, <2>6 DEF WatchShape
<1>9. ASSUME NEW m \in Monitors, NEW reply \in Statuses, Answer(m, reply) PROVE Goal
  <2> DEFINE r == Reading(pass[m].next, Bounded(reply, pass[m].holds), pass[m].year,
                          pass[m].against, pass[m].to)
  <2>1. pass[m] \in PassState /\ pass[m].next \in Premises
    BY <1>9 DEF Answer, WatchShape
  <2>2. Bounded(reply, pass[m].holds) \in Statuses
    BY DEF Bounded, Statuses
  <2>3. r \in Finding
    BY <2>1, <2>2, ReadingIsFinding DEF PassState
  <2>4. findings' = Append(findings, r) /\ pass' = OnTo(m)
        /\ UNCHANGED <<store, withdrawn, acts, form, passes>>
    BY <1>9 DEF Answer
  <2> HIDE DEF r
  <2> QED
    BY <1>4, <1>5, <2>1, <2>3, <2>4
<1>10. ASSUME NEW m \in Monitors, pass' = [pass EXCEPT ![m] = NoPass]
       PROVE  /\ pass' \in [Monitors -> PassState]
              /\ \A n \in Monitors : /\ pass'[n].at = "reading" => pass'[n].next # 0
                                     /\ pass'[n].at = "asking" => pass'[n].next \in Premises
  BY <1>2, <1>10, RestIsState DEF NoPass
<1>11. ASSUME NEW m \in Monitors, Refuse(m) PROVE Goal
  BY <1>5, <1>10, <1>11, StoppedIsFinding DEF Refuse
<1>12. ASSUME NEW m \in Monitors, FailPass(m) \/ Finish(m) PROVE Goal
  BY <1>10, <1>12 DEF FailPass, Finish, WatchShape
<1>13. ASSUME NEW c \in Pages, NEW i \in DOMAIN findings, NEW act \in Acts, OpenForm(c, i, act)
       PROVE  Goal
  <2>1. /\ form' = [form EXCEPT ![c] = [row |-> i, act |-> act]] /\ acts' = acts + 1
        /\ acts < MaxActs /\ (act = "withdrawn" => findings[i].premise # 0)
        /\ UNCHANGED <<store, withdrawn, findings, pass, passes>>
    BY <1>13 DEF OpenForm, MayAct
  <2>2. i \in 0..Len(findings)
    BY DEF WatchShape
  <2>3. acts' \in 0..MaxActs
    BY <2>1, WatchAssumption DEF WatchShape
  <2>4. \A d \in Pages : form'[d] = IF d = c THEN [row |-> i, act |-> act] ELSE form[d]
    BY <2>1 DEF WatchShape
  <2>5. form' \in [Pages -> [row : 0..Len(findings), act : Acts]]
    BY <2>1, <2>2 DEF WatchShape
  <2> QED
    BY <2>1, <2>3, <2>4, <2>5 DEF WatchShape
<1>14. ASSUME NEW c \in Pages, ResolveFinding(c) PROVE Goal
  <2> DEFINE i == form[c].row
             act == form[c].act
  <2>1. /\ i # 0 /\ findings' = [findings EXCEPT ![i] = [@ EXCEPT !.last = act]]
        /\ withdrawn' = IF act = "withdrawn" THEN withdrawn \union {findings[i].premise}
                        ELSE withdrawn
        /\ form' = [form EXCEPT ![c] = NoForm]
        /\ UNCHANGED <<store, acts, pass, passes>>
    BY <1>14 DEF ResolveFinding
  <2>2. act \in Acts /\ i \in 0..Len(findings) /\ Len(findings) \in Nat
        /\ DOMAIN findings = 1..Len(findings) /\ \A j \in DOMAIN findings : findings[j] \in Finding
    BY DEF WatchShape
  <2>3. i \in DOMAIN findings
    BY <2>1, <2>2
  <2>4. [findings[i] EXCEPT !.last = act] \in Finding
    BY <2>2, <2>3 DEF Finding
  <2>5. /\ findings' \in Seq(Finding) /\ Len(findings') = Len(findings)
        /\ \A j \in DOMAIN findings :
             findings'[j] = IF j = i THEN [findings[i] EXCEPT !.last = act] ELSE findings[j]
    <3> HIDE DEF i, act
    <3> QED
      BY <2>1, <2>3, <2>4 DEF WatchShape
  <2>6. \A j \in DOMAIN findings : findings'[j].premise = findings[j].premise
    BY <2>2, <2>5 DEF Finding
  <2>7. withdrawn' \subseteq Premises
    <3>1. act = "withdrawn" => findings[i].premise \in Premises
      BY <2>1, <2>2, <2>3 DEF WatchShape, Finding
    <3> QED
      BY <2>1, <3>1 DEF WatchShape
  <2>8. \A d \in Pages : form'[d] = IF d = c THEN NoForm ELSE form[d]
    BY <2>1 DEF WatchShape
  <2>9. NoForm \in [row : 0..Len(findings), act : Acts] /\ NoForm.row = 0
    BY <2>2 DEF NoForm, Acts
  <2>10. form' \in [Pages -> [row : 0..Len(findings), act : Acts]]
    BY <2>1, <2>9 DEF WatchShape
  <2>11. \A d \in Pages : form'[d].row # 0 /\ form'[d].act = "withdrawn" =>
                            findings'[form'[d].row].premise # 0
    <3>1. \A d \in Pages : form[d].row # 0 => form[d].row \in DOMAIN findings
      BY <2>2 DEF WatchShape
    <3> QED
      BY <2>6, <2>8, <2>9, <3>1 DEF WatchShape
  <2> HIDE DEF i, act
  <2> QED
    BY <2>1, <2>5, <2>7, <2>10, <2>11 DEF WatchShape
<1>15. ASSUME NEW p \in Premises, Withdraw(p) PROVE Goal
  <2>1. acts' \in 0..MaxActs
    BY <1>15, WatchAssumption DEF Withdraw, WatchShape
  <2> QED
    BY <1>15, <2>1 DEF Withdraw, WatchShape
<1>16. ASSUME Reset PROVE Goal
  <2>1. /\ findings' = [i \in DOMAIN findings |-> [findings[i] EXCEPT !.root = FALSE]]
        /\ acts' = acts + 1 /\ acts < MaxActs
        /\ UNCHANGED <<store, withdrawn, pass, form, passes>>
    BY <1>16 DEF Reset
  <2>2. DOMAIN findings = 1..Len(findings) /\ Len(findings) \in Nat
        /\ \A j \in DOMAIN findings : findings[j] \in Finding
    BY DEF WatchShape
  <2>3. \A j \in DOMAIN findings : /\ [findings[j] EXCEPT !.root = FALSE] \in Finding
                                   /\ [findings[j] EXCEPT !.root = FALSE].premise = findings[j].premise
    BY <2>2 DEF Finding
  <2>4. findings' \in Seq(Finding) /\ Len(findings') = Len(findings)
    BY <2>1, <2>2, <2>3
  <2>5. acts' \in 0..MaxActs
    BY <2>1, WatchAssumption DEF WatchShape
  <2>6. \A i \in DOMAIN findings : findings'[i].premise = findings[i].premise
    BY <2>1, <2>3
  <2> QED
    BY <2>1, <2>2, <2>4, <2>5, <2>6, FormsStand DEF WatchShape
<1>17. UNCHANGED watchVars => Goal
  BY DEF watchVars, WatchShape
<1>18. WatchNext => Goal
  <2> HIDE DEF Goal
  <2> QED
    BY <1>1, <1>3, <1>6, <1>7, <1>8, <1>9, <1>11, <1>12, <1>13, <1>14, <1>15, <1>16, WatchCases
<1> QED
  BY <1>17, <1>18

LEMMA ShapeInit == WatchInit => WatchShape
<1> SUFFICES ASSUME WatchInit PROVE WatchShape
  OBVIOUS
<1>1. findings \in Seq(Finding) /\ Len(findings) = 0
  BY DEF WatchInit
<1>2. NoPass.at = "off" /\ NoForm \in [row : 0..0, act : Acts] /\ NoForm.row = 0
  BY DEF NoPass, NoForm, Acts
<1>3. pass \in [Monitors -> PassState] /\ \A m \in Monitors : pass[m].at = "off"
  BY <1>2, RestIsState DEF WatchInit
<1>4. form \in [Pages -> [row : 0..Len(findings), act : Acts]] /\ \A c \in Pages : form[c].row = 0
  BY <1>1, <1>2 DEF WatchInit
<1>5. 0 \in 0..MaxActs /\ 0 \in 0..MaxPasses
  BY WatchAssumption
<1> QED
  BY <1>1, <1>3, <1>4, <1>5 DEF WatchInit, WatchShape

(* The monitor's state keeps its types.                                    *)
THEOREM WatchTypeCorrect == WatchSpec => []WatchTypeOK
<1>1. ASSUME WatchShape PROVE WatchTypeOK
  <2>1. Unfiled \in [figure : Amounts \union {0}, day : Days \union {0}]
    BY DEF Unfiled
  <2>2. store \in [Years -> [figure : Amounts \union {0}, day : Days \union {0}]]
    BY <1>1, <2>1 DEF WatchShape
  <2>3. findings \in Seq([kind : {"reading", "stopped"}, premise : Premises \union {0},
          status : Statuses, year : Years \union {0}, against : Years \union {0},
          to : Days \union {0}, root : BOOLEAN, last : Acts])
    BY <1>1 DEF WatchShape, Finding
  <2>4. \A m \in Monitors : /\ pass[m].at \in {"off", "reading", "asking"}
                            /\ pass[m].next \in 0..(Cardinality(Premises) + 1)
                            /\ pass[m].skips \subseteq Premises
    BY <1>1 DEF WatchShape, PassState
  <2> QED
    BY <1>1, <2>2, <2>3, <2>4 DEF WatchShape, WatchTypeOK
<1> QED
  BY <1>1, ShapeInit, ShapeStep, PTL DEF WatchSpec

-----------------------------------------------------------------------------
(* What becomes of the findings and the passes.  A filing disturbs the     *)
(* passes and leaves what they hold; a decision and a reset rewrite no     *)
(* reading; every finding is appended.                                     *)
LEMMA DisturbedFacts ==
  ASSUME WatchShape, NEW m \in Monitors
  PROVE  /\ Disturbed[m].at = pass[m].at
         /\ pass[m].at # "off" =>
              /\ Disturbed[m].next = pass[m].next /\ Disturbed[m].skips = pass[m].skips
              /\ Disturbed[m].year = pass[m].year /\ Disturbed[m].against = pass[m].against
              /\ Disturbed[m].to = pass[m].to /\ Disturbed[m].holds = pass[m].holds
              /\ Disturbed[m].quiet = FALSE
<1>1. pass[m] \in PassState
  BY DEF WatchShape
<1>2. CASE pass[m].at = "off"
  BY <1>2 DEF Disturbed, NoPass
<1>3. CASE pass[m].at # "off"
  <2>1. Disturbed[m] = [pass[m] EXCEPT !.quiet = FALSE]
    BY <1>3 DEF Disturbed
  <2> QED
    BY <1>1, <2>1 DEF PassState
<1> QED
  BY <1>2, <1>3

SameFinding(f, g) ==
  /\ f.kind = g.kind /\ f.premise = g.premise /\ f.status = g.status
  /\ f.year = g.year /\ f.against = g.against /\ f.to = g.to

LEMMA Rewrites ==
  ASSUME WatchShape, UNCHANGED findings \/ Reset \/ \E c \in Pages : ResolveFinding(c)
  PROVE  /\ DOMAIN findings' = DOMAIN findings
         /\ \A i \in DOMAIN findings : SameFinding(findings'[i], findings[i])
<1>1. \A i \in DOMAIN findings : findings[i] \in Finding
  BY DEF WatchShape
<1>2. CASE UNCHANGED findings
  BY <1>2 DEF SameFinding
<1>3. CASE Reset
  <2>1. findings' = [i \in DOMAIN findings |-> [findings[i] EXCEPT !.root = FALSE]]
    BY <1>3 DEF Reset
  <2> QED
    BY <1>1, <2>1 DEF SameFinding, Finding
<1>4. CASE \E c \in Pages : ResolveFinding(c)
  <2>1. PICK c \in Pages : ResolveFinding(c)
    BY <1>4
  <2>2. findings' = [findings EXCEPT ![form[c].row] = [@ EXCEPT !.last = form[c].act]]
    BY <2>1 DEF ResolveFinding
  <2>3. DOMAIN findings' = DOMAIN findings
    BY <2>2
  <2>4. \A i \in DOMAIN findings :
          findings'[i] = findings[i] \/ findings'[i] = [findings[i] EXCEPT !.last = form[c].act]
    BY <2>2
  <2> QED
    BY <1>1, <2>3, <2>4 DEF SameFinding, Finding
<1> QED
  BY <1>2, <1>3, <1>4

(* The fields of a row of the findings.                                    *)
LEMMA FindingFields ==
  ASSUME WatchShape, NEW i \in DOMAIN findings
  PROVE  /\ findings[i] \in Finding /\ i \in Int
         /\ findings[i].year \in Int /\ findings[i].to \in Int
<1>1. findings[i] \in Finding /\ i \in Int
  BY DEF WatchShape
<1>2. findings[i].year \in Years \union {0} /\ findings[i].to \in Days \union {0}
  BY <1>1 DEF Finding
<1>3. Years \union {0} \subseteq Int /\ Days \union {0} \subseteq Int
  BY WatchAssumption
<1> QED
  BY <1>1, <1>2, <1>3

LEMMA ReadingFields ==
  ASSUME NEW p, NEW status, NEW year, NEW against, NEW to
  PROVE  LET r == Reading(p, status, year, against, to) IN
         /\ r.kind = "reading" /\ r.premise = p /\ r.status = status
         /\ r.year = year /\ r.against = against /\ r.to = to
BY DEF Reading

LEMMA StoppedFields == Stopped.kind = "stopped" /\ Stopped.status = "other"
BY DEF Stopped, Reading

-----------------------------------------------------------------------------
(* One gate for a year.  The years a premise is measured in only go up,    *)
(* and so does the one a pass has asked the model about.                   *)
OneMonitor == \A m, n \in Monitors : m = n

GateInv ==
  /\ \A i, j \in DOMAIN findings :
       Measures(i) /\ Measures(j) /\ findings[i].premise = findings[j].premise /\ i < j =>
         findings[i].year < findings[j].year
  /\ \A m \in Monitors : pass[m].at = "asking" =>
       \A i \in DOMAIN findings :
         Measures(i) /\ findings[i].premise = pass[m].next => findings[i].year < pass[m].year
  /\ \A i \in DOMAIN findings : OpensGate(i) => findings[i].kind = "reading"

LEMMA GateStays ==
  ASSUME WatchShape, GateInv,
         UNCHANGED findings \/ Reset \/ \E c \in Pages : ResolveFinding(c),
         \A m \in Monitors : pass'[m].at = "asking" =>
           /\ pass[m].at = "asking" /\ pass'[m].next = pass[m].next
           /\ pass'[m].year = pass[m].year
  PROVE  GateInv'
<1>1. /\ DOMAIN findings' = DOMAIN findings
      /\ \A i \in DOMAIN findings : SameFinding(findings'[i], findings[i])
  BY Rewrites
<1>2. \A i \in DOMAIN findings : Measures(i)' = Measures(i) /\ OpensGate(i)' = OpensGate(i)
  BY <1>1 DEF SameFinding, Measures, OpensGate
<1> QED
  BY <1>1, <1>2 DEF GateInv, SameFinding

LEMMA GateGrows ==
  ASSUME WatchShape, GateInv, NEW r \in Finding, findings' = Append(findings, r),
         r.status = "contradicted" => r.kind = "reading",
         r.kind = "reading" /\ r.status # "unobservable" =>
           \A i \in Of(r.premise) : findings[i].year < r.year,
         \A m \in Monitors : pass'[m].at # "asking"
  PROVE  GateInv'
<1>0. PICK n : n = Len(findings) + 1
  OBVIOUS
<1>1. /\ DOMAIN findings' = DOMAIN findings \union {n} /\ findings'[n] = r
      /\ \A i \in DOMAIN findings : findings'[i] = findings[i] /\ i < n
      /\ n \in Nat
  BY <1>0, Appended
<1>2. \A i \in DOMAIN findings : Measures(i)' = Measures(i) /\ OpensGate(i)' = OpensGate(i)
  BY <1>1 DEF Measures, OpensGate
<1>3. /\ Measures(n)' <=> r.kind = "reading" /\ r.status # "unobservable"
      /\ OpensGate(n)' <=> r.status = "contradicted"
  BY <1>1 DEF Measures, OpensGate
<1>4. \A i \in DOMAIN findings : i \in Int
  BY DEF WatchShape
<1>5. ASSUME NEW i \in DOMAIN findings', NEW j \in DOMAIN findings', Measures(i)', Measures(j)',
             findings'[i].premise = findings'[j].premise, i < j
      PROVE  findings'[i].year < findings'[j].year
  <2>1. i \in DOMAIN findings
    BY <1>1, <1>4, <1>5
  <2>2. CASE j \in DOMAIN findings
    BY <1>1, <1>2, <1>5, <2>1, <2>2 DEF GateInv
  <2>3. CASE j = n
    <3>1. i \in Of(r.premise)
      BY <1>1, <1>2, <1>5, <2>1, <2>3 DEF Of
    <3> QED
      BY <1>1, <1>3, <1>5, <2>1, <2>3, <3>1
  <2> QED
    BY <1>1, <2>2, <2>3
<1>6. \A i \in DOMAIN findings' : OpensGate(i)' => findings'[i].kind = "reading"
  BY <1>1, <1>2, <1>3 DEF GateInv
<1> QED
  BY <1>5, <1>6 DEF GateInv

LEMMA GateStep ==
  ASSUME OneMonitor, WatchShape, GateInv, [WatchNext]_watchVars PROVE GateInv'
<1> DEFINE Goal == GateInv'
<1>1. ASSUME NEW y \in Years, NEW figure \in Amounts, NEW day \in Days,
             File(y, figure, day) \/ Restate(y, figure, day)
      PROVE  Goal
  <2>1. pass' = Disturbed /\ UNCHANGED findings
    BY <1>1 DEF File, Restate
  <2> QED
    BY <2>1, GateStays, DisturbedFacts
<1>2. ASSUME UNCHANGED findings, NEW m \in Monitors, pass'[m].at # "asking" PROVE Goal
  BY <1>2, GateStays DEF OneMonitor
<1>3. ASSUME NEW m \in Monitors, BeginPass(m) PROVE Goal
  <2>1. pass'[m].at = "reading"
    BY <1>3 DEF BeginPass, WatchShape, NoPass
  <2> QED
    BY <1>2, <1>3, <2>1 DEF BeginPass
<1>4. ASSUME NEW m \in Monitors, pass' = OnTo(m), pass[m].next \in Premises
      PROVE  \A n \in Monitors : pass'[n].at # "asking"
  BY <1>4, OnToIsState DEF OneMonitor
<1>5. ASSUME NEW m \in Monitors, NEW p \in Premises, Pass(m, p) PROVE Goal
  BY <1>2, <1>4, <1>5 DEF Pass, Reads
<1>6. ASSUME NEW m \in Monitors, NEW p \in Premises, Unobservable(m, p) PROVE Goal
  <2> DEFINE r == Reading(p, "unobservable", 0, 0, WindowTo(p))
  <2>1. /\ Window(p) # {} /\ pass[m].next = p /\ findings' = Append(findings, r)
        /\ pass' = OnTo(m)
    BY <1>6 DEF Unobservable, Reads, News
  <2>2. r \in Finding
    BY <2>1, WindowFacts, StoreFacts, ReadingIsFinding DEF Statuses
  <2>3. r.kind = "reading" /\ r.status = "unobservable"
    BY ReadingFields
  <2> HIDE DEF r
  <2> QED
    BY <1>4, <2>1, <2>2, <2>3, GateGrows
<1>7. ASSUME NEW m \in Monitors, NEW p \in Premises, AskModel(m, p) PROVE Goal
  <2>1. /\ News(p) /\ pass[m].next = p /\ UNCHANGED findings
        /\ pass' = [pass EXCEPT ![m] = [@ EXCEPT !.at = "asking", !.holds = Holds(p),
                      !.year = Latest, !.against = YearBefore(p), !.to = WindowTo(p)]]
    BY <1>7 DEF AskModel, Reads
  <2>2. pass[m] \in PassState
    BY DEF WatchShape
  <2>3. pass'[m].next = p /\ pass'[m].year = Latest
    BY <2>1, <2>2 DEF WatchShape, PassState
  <2>4. ASSUME NEW i \in Of(p) PROVE findings[i].year < Latest
    <3> DEFINE k == LastReading(p)
    <3>1. k \in Of(p) /\ i <= k
      BY LastReadingIs
    <3>2. findings[k].year < Max(Window(p)) /\ Max(Window(p)) <= Latest
      BY <2>1, <3>1, LastReadingIs, WindowFacts, StoreFacts DEF News
    <3>3. findings[i].year <= findings[k].year
      <4>1. CASE i = k
        BY <4>1, <3>1, FindingFields DEF Of
      <4>2. CASE i # k
        <5>1. i < k
          BY <3>1, <4>2 DEF Of, WatchShape
        <5>2. findings[i].year < findings[k].year
          BY <3>1, <5>1 DEF Of, GateInv
        <5>3. findings[i].year \in Int /\ findings[k].year \in Int
          BY <3>1, FindingFields DEF Of
        <5> QED
          BY <5>2, <5>3
      <4> QED
        BY <4>1, <4>2
    <3>4. findings[i].year \in Int /\ findings[k].year \in Int /\ Max(Window(p)) \in Int /\ Latest \in Int
      <4>1. Max(Window(p)) \in Filed /\ Latest \in Filed /\ Filed \subseteq Int
        BY <2>1, WindowFacts, StoreFacts DEF News
      <4> QED
        BY <3>1, <4>1, FindingFields DEF Of
    <3> HIDE DEF k
    <3> QED
      BY <3>2, <3>3, <3>4
  <2>5. \A i \in DOMAIN findings : /\ Measures(i)' = Measures(i)
                                   /\ OpensGate(i)' = OpensGate(i)
    BY <2>1 DEF Measures, OpensGate
  <2>6. \A n \in Monitors : \A i \in DOMAIN findings :
          Measures(i) /\ findings[i].premise = pass'[n].next => findings[i].year < pass'[n].year
    BY <2>3, <2>4 DEF OneMonitor, Of
  <2> QED
    BY <2>1, <2>5, <2>6 DEF GateInv
<1>8. ASSUME NEW m \in Monitors, NEW reply \in Statuses, Answer(m, reply) PROVE Goal
  <2> DEFINE r == Reading(pass[m].next, Bounded(reply, pass[m].holds), pass[m].year,
                          pass[m].against, pass[m].to)
  <2>1. pass[m] \in PassState /\ pass[m].next \in Premises /\ pass[m].at = "asking"
        /\ findings' = Append(findings, r) /\ pass' = OnTo(m)
    BY <1>8 DEF Answer, WatchShape
  <2>2. r \in Finding
    <3>1. Bounded(reply, pass[m].holds) \in Statuses
      BY DEF Bounded, Statuses
    <3> QED
      BY <2>1, <3>1, ReadingIsFinding DEF PassState
  <2>3. r.kind = "reading" /\ r.premise = pass[m].next /\ r.year = pass[m].year
    BY ReadingFields
  <2>4. \A i \in Of(r.premise) : findings[i].year < r.year
    BY <2>1, <2>3 DEF GateInv, Of
  <2> HIDE DEF r
  <2> QED
    BY <1>4, <2>1, <2>2, <2>3, <2>4, GateGrows
<1>9. ASSUME NEW m \in Monitors, pass' = [pass EXCEPT ![m] = NoPass]
      PROVE  \A n \in Monitors : pass'[n].at # "asking"
  BY <1>9 DEF OneMonitor, WatchShape, NoPass
<1>10. ASSUME NEW m \in Monitors, Refuse(m) PROVE Goal
  BY <1>9, <1>10, StoppedIsFinding, StoppedFields, GateGrows DEF Refuse
<1>11. ASSUME NEW m \in Monitors, FailPass(m) \/ Finish(m) PROVE Goal
  BY <1>2, <1>9, <1>11 DEF FailPass, Finish
<1>12. ASSUME NEW c \in Pages, ResolveFinding(c) PROVE Goal
  BY <1>12, GateStays DEF ResolveFinding
<1>13. Reset => Goal
  BY GateStays DEF Reset
<1>14. UNCHANGED <<findings, pass>> => Goal
  BY GateStays
<1>15. ASSUME NEW c \in Pages, NEW i \in DOMAIN findings, NEW act \in Acts, OpenForm(c, i, act)
       PROVE  Goal
  BY <1>14, <1>15 DEF OpenForm
<1>16. \A p \in Premises : Withdraw(p) => Goal
  BY <1>14 DEF Withdraw
<1>17. UNCHANGED watchVars => Goal
  BY <1>14 DEF watchVars
<1>18. WatchNext => Goal
  <2> HIDE DEF Goal
  <2> QED
    BY <1>1, <1>3, <1>5, <1>6, <1>7, <1>8, <1>10, <1>11, <1>12, <1>13, <1>15, <1>16, WatchCases
<1> QED
  BY <1>17, <1>18

(* One monitor at a time: a premise has one gate for a fiscal year, however *)
(* late its filings, whatever the passes before it and what people decide. *)
THEOREM YearsOpenOneGate == ASSUME OneMonitor PROVE WatchSpec => []OneGatePerYear
<1>1. WatchInit => GateInv
  BY DEF WatchInit, GateInv, NoPass
<1>2. WatchShape /\ GateInv => OneGatePerYear
  <2> SUFFICES ASSUME WatchShape, GateInv, NEW i \in DOMAIN findings, NEW j \in DOMAIN findings,
                      OpensGate(i), OpensGate(j), findings[i].premise = findings[j].premise,
                      findings[i].year = findings[j].year, i # j
               PROVE  FALSE
    BY DEF OneGatePerYear
  <2>1. Measures(i) /\ Measures(j)
    BY DEF GateInv, Measures, OpensGate
  <2>2. i < j \/ j < i
    BY DEF WatchShape
  <2>3. findings[i].year \in Int
    BY FindingFields
  <2> QED
    BY <2>1, <2>2, <2>3 DEF GateInv
<1>3. WatchShape /\ GateInv /\ [WatchNext]_watchVars => (WatchShape /\ GateInv)'
  BY ShapeStep, GateStep
<1> QED
  BY <1>1, <1>2, <1>3, ShapeInit, PTL DEF WatchSpec

-----------------------------------------------------------------------------
(* What a reading says of the figures it measured stands until one of them *)
(* is filed again after it; it ends on a day no later than the years it    *)
(* knows, and before those filed since.  Whoever runs passes, it is so of  *)
(* the findings and of what a pass has asked the model about.              *)
Says(p, year, against, to, held) ==
  /\ year \in Filed
  /\ p \in Growth => against \in Filed
  /\ \E z \in Filed : z <= year /\ to <= store[z].day
  /\ \A y \in Filed : year < y => to < store[y].day
  /\ (/\ held
      /\ store[year].day <= to
      /\ p \in Growth => store[against].day <= to)
     => store[year].figure >= IF p \in Growth THEN store[against].figure ELSE Floor

FindingSays(f) == Says(f.premise, f.year, f.against, f.to, f.status # "contradicted")
PassSays(s) == Says(s.next, s.year, s.against, s.to, s.holds)

SaysInv ==
  /\ \A i \in DOMAIN findings : Measures(i) => FindingSays(findings[i])
  /\ \A m \in Monitors : pass[m].at = "asking" => PassSays(pass[m])

LEMMA FilingsKeepSaying ==
  ASSUME WatchShape,
         NEW y \in Years, NEW figure \in Amounts, NEW day \in Days,
         File(y, figure, day) \/ Restate(y, figure, day),
         NEW p, NEW year, NEW against, NEW to \in Int, NEW held,
         Says(p, year, against, to, held)
  PROVE  Says(p, year, against, to, held)'
<1>1. /\ Filed \subseteq Years /\ Years \subseteq Int
      /\ \A z \in Filed : store[z].day \in Int /\ store[z].figure \in Int
      /\ day \in Int /\ day > 0
  BY StoreFacts, WatchAssumption
<1>2. store' = [store EXCEPT ![y] = [figure |-> figure, day |-> day]]
  BY DEF File, Restate
<1>3. /\ store'[y].day = day /\ store'[y].figure = figure
      /\ \A z \in Years : z # y => store'[z] = store[z]
  BY <1>2 DEF WatchShape
<1>4. Filed' = Filed \union {y}
  <2>1. store'[y] # Unfiled
    BY <1>1, <1>3 DEF Unfiled
  <2> QED
    BY <1>3, <2>1 DEF Filed
<1>5. /\ year \in Filed /\ (p \in Growth => against \in Filed)
      /\ \E z \in Filed : z <= year /\ to <= store[z].day
      /\ \A z \in Filed : year < z => to < store[z].day
  BY DEF Says
<1>6. PICK z \in Filed : z <= year /\ to <= store[z].day
  BY <1>5
<1>7. CASE y \notin Filed
  <2>1. \A x \in Filed : store'[x] = store[x]
    BY <1>1, <1>3, <1>7
  <2>2. \A x \in Filed : x < y => day > store[x].day
    BY <1>3, <1>7 DEF File, Restate
  <2>3. ASSUME year < y PROVE to < day
    <3>1. year \in Int /\ z \in Int /\ y \in Int /\ store[z].day \in Int
      BY <1>1, <1>5
    <3>2. z < y
      BY <1>6, <2>3, <3>1
    <3>3. store[z].day < day
      BY <1>1, <2>2, <3>1, <3>2
    <3> QED
      BY <1>1, <1>6, <3>1, <3>3
  <2>4. \A x \in Filed' : year < x => to < store'[x].day
    BY <1>3, <1>4, <1>5, <2>1, <2>3
  <2>5. \E x \in Filed' : x <= year /\ to <= store'[x].day
    BY <1>4, <1>6, <2>1
  <2> QED
    BY <1>4, <1>5, <2>1, <2>4, <2>5 DEF Says
<1>8. CASE y \in Filed
  <2>1. \A x \in Filed : day > store[x].day
    BY <1>8 DEF File, Restate, Filed
  <2>2. Filed' = Filed /\ \A x \in Filed : store'[x].day >= store[x].day
    BY <1>1, <1>3, <1>4, <1>8, <2>1
  <2>3. to < day
    BY <1>1, <1>6, <2>1
  <2>4. \A x \in Filed' : year < x => to < store'[x].day
    BY <1>1, <1>3, <1>5, <2>2, <2>3
  <2>5. \E x \in Filed' : x <= year /\ to <= store'[x].day
    <3>1. store'[z].day \in Int /\ store'[z].day >= store[z].day
      BY <1>1, <1>3, <1>6, <2>2
    <3> QED
      BY <1>1, <1>6, <2>2, <3>1
  <2>6. ASSUME store'[year].day <= to, p \in Growth => store'[against].day <= to
        PROVE  year # y /\ (p \in Growth => against # y)
    BY <1>1, <1>3, <2>3, <2>6
  <2>7. ASSUME held, store'[year].day <= to, p \in Growth => store'[against].day <= to
        PROVE  store'[year].figure >= IF p \in Growth THEN store'[against].figure ELSE Floor
    <3>1. store'[year] = store[year] /\ (p \in Growth => store'[against] = store[against])
      BY <1>1, <1>3, <1>5, <2>6, <2>7
    <3> QED
      BY <2>7, <3>1 DEF Says
  <2> QED
    BY <1>5, <2>2, <2>4, <2>5, <2>7 DEF Says
<1> QED
  BY <1>7, <1>8

LEMMA SaysStays ==
  ASSUME WatchShape, SaysInv, UNCHANGED store,
         UNCHANGED findings \/ Reset \/ \E c \in Pages : ResolveFinding(c),
         \A m \in Monitors : pass'[m].at = "asking" => pass'[m] = pass[m]
  PROVE  SaysInv'
<1>1. /\ DOMAIN findings' = DOMAIN findings
      /\ \A i \in DOMAIN findings : SameFinding(findings'[i], findings[i])
  BY Rewrites
<1>2. Filed' = Filed
  BY DEF Filed
<1>3. \A i \in DOMAIN findings : Measures(i)' = Measures(i)
  BY <1>1 DEF SameFinding, Measures
<1>4. \A i \in DOMAIN findings : Measures(i) => FindingSays(findings[i])'
  BY <1>1, <1>2 DEF SaysInv, FindingSays, Says, SameFinding
<1>5. \A m \in Monitors : pass'[m].at = "asking" => PassSays(pass[m])'
  BY <1>2 DEF SaysInv, PassSays, Says
<1> QED
  BY <1>1, <1>2, <1>3 DEF SaysInv, PassSays, FindingSays, Says, SameFinding

LEMMA SaysGrows ==
  ASSUME WatchShape, SaysInv, NEW r \in Finding, findings' = Append(findings, r),
         UNCHANGED store,
         r.kind = "reading" /\ r.status # "unobservable" => FindingSays(r),
         \A m \in Monitors : pass'[m].at = "asking" => pass'[m] = pass[m]
  PROVE  SaysInv'
<1>0. PICK n : n = Len(findings) + 1
  OBVIOUS
<1>1. /\ DOMAIN findings' = DOMAIN findings \union {n} /\ findings'[n] = r
      /\ \A i \in DOMAIN findings : findings'[i] = findings[i]
  BY <1>0, Appended
<1>2. Filed' = Filed
  BY DEF Filed
<1>3. \A i \in DOMAIN findings : Measures(i)' = Measures(i)
  BY <1>1 DEF Measures
<1>4. Measures(n)' => FindingSays(r)
  BY <1>1 DEF Measures
<1> QED
  BY <1>1, <1>2, <1>3, <1>4 DEF SaysInv, PassSays, FindingSays, Says

LEMMA SaysStep ==
  ASSUME WatchShape, SaysInv, [WatchNext]_watchVars PROVE SaysInv'
<1> DEFINE Goal == SaysInv'
<1>1. ASSUME NEW y \in Years, NEW figure \in Amounts, NEW day \in Days,
             File(y, figure, day) \/ Restate(y, figure, day)
      PROVE  Goal
  <2>1. pass' = Disturbed /\ UNCHANGED findings
    BY <1>1 DEF File, Restate
  <2>2. ASSUME NEW i \in DOMAIN findings, Measures(i) PROVE FindingSays(findings[i])'
    <3>1. PICK f : f = findings[i]
      OBVIOUS
    <3>2. Says(f.premise, f.year, f.against, f.to, f.status # "contradicted") /\ f.to \in Int
      BY <2>2, <3>1, FindingFields DEF SaysInv, FindingSays
    <3>3. Says(f.premise, f.year, f.against, f.to, f.status # "contradicted")'
      BY <1>1, <3>2, FilingsKeepSaying
    <3> QED
      BY <2>1, <3>1, <3>3 DEF FindingSays
  <2>3. ASSUME NEW m \in Monitors, pass[m].at = "asking" PROVE PassSays(pass[m])'
    <3>1. PICK s : s = pass[m]
      OBVIOUS
    <3>2. s.to \in Int
      <4>1. s.to \in Days \union {0}
        BY <3>1 DEF WatchShape, PassState
      <4>2. Days \union {0} \subseteq Int
        BY WatchAssumption
      <4> QED
        BY <4>1, <4>2
    <3>3. Says(s.next, s.year, s.against, s.to, s.holds)
      BY <2>3, <3>1 DEF SaysInv, PassSays
    <3>4. Says(s.next, s.year, s.against, s.to, s.holds)'
      BY <1>1, <3>2, <3>3, FilingsKeepSaying
    <3>5. /\ pass'[m].next = s.next /\ pass'[m].year = s.year /\ pass'[m].against = s.against
          /\ pass'[m].to = s.to /\ pass'[m].holds = s.holds
      BY <2>1, <2>3, <3>1, DisturbedFacts
    <3> QED
      BY <3>4, <3>5 DEF PassSays
  <2>4. \A m \in Monitors : pass'[m].at = pass[m].at
    BY <2>1, DisturbedFacts
  <2> QED
    BY <2>1, <2>2, <2>3, <2>4 DEF SaysInv, Measures
<1>2. ASSUME UNCHANGED <<store, findings>>,
             NEW m \in Monitors, \A n \in Monitors : n # m => pass'[n] = pass[n],
             pass'[m].at # "asking"
      PROVE  Goal
  BY <1>2, SaysStays
<1>3. ASSUME NEW m \in Monitors, BeginPass(m) PROVE Goal
  <2>1. pass'[m].at = "reading"
    BY <1>3 DEF BeginPass, WatchShape, NoPass
  <2> QED
    BY <1>2, <1>3, <2>1 DEF BeginPass
<1>4. ASSUME NEW m \in Monitors, pass' = OnTo(m), pass[m].next \in Premises
      PROVE  \A n \in Monitors : pass'[n].at = "asking" => pass'[n] = pass[n]
  BY <1>4, OnToIsState
<1>5. ASSUME NEW m \in Monitors, NEW p \in Premises, Pass(m, p) PROVE Goal
  BY <1>4, <1>5, SaysStays DEF Pass, Reads
<1>6. ASSUME NEW m \in Monitors, NEW p \in Premises, Unobservable(m, p) PROVE Goal
  <2> DEFINE r == Reading(p, "unobservable", 0, 0, WindowTo(p))
  <2>1. /\ Window(p) # {} /\ pass[m].next = p /\ findings' = Append(findings, r)
        /\ pass' = OnTo(m) /\ UNCHANGED store
    BY <1>6 DEF Unobservable, Reads, News
  <2>2. r \in Finding
    BY <2>1, WindowFacts, StoreFacts, ReadingIsFinding DEF Statuses
  <2>3. r.kind = "reading" /\ r.status = "unobservable"
    BY ReadingFields
  <2> HIDE DEF r
  <2> QED
    BY <1>4, <2>1, <2>2, <2>3, SaysGrows
<1>7. ASSUME NEW m \in Monitors, NEW p \in Premises, AskModel(m, p) PROVE Goal
  <2>1. /\ Window(p) # {} /\ Measurable(p) /\ pass[m].next = p /\ UNCHANGED <<store, findings>>
        /\ pass' = [pass EXCEPT ![m] = [@ EXCEPT !.at = "asking", !.holds = Holds(p),
                      !.year = Latest, !.against = YearBefore(p), !.to = WindowTo(p)]]
    BY <1>7 DEF AskModel, Reads, News
  <2>2. pass[m] \in PassState
    BY DEF WatchShape
  <2>3. /\ pass'[m].next = p /\ pass'[m].year = Latest /\ pass'[m].against = YearBefore(p)
        /\ pass'[m].to = WindowTo(p) /\ pass'[m].holds = Holds(p)
        /\ \A n \in Monitors : n # m => pass'[n] = pass[n]
    BY <2>1, <2>2 DEF WatchShape, PassState
  <2>4. Says(p, Latest, YearBefore(p), WindowTo(p), Holds(p))
    <3>1. Latest \in Filed /\ \A y \in Filed : y <= Latest /\ y \in Int
      BY <2>1, WindowFacts, StoreFacts, WatchAssumption
    <3>2. p \in Growth => YearBefore(p) = Prior /\ Prior \in Filed
      BY <2>1, StoreFacts DEF YearBefore, Measurable
    <3>3. PICK z \in Filed : WindowTo(p) = store[z].day
      BY <2>1, WindowFacts
    <3>4. z <= Latest /\ WindowTo(p) <= store[z].day
      BY <3>1, <3>3, StoreFacts
    <3>5. \A y \in Filed : ~(Latest < y)
      BY <3>1
    <3> QED
      BY <3>1, <3>2, <3>4, <3>5 DEF Says, Holds
  <2>5. Filed' = Filed
    BY <2>1 DEF Filed
  <2>6. Says(p, Latest, YearBefore(p), WindowTo(p), Holds(p)) => PassSays(pass'[m])
    BY <2>3 DEF PassSays
  <2>7. \A n \in Monitors : pass'[n].at = "asking" => PassSays(pass'[n])
    BY <2>3, <2>4, <2>6 DEF SaysInv
  <2>8. \A i \in DOMAIN findings : Measures(i)' = Measures(i)
    BY <2>1 DEF Measures
  <2> QED
    BY <2>1, <2>5, <2>7, <2>8 DEF SaysInv, PassSays, FindingSays, Says
<1>8. ASSUME NEW m \in Monitors, NEW reply \in Statuses, Answer(m, reply) PROVE Goal
  <2> DEFINE r == Reading(pass[m].next, Bounded(reply, pass[m].holds), pass[m].year,
                          pass[m].against, pass[m].to)
  <2>1. pass[m] \in PassState /\ pass[m].next \in Premises /\ pass[m].at = "asking"
        /\ findings' = Append(findings, r) /\ pass' = OnTo(m) /\ UNCHANGED store
    BY <1>8 DEF Answer, WatchShape
  <2>2. r \in Finding
    <3>1. Bounded(reply, pass[m].holds) \in Statuses
      BY DEF Bounded, Statuses
    <3> QED
      BY <2>1, <3>1, ReadingIsFinding DEF PassState
  <2>3. /\ r.premise = pass[m].next /\ r.year = pass[m].year /\ r.against = pass[m].against
        /\ r.to = pass[m].to /\ r.status = Bounded(reply, pass[m].holds)
    BY ReadingFields
  <2>4. r.status # "contradicted" => pass[m].holds
    BY <2>3 DEF Bounded
  <2>5. FindingSays(r)
    <3>1. Says(pass[m].next, pass[m].year, pass[m].against, pass[m].to, pass[m].holds)
      BY <2>1 DEF SaysInv, PassSays
    <3> HIDE DEF r
    <3> QED
      BY <2>3, <2>4, <3>1 DEF FindingSays, Says
  <2> HIDE DEF r
  <2> QED
    BY <1>4, <2>1, <2>2, <2>5, SaysGrows
<1>9. ASSUME NEW m \in Monitors, pass' = [pass EXCEPT ![m] = NoPass]
      PROVE  \A n \in Monitors : pass'[n].at = "asking" => pass'[n] = pass[n]
  BY <1>9 DEF WatchShape, NoPass
<1>10. ASSUME NEW m \in Monitors, Refuse(m) PROVE Goal
  BY <1>9, <1>10, StoppedIsFinding, StoppedFields, SaysGrows DEF Refuse
<1>11. ASSUME NEW m \in Monitors, FailPass(m) \/ Finish(m) PROVE Goal
  BY <1>9, <1>11, SaysStays DEF FailPass, Finish
<1>12. ASSUME NEW c \in Pages, ResolveFinding(c) PROVE Goal
  BY <1>12, SaysStays DEF ResolveFinding
<1>13. Reset => Goal
  BY SaysStays DEF Reset
<1>14. UNCHANGED <<store, findings, pass>> => Goal
  BY SaysStays
<1>15. ASSUME NEW c \in Pages, NEW i \in DOMAIN findings, NEW act \in Acts, OpenForm(c, i, act)
       PROVE  Goal
  BY <1>14, <1>15 DEF OpenForm
<1>16. \A p \in Premises : Withdraw(p) => Goal
  BY <1>14 DEF Withdraw
<1>17. UNCHANGED watchVars => Goal
  BY <1>14 DEF watchVars
<1>18. WatchNext => Goal
  <2> HIDE DEF Goal
  <2> QED
    BY <1>1, <1>3, <1>5, <1>6, <1>7, <1>8, <1>10, <1>11, <1>12, <1>13, <1>15, <1>16, WatchCases
<1> QED
  BY <1>17, <1>18

-----------------------------------------------------------------------------
(* A defeat is not missed.  What a pass that nothing disturbed has gone    *)
(* over is settled; and it has asked of the newest year, as the store has  *)
(* it.                                                                     *)
Settled(p) == Defeated(p) /\ ~Amended(p) => IsContradicted(p)

SettledInv ==
  \A m \in Monitors : pass[m].at # "off" /\ pass[m].quiet =>
    /\ \A p \in Premises \ pass[m].skips : p < pass[m].next => Settled(p)
    /\ pass[m].at = "asking" =>
         /\ pass[m].year = Latest
         /\ \A p \in Premises : p = pass[m].next /\ Defeated(p) => ~pass[m].holds

(* A premise with nothing new to read: either it has not been defeated, or *)
(* its last reading measured the newest year and said so.                  *)
LEMMA NoNewsIsSettled ==
  ASSUME WatchShape, SaysInv, NEW p \in Premises, ~News(p) PROVE Settled(p)
<1> SUFFICES ASSUME Defeated(p), ~Amended(p) PROVE IsContradicted(p)
  BY DEF Settled
<1>1. /\ Filed # {} /\ store[Latest].day > HeldOn /\ Measurable(p) /\ ~Holds(p)
      /\ Latest \in Filed /\ \A y \in Filed : y <= Latest
      /\ \A y \in Filed : y \in Int /\ store[y].day \in Int /\ store[y].figure \in Int
      /\ Latest \in Int /\ HeldOn \in Nat
  BY StoreFacts, WatchAssumption DEF Defeated
<1> DEFINE k == LastReading(p)
<1>2. CASE k = 0
  <2>1. Latest \in Window(p)
    BY <1>1, <1>2 DEF Window, ReadSince
  <2> QED
    BY <1>2, <2>1 DEF News
<1>3. CASE k # 0
  <2>1. k \in DOMAIN findings /\ Measures(k) /\ findings[k].premise = p
    BY <1>3, LastReadingIs DEF Of
  <2>2. Says(p, findings[k].year, findings[k].against, findings[k].to,
             findings[k].status # "contradicted")
    BY <2>1 DEF SaysInv, FindingSays
  <2>3. findings[k].year \in Filed /\ findings[k].year \in Int /\ findings[k].to \in Int
    BY <1>1, <2>1, <2>2, FindingFields DEF Says
  <2>4. CASE findings[k].year = Latest
    <3>1. /\ \A y \in Measured(p) : ~(store[y].day > findings[k].to)
          /\ findings[k].against = YearBefore(p)
      BY <1>3, <2>4 DEF Amended
    <3>2. /\ store[Latest].day <= findings[k].to
          /\ p \in Growth => Prior \in Filed /\ store[Prior].day <= findings[k].to
                             /\ findings[k].against = Prior
      <4>1. p \in Growth => Prior \in Filed
        BY <1>1, StoreFacts DEF Measurable
      <4>2. Latest \in Measured(p) /\ (p \in Growth => Prior \in Measured(p))
        BY DEF Measured
      <4>3. p \in Growth => YearBefore(p) = Prior
        BY DEF YearBefore
      <4>4. \A y \in Filed : y \in Measured(p) => store[y].day <= findings[k].to
        BY <1>1, <2>3, <3>1
      <4> HIDE DEF k
      <4> QED
        BY <1>1, <3>1, <4>1, <4>2, <4>3, <4>4
    <3>3. findings[k].status # "contradicted" => Holds(p)
      BY <2>2, <2>4, <3>2 DEF Says, Holds
    <3> HIDE DEF k
    <3> QED
      BY <1>1, <2>1, <2>4, <3>3 DEF IsContradicted, OpensGate
  <2>5. CASE findings[k].year # Latest
    <3>1. findings[k].year < Latest
      BY <1>1, <2>3, <2>5
    <3>2. findings[k].to < store[Latest].day
      BY <1>1, <2>2, <3>1 DEF Says
    <3>3. ReadSince(p) < store[Latest].day
      <4>1. ReadSince(p) = Max({HeldOn, findings[k].to})
        BY <1>3 DEF ReadSince
      <4>2. Max({HeldOn, findings[k].to}) \in {HeldOn, findings[k].to}
        <5>1. findings[k].to \in Nat
          <6>1. findings[k].to \in Days \union {0}
            BY <2>1, FindingFields DEF Finding
          <6>2. Days \union {0} \subseteq Nat
            BY WatchAssumption
          <6> QED
            BY <6>1, <6>2
        <5> QED
          BY <1>1, <5>1, MaxOfTwo
      <4> HIDE DEF k
      <4> QED
        BY <1>1, <3>2, <4>1, <4>2
    <3>4. Latest \in Window(p)
      BY <1>1, <3>3 DEF Window
    <3>5. Max(Window(p)) \in Filed /\ Max(Window(p)) \in Int /\ Latest <= Max(Window(p))
      BY <1>1, <3>4, WindowFacts
    <3>6. findings[k].year < Max(Window(p))
      BY <1>1, <2>3, <3>1, <3>5
    <3> HIDE DEF k
    <3> QED
      BY <3>4, <3>6 DEF News, k
  <2> QED
    BY <2>4, <2>5
<1> QED
  BY <1>2, <1>3

LEMMA DefeatStays ==
  ASSUME UNCHANGED store, NEW p
  PROVE  /\ Defeated(p)' = Defeated(p) /\ Latest' = Latest /\ YearBefore(p)' = YearBefore(p)
         /\ Measured(p)' = Measured(p)
BY DEF Defeated, Latest, Filed, Measurable, Holds, Prior, YearBefore, Measured

(* What is settled stays so, until its premise is measured again.          *)
LEMMA SettledStays ==
  ASSUME WatchShape, UNCHANGED store, NEW p, Settled(p),
         \A i \in DOMAIN findings : i \in DOMAIN findings' /\ SameFinding(findings'[i], findings[i]),
         \A i \in DOMAIN findings' : i \notin DOMAIN findings =>
           ~(/\ findings'[i].kind = "reading" /\ findings'[i].premise = p
             /\ findings'[i].status # "unobservable")
  PROVE  Settled(p)'
<1> DEFINE new == {i \in DOMAIN findings' : /\ findings'[i].kind = "reading"
                                            /\ findings'[i].premise = p
                                            /\ findings'[i].status # "unobservable"}
           old == {i \in DOMAIN findings : /\ findings[i].kind = "reading"
                                           /\ findings[i].premise = p
                                           /\ findings[i].status # "unobservable"}
<1>1. new = old
  BY DEF SameFinding
<1>2. LastReading(p)' = (IF new = {} THEN 0 ELSE Max(new))
  BY DEF LastReading
<1>3. LastReading(p) = (IF old = {} THEN 0 ELSE Max(old))
  BY DEF LastReading
<1>4. LastReading(p)' = LastReading(p)
  <2> HIDE DEF old, new
  <2> QED
    BY <1>1, <1>2, <1>3
<1>5. LastReading(p) # 0 => LastReading(p) \in DOMAIN findings
  BY LastReadingIs DEF Of
<1> DEFINE k == LastReading(p)
<1>6. k # 0 => /\ findings'[k].year = findings[k].year /\ findings'[k].to = findings[k].to
               /\ findings'[k].against = findings[k].against
  BY <1>5 DEF SameFinding
<1>7. Amended(p) => Amended(p)'
  BY <1>4, <1>6, DefeatStays DEF Amended
<1>8. IsContradicted(p) => IsContradicted(p)'
  BY DefeatStays DEF IsContradicted, OpensGate, SameFinding
<1>9. Defeated(p)' => Defeated(p)
  BY DefeatStays
<1> QED
  BY <1>7, <1>8, <1>9 DEF Settled

LEMMA SettledStep ==
  ASSUME OneMonitor, WatchShape, SaysInv, SettledInv, [WatchNext]_watchVars PROVE SettledInv'
<1> DEFINE Goal == SettledInv'
<1>1. ASSUME NEW y \in Years, NEW figure \in Amounts, NEW day \in Days,
             File(y, figure, day) \/ Restate(y, figure, day)
      PROVE  Goal
  <2>1. pass' = Disturbed
    BY <1>1 DEF File, Restate
  <2> QED
    BY <2>1, DisturbedFacts DEF SettledInv
<1>2. ASSUME NEW m \in Monitors, pass'[m].at = "off" PROVE Goal
  BY <1>2 DEF OneMonitor, SettledInv
<1>3. ASSUME NEW m \in Monitors, BeginPass(m) PROVE Goal
  <2>1. pass'[m].at = "reading" /\ pass'[m].next = 1
    BY <1>3 DEF BeginPass, WatchShape, NoPass
  <2>2. \A p \in Premises : ~(p < 1)
    BY SomePremises
  <2> QED
    BY <2>1, <2>2 DEF OneMonitor, SettledInv
<1>4. ASSUME NEW m \in Monitors, NEW p \in Premises, pass[m].next = p, pass[m].at # "off",
             pass' = OnTo(m), UNCHANGED store,
             \A i \in DOMAIN findings : i \in DOMAIN findings' /\ SameFinding(findings'[i], findings[i]),
             \A i \in DOMAIN findings' : i \notin DOMAIN findings =>
               \/ findings'[i].premise = p
               \/ findings'[i].kind # "reading" \/ findings'[i].status = "unobservable",
             pass[m].quiet /\ p \notin pass[m].skips => Settled(p)'
      PROVE  Goal
  <2>1. /\ pass'[m].at = "reading" /\ pass'[m].next = p + 1
        /\ pass'[m].skips = pass[m].skips /\ pass'[m].quiet = pass[m].quiet
    BY <1>4, OnToIsState
  <2>2. ASSUME pass[m].quiet, NEW q \in Premises \ pass[m].skips, q < p + 1 PROVE Settled(q)'
    <3>1. q = p \/ q < p
      BY <2>2, SomePremises
    <3>2. CASE q = p
      BY <1>4, <2>2, <3>2
    <3>3. CASE q < p /\ q # p
      <4>1. Settled(q)
        BY <1>4, <2>2, <3>3 DEF SettledInv
      <4> QED
        BY <1>4, <3>3, <4>1, SettledStays
    <3> QED
      BY <3>1, <3>2, <3>3
  <2> QED
    BY <2>1, <2>2 DEF OneMonitor, SettledInv
<1>5. UNCHANGED findings =>
        \A i \in DOMAIN findings : i \in DOMAIN findings' /\ SameFinding(findings'[i], findings[i])
  BY DEF SameFinding
<1>6. ASSUME NEW m \in Monitors, NEW p \in Premises, Pass(m, p) PROVE Goal
  <2>1. /\ pass[m].next = p /\ pass[m].at # "off" /\ pass' = OnTo(m)
        /\ UNCHANGED store /\ UNCHANGED findings /\ (p \in pass[m].skips \/ ~News(p))
    BY <1>6 DEF Pass, Reads
  <2>2. p \notin pass[m].skips => Settled(p)
    BY <2>1, NoNewsIsSettled
  <2>3. p \notin pass[m].skips => Settled(p)'
    BY <1>5, <2>1, <2>2, SettledStays
  <2> QED
    BY <1>4, <1>5, <2>1, <2>3
<1>7. ASSUME NEW m \in Monitors, NEW p \in Premises, Unobservable(m, p) PROVE Goal
  <2> DEFINE r == Reading(p, "unobservable", 0, 0, WindowTo(p))
  <2>1. /\ Window(p) # {} /\ ~Measurable(p) /\ findings' = Append(findings, r)
        /\ pass[m].next = p /\ pass[m].at # "off" /\ pass' = OnTo(m) /\ UNCHANGED store
    BY <1>7 DEF Unobservable, Reads, News
  <2>2. r \in Finding
    BY <2>1, WindowFacts, StoreFacts, ReadingIsFinding DEF Statuses
  <2>3. r.kind = "reading" /\ r.status = "unobservable"
    BY ReadingFields
  <2> HIDE DEF r
  <2>4. /\ \A i \in DOMAIN findings : i \in DOMAIN findings' /\ SameFinding(findings'[i], findings[i])
        /\ \A i \in DOMAIN findings' : i \notin DOMAIN findings => findings'[i] = r
    BY <2>1, <2>2, Appended DEF SameFinding
  <2>5. Settled(p)'
    BY <2>1, DefeatStays DEF Settled, Defeated
  <2> QED
    BY <1>4, <2>1, <2>3, <2>4, <2>5
<1>8. ASSUME NEW m \in Monitors, NEW p \in Premises, AskModel(m, p) PROVE Goal
  <2>1. /\ pass[m].next = p /\ pass[m].at # "off" /\ UNCHANGED store /\ UNCHANGED findings
        /\ pass' = [pass EXCEPT ![m] = [@ EXCEPT !.at = "asking", !.holds = Holds(p),
                      !.year = Latest, !.against = YearBefore(p), !.to = WindowTo(p)]]
    BY <1>8 DEF AskModel, Reads
  <2>2. pass[m] \in PassState
    BY DEF WatchShape
  <2>3. /\ pass'[m].next = p /\ pass'[m].year = Latest /\ pass'[m].holds = Holds(p)
        /\ pass'[m].skips = pass[m].skips /\ pass'[m].quiet = pass[m].quiet
    BY <2>1, <2>2 DEF WatchShape, PassState
  <2>4. ASSUME pass[m].quiet, NEW q \in Premises \ pass[m].skips, q < p PROVE Settled(q)'
    BY <1>5, <2>1, <2>4, SettledStays DEF SettledInv
  <2>5. Latest' = Latest /\ (Defeated(p)' => ~Holds(p))
    BY <2>1, DefeatStays DEF Defeated
  <2> QED
    BY <2>3, <2>4, <2>5 DEF OneMonitor, SettledInv
<1>9. ASSUME NEW m \in Monitors, NEW reply \in Statuses, Answer(m, reply) PROVE Goal
  <2>0. PICK p \in Premises : p = pass[m].next
    BY <1>9 DEF Answer, WatchShape
  <2> DEFINE r == Reading(p, Bounded(reply, pass[m].holds), pass[m].year,
                          pass[m].against, pass[m].to)
  <2>1. pass[m] \in PassState /\ pass[m].at = "asking" /\ findings' = Append(findings, r)
        /\ pass' = OnTo(m) /\ UNCHANGED store
    BY <1>9, <2>0 DEF Answer, WatchShape
  <2>2. r \in Finding
    <3>1. Bounded(reply, pass[m].holds) \in Statuses
      BY DEF Bounded, Statuses
    <3> QED
      BY <2>1, <3>1, ReadingIsFinding DEF PassState
  <2>3. r.premise = p /\ r.year = pass[m].year /\ (~pass[m].holds => r.status = "contradicted")
    BY ReadingFields DEF Bounded
  <2> HIDE DEF r
  <2>4. /\ \A i \in DOMAIN findings : i \in DOMAIN findings' /\ SameFinding(findings'[i], findings[i])
        /\ \A i \in DOMAIN findings' : i \notin DOMAIN findings => findings'[i] = r
        /\ \E i \in DOMAIN findings' : findings'[i] = r
    BY <2>1, <2>2, Appended DEF SameFinding
  <2>5. ASSUME pass[m].quiet PROVE Settled(p)'
    <3>1. pass[m].year = Latest /\ (Defeated(p) => ~pass[m].holds)
      BY <2>0, <2>1, <2>5 DEF SettledInv
    <3>2. Latest' = Latest /\ Defeated(p)' = Defeated(p)
      BY <2>1, DefeatStays
    <3>3. Defeated(p) => IsContradicted(p)'
      BY <2>3, <2>4, <3>1, <3>2 DEF IsContradicted, OpensGate
    <3> QED
      BY <3>2, <3>3 DEF Settled
  <2> QED
    BY <1>4, <2>0, <2>1, <2>3, <2>4, <2>5
<1>10. ASSUME NEW m \in Monitors, Refuse(m) \/ FailPass(m) \/ Finish(m) PROVE Goal
  <2>1. pass'[m].at = "off"
    BY <1>10 DEF Refuse, FailPass, Finish, WatchShape, NoPass
  <2> QED
    BY <1>2, <2>1
<1>11. ASSUME UNCHANGED store, UNCHANGED pass,
              \A i \in DOMAIN findings : i \in DOMAIN findings' /\ SameFinding(findings'[i], findings[i]),
              DOMAIN findings' = DOMAIN findings
       PROVE  Goal
  <2>1. \A p : Settled(p) => Settled(p)'
    BY <1>11, SettledStays
  <2>2. Latest' = Latest /\ \A p : Defeated(p)' = Defeated(p)
    BY <1>11, DefeatStays
  <2> QED
    BY <1>11, <2>1, <2>2 DEF SettledInv
<1>12. ASSUME NEW c \in Pages, ResolveFinding(c) PROVE Goal
  BY <1>11, <1>12, Rewrites DEF ResolveFinding
<1>13. ASSUME Reset PROVE Goal
  BY <1>11, <1>13, Rewrites DEF Reset
<1>14. ASSUME UNCHANGED store, UNCHANGED pass, UNCHANGED findings PROVE Goal
  BY <1>5, <1>11, <1>14
<1>15. ASSUME NEW c \in Pages, NEW i \in DOMAIN findings, NEW act \in Acts, OpenForm(c, i, act)
       PROVE  Goal
  BY <1>14, <1>15 DEF OpenForm
<1>16. \A p \in Premises : Withdraw(p) => Goal
  BY <1>14 DEF Withdraw
<1>17. UNCHANGED watchVars => Goal
  BY <1>14 DEF watchVars
<1>18. WatchNext => Goal
  <2> HIDE DEF Goal
  <2> QED
    BY <1>1, <1>3, <1>6, <1>7, <1>8, <1>9, <1>10, <1>12, <1>13, <1>15, <1>16, WatchCases
<1> QED
  BY <1>17, <1>18

(* One monitor at a time: a pass that ends well, no figure having arrived  *)
(* under way, leaves no defeat without its contradicted finding.           *)
THEOREM DefeatsAreFound == ASSUME OneMonitor PROVE WatchSpec => DefeatIsNotMissed
<1> DEFINE Found == \A m \in Monitors : Undisturbed(m) =>
              \A p \in Premises \ pass[m].skips :
                Defeated(p) /\ ~Amended(p) => IsContradicted(p)
           Inv == WatchShape /\ SaysInv /\ SettledInv
<1>1. ASSUME Inv PROVE Found
  <2> SUFFICES ASSUME NEW m \in Monitors, Undisturbed(m), NEW p \in Premises \ pass[m].skips
               PROVE  Settled(p)
    BY DEF Settled
  <2>1. pass[m].at = "reading" /\ pass[m].next \notin Premises /\ pass[m].quiet
    BY DEF Undisturbed, Finish
  <2>2. p < pass[m].next
    <3>1. pass[m].next \in 0..(Cardinality(Premises) + 1) /\ pass[m].next # 0
      BY <1>1, <2>1 DEF WatchShape, PassState
    <3> QED
      BY <2>1, <3>1, SomePremises
  <2> QED
    BY <1>1, <2>1, <2>2 DEF SettledInv
<1>2. WatchInit => Inv
  BY ShapeInit DEF WatchInit, SaysInv, SettledInv, NoPass
<1>3. ASSUME Inv, [WatchNext]_watchVars PROVE Inv'
  BY <1>3, ShapeStep, SaysStep, SettledStep
<1>4. ASSUME Inv, [WatchNext]_watchVars PROVE [Found]_watchVars
  BY <1>1, <1>4
<1> QED
  BY <1>2, <1>3, <1>4, PTL DEF WatchSpec, DefeatIsNotMissed

-----------------------------------------------------------------------------
(* Book: the splits.                                                       *)

(* What the splits of a set of rows are splits of.                         *)
Derived(rows) == {[day |-> row.day, ratio |-> row.of] : row \in SplitsOf(rows)}

OnePerDay(S) == \A a, b \in S : a.day = b.day => a = b

(* A recorder at work on a trade while no other is: it brings the splits   *)
(* that the book has no row of.  One at work on a split brings one row, to *)
(* a book that has any.                                                    *)
BringsTheMissing(k) ==
  /\ recorder[k].does = "trade" => /\ recorder[k].action = {}
                                   /\ Derived(recorder[k].rows) = {a \in actions : ~HasRowOf(a)}
  /\ recorder[k].does = "split" => /\ recorder[k].rows = SplitsOf(recorder[k].rows)
                                   /\ Derived(recorder[k].rows) =
                                        IF book = {} THEN {} ELSE recorder[k].action

RecorderShape ==
  /\ actions \subseteq Action
  /\ recorder = [k \in Recorders |-> recorder[k]]
  /\ \A k \in Recorders : recorder[k] # Rest =>
       /\ recorder[k].does \in {"trade", "split"}
       /\ recorder[k].action \subseteq Action /\ OnePerDay(recorder[k].action)
       /\ OnePerDay(SplitsOf(recorder[k].rows))

SplitsInv ==
  /\ OnePerDay(SplitsOf(book)) /\ OnePerDay(actions)
  /\ RecorderShape
  /\ ~crossed =>
       /\ \A k, l \in Recorders : recorder[k] # Rest /\ recorder[l] # Rest => k = l
       /\ \A k \in Recorders : recorder[k] # Rest => BringsTheMissing(k)
       /\ Derived(book) \subseteq actions
       /\ Traded => Derived(book) = actions

LEMMA SplitsInit == BookInit => SplitsInv
BY DEF BookInit, SplitsInv, OnePerDay, SplitsOf, RecorderShape, Derived, Traded

(* The rows of a split are one, and of that split.                         *)
LEMMA SplitRows ==
  ASSUME NEW S, S \subseteq Action
  PROVE  /\ SplitsOf({SplitRow(a) : a \in S}) = {SplitRow(a) : a \in S}
         /\ Derived({SplitRow(a) : a \in S}) = S
         /\ OnePerDay(S) => OnePerDay({SplitRow(a) : a \in S})
<1>1. \A a \in S : /\ SplitRow(a).kind = "split" /\ SplitRow(a).day = a.day /\ SplitRow(a).of = a.ratio
                   /\ a = [day |-> a.day, ratio |-> a.ratio]
  BY DEF SplitRow, Action
<1>2. SplitsOf({SplitRow(a) : a \in S}) = {SplitRow(a) : a \in S}
  BY <1>1 DEF SplitsOf
<1>3. Derived({SplitRow(a) : a \in S}) = S
  <2> DEFINE T == {SplitRow(a) : a \in S}
  <2>1. ASSUME NEW row \in T PROVE [day |-> row.day, ratio |-> row.of] \in S
    BY <1>1
  <2>2. ASSUME NEW a \in S PROVE \E row \in T : a = [day |-> row.day, ratio |-> row.of]
    BY <1>1
  <2>3. Derived(T) = {[day |-> row.day, ratio |-> row.of] : row \in T}
    BY <1>2 DEF Derived
  <2> HIDE DEF T
  <2>4. Derived(T) \subseteq S
    BY <2>1, <2>3
  <2>5. S \subseteq Derived(T)
    BY <2>2, <2>3
  <2>6. Derived(T) = S
    BY <2>4, <2>5
  <2> QED
    BY <2>6 DEF T
<1>4. OnePerDay(S) => OnePerDay({SplitRow(a) : a \in S})
  BY <1>1 DEF OnePerDay
<1> QED
  BY <1>2, <1>3, <1>4

LEMMA DerivedFacts ==
  ASSUME NEW R, NEW T
  PROVE  /\ SplitsOf(R \union T) = SplitsOf(R) \union SplitsOf(T)
         /\ Derived(R \union T) = Derived(R) \union Derived(T)
BY DEF SplitsOf, Derived

LEMMA WorkBegins ==
  ASSUME SplitsInv, NEW k \in Recorders, NEW work, BeginWork(k, work),
         work # Rest, work.does \in {"trade", "split"},
         work.action \subseteq Action, OnePerDay(work.action), OnePerDay(SplitsOf(work.rows)),
         work.does = "trade" => /\ work.action = {}
                                /\ Derived(work.rows) = {a \in actions : ~HasRowOf(a)},
         work.does = "split" => /\ work.rows = SplitsOf(work.rows)
                                /\ Derived(work.rows) = IF book = {} THEN {} ELSE work.action
  PROVE  SplitsInv'
<1>1. /\ recorder' = [recorder EXCEPT ![k] = work] /\ book' = book /\ actions' = actions
      /\ crossed' = (crossed \/ \E l \in Recorders : recorder[l] # Rest)
  BY DEF BeginWork
<1>2. /\ recorder'[k] = work
      /\ \A l \in Recorders : l # k => recorder'[l] = recorder[l]
      /\ recorder' = [l \in Recorders |-> recorder'[l]]
  BY <1>1 DEF SplitsInv, RecorderShape
<1>3. RecorderShape'
  BY <1>1, <1>2 DEF SplitsInv, RecorderShape
<1>4. /\ (OnePerDay(SplitsOf(book)) /\ OnePerDay(actions))'
      /\ Derived(book)' = Derived(book) /\ (Traded' <=> Traded)
      /\ \A a : HasRowOf(a)' <=> HasRowOf(a)
  BY <1>1 DEF SplitsInv, Derived, SplitsOf, Traded, HasRowOf
<1>5. ASSUME ~crossed'
      PROVE  /\ \A l \in Recorders : recorder'[l] # Rest => l = k
             /\ BringsTheMissing(k)'
             /\ (Derived(book) \subseteq actions)'
             /\ (Traded => Derived(book) = actions)'
  <2>1. ~crossed /\ \A l \in Recorders : recorder[l] = Rest
    BY <1>1, <1>5
  <2>2. Derived(work.rows)' = Derived(work.rows) /\ SplitsOf(work.rows)' = SplitsOf(work.rows)
    BY DEF Derived, SplitsOf
  <2>3. BringsTheMissing(k)'
    BY <1>1, <1>2, <1>4 DEF BringsTheMissing, Derived, SplitsOf
  <2> QED
    BY <1>1, <1>2, <1>4, <2>1, <2>3 DEF SplitsInv
<1> QED
  BY <1>3, <1>4, <1>5, <1>2 DEF SplitsInv

LEMMA TradeBegins ==
  ASSUME SplitsInv, NEW k \in Recorders, NEW kind \in {"buy", "sell", "dividend"},
         NEW day, NEW lot, RecordTransaction(k, kind, day, lot)
  PROVE  SplitsInv'
<1> DEFINE New == {a \in actions : ~HasRowOf(a)}
<1>1. PICK tie : BeginWork(k, [does |-> "trade", action |-> {},
                               rows |-> {[kind |-> kind, day |-> day, of |-> lot,
                                          at |-> recorded + 1, tie |-> tie]} \union Missing])
  BY DEF RecordTransaction
<1> DEFINE trade == [kind |-> kind, day |-> day, of |-> lot, at |-> recorded + 1, tie |-> tie]
           work == [does |-> "trade", action |-> {}, rows |-> {trade} \union Missing]
<1>2. Missing = {SplitRow(a) : a \in New}
  BY DEF Missing
<1>3. New \subseteq Action /\ OnePerDay(New)
  BY DEF SplitsInv, RecorderShape, OnePerDay
<1>4. SplitsOf(Missing) = Missing /\ Derived(Missing) = New /\ OnePerDay(Missing)
  <2> HIDE DEF New
  <2> QED
    BY <1>2, <1>3, SplitRows
<1>5. SplitsOf({trade}) = {} /\ Derived({trade}) = {}
  BY DEF SplitsOf, Derived
<1>6. SplitsOf(work.rows) = Missing /\ Derived(work.rows) = New
  <2>1. work.rows = {trade} \union Missing
    OBVIOUS
  <2> HIDE DEF work, trade, New
  <2>2. /\ SplitsOf(work.rows) = SplitsOf({trade}) \union SplitsOf(Missing)
        /\ Derived(work.rows) = Derived({trade}) \union Derived(Missing)
    BY <2>1, DerivedFacts
  <2> QED
    BY <1>4, <1>5, <2>2
<1>7. work # Rest /\ work.does = "trade" /\ work.action = {}
  BY DEF Rest
<1>8. BeginWork(k, work)
  BY <1>1
<1>9. OnePerDay({})
  BY DEF OnePerDay
<1> HIDE DEF work
<1> QED
  BY <1>4, <1>6, <1>7, <1>8, <1>9, WorkBegins

LEMMA SplitBegins ==
  ASSUME SplitsInv, NEW k \in Recorders, NEW action \in Action, RecordAction(k, action)
  PROVE  SplitsInv'
<1> DEFINE work == [does |-> "split", action |-> {action},
                    rows |-> IF book = {} THEN {} ELSE {SplitRow(action)}]
<1>1. BeginWork(k, work)
  BY DEF RecordAction
<1>2. {SplitRow(action)} = {SplitRow(a) : a \in {action}}
  OBVIOUS
<1>3. OnePerDay({action}) /\ OnePerDay({}) /\ SplitsOf({}) = {} /\ Derived({}) = {}
  BY DEF OnePerDay, SplitsOf, Derived
<1>4. /\ SplitsOf({SplitRow(action)}) = {SplitRow(action)}
      /\ Derived({SplitRow(action)}) = {action}
      /\ OnePerDay({SplitRow(action)})
  BY <1>2, <1>3, SplitRows
<1>5. /\ OnePerDay(SplitsOf(work.rows)) /\ work.rows = SplitsOf(work.rows)
      /\ Derived(work.rows) = IF book = {} THEN {} ELSE work.action
  BY <1>3, <1>4
<1>6. work # Rest /\ work.does = "split" /\ work.action \subseteq Action /\ OnePerDay(work.action)
  BY <1>3 DEF Rest
<1> HIDE DEF work
<1> QED
  BY <1>1, <1>5, <1>6, WorkBegins

LEMMA RecordCommits ==
  ASSUME SplitsInv, NEW k \in Recorders, CommitRecord(k)
  PROVE  SplitsInv'
<1> DEFINE R == recorder[k].rows
           A == recorder[k].action
<1>1. /\ book' = book \union R /\ actions' = actions \union A
      /\ recorder' = [recorder EXCEPT ![k] = Rest] /\ crossed' = crossed
      /\ recorder[k] # Rest
      /\ \A row \in R : row.kind = "split" => ~HasRowOf(row)
      /\ \A a \in A, b \in actions : a.day # b.day
  BY DEF CommitRecord, Clashes
<1>2. /\ recorder'[k] = Rest
      /\ \A l \in Recorders : l # k => recorder'[l] = recorder[l]
      /\ recorder' = [l \in Recorders |-> recorder'[l]]
  BY <1>1 DEF SplitsInv, RecorderShape
<1>3. /\ A \subseteq Action /\ OnePerDay(A) /\ OnePerDay(SplitsOf(R))
      /\ recorder[k].does \in {"trade", "split"}
  BY <1>1 DEF SplitsInv, RecorderShape
<1>4. RecorderShape'
  BY <1>1, <1>2, <1>3 DEF SplitsInv, RecorderShape
<1>5. /\ SplitsOf(book)' = SplitsOf(book) \union SplitsOf(R)
      /\ Derived(book)' = Derived(book) \union Derived(R)
  <2> HIDE DEF R
  <2> QED
    BY <1>1, DerivedFacts DEF Derived, SplitsOf
<1>6. OnePerDay(SplitsOf(book))'
  <2>1. \A a \in SplitsOf(book), b \in SplitsOf(R) : a.day # b.day
    BY <1>1 DEF SplitsOf, HasRowOf
  <2> HIDE DEF R
  <2>2. OnePerDay(SplitsOf(book) \union SplitsOf(R))
    BY <1>3, <2>1 DEF OnePerDay, SplitsInv
  <2> QED
    BY <1>5, <2>2 DEF OnePerDay
<1>7. OnePerDay(actions)'
  <2> HIDE DEF A
  <2> QED
    BY <1>1, <1>3 DEF OnePerDay, SplitsInv
<1>8. ASSUME ~crossed'
      PROVE  /\ \A l \in Recorders : recorder'[l] = Rest
             /\ (Derived(book) \subseteq actions)'
             /\ (Traded => Derived(book) = actions)'
  <2>1. /\ \A l \in Recorders : recorder[l] # Rest => l = k
        /\ BringsTheMissing(k)
        /\ Derived(book) \subseteq actions
        /\ Traded => Derived(book) = actions
    BY <1>1, <1>8 DEF SplitsInv
  <2>2. CASE recorder[k].does = "trade"
    <3>1. A = {} /\ Derived(R) = {a \in actions : ~HasRowOf(a)}
      BY <2>1, <2>2 DEF BringsTheMissing
    <3>2. ASSUME NEW a \in actions, HasRowOf(a) PROVE a \in Derived(book)
      <4>1. PICK row \in book : row.kind = "split" /\ row.day = a.day
        BY <3>2 DEF HasRowOf
      <4> DEFINE b == [day |-> row.day, ratio |-> row.of]
      <4>2. b \in Derived(book)
        BY <4>1 DEF Derived, SplitsOf
      <4>3. b.day = a.day
        BY <4>1
      <4> HIDE DEF b
      <4>4. a = b
        BY <2>1, <4>2, <4>3 DEF OnePerDay, SplitsInv
      <4> QED
        BY <4>2, <4>4
    <3>3. Derived(book)' = actions
      <4> HIDE DEF R
      <4> QED
        BY <1>5, <2>1, <3>1, <3>2
    <3>4. actions' = actions
      BY <1>1, <3>1
    <3> QED
      BY <1>2, <2>1, <3>3, <3>4
  <2>3. CASE recorder[k].does = "split"
    <3>1. R = SplitsOf(R) /\ Derived(R) = (IF book = {} THEN {} ELSE A)
      BY <2>1, <2>3 DEF BringsTheMissing
    <3>2. CASE book = {}
      <4>1. book' = SplitsOf(book)'
        <5>1. SplitsOf(book) = {}
          BY <3>2 DEF SplitsOf
        <5> HIDE DEF R
        <5> QED
          BY <1>1, <1>5, <3>1, <3>2, <5>1
      <4>2. ~Traded'
        BY <4>1 DEF Traded
      <4>3. Derived(book)' = Derived(book)
        BY <1>5, <3>1, <3>2
      <4> HIDE DEF A
      <4> QED
        BY <1>1, <1>2, <2>1, <4>2, <4>3
    <3>3. CASE book # {}
      <4>1. Derived(book)' = Derived(book) \union A
        BY <1>5, <3>1, <3>3
      <4>2. Traded' => Traded
        <5> HIDE DEF R
        <5> QED
          BY <1>1, <1>5, <3>1 DEF Traded
      <4> HIDE DEF A
      <4> QED
        BY <1>1, <1>2, <2>1, <4>1, <4>2
    <3> QED
      BY <3>2, <3>3
  <2> QED
    BY <1>3, <2>2, <2>3
<1> QED
  BY <1>1, <1>2, <1>4, <1>6, <1>7, <1>8 DEF SplitsInv

LEMMA RecordFails ==
  ASSUME SplitsInv, NEW k \in Recorders, FailRecord(k)
  PROVE  SplitsInv'
<1>1. /\ recorder' = [recorder EXCEPT ![k] = Rest]
      /\ UNCHANGED <<book, actions, crossed>>
  BY DEF FailRecord
<1>2. /\ recorder'[k] = Rest
      /\ \A l \in Recorders : l # k => recorder'[l] = recorder[l]
      /\ recorder' = [l \in Recorders |-> recorder'[l]]
  BY <1>1 DEF SplitsInv, RecorderShape
<1>3. RecorderShape'
  BY <1>1, <1>2 DEF SplitsInv, RecorderShape
<1>4. /\ OnePerDay(SplitsOf(book))' /\ OnePerDay(actions)'
      /\ Derived(book)' = Derived(book) /\ (Traded' <=> Traded)
      /\ \A a : HasRowOf(a)' <=> HasRowOf(a)
  BY <1>1 DEF SplitsInv, OnePerDay, Derived, SplitsOf, Traded, HasRowOf
<1>5. \A l \in Recorders : l # k /\ BringsTheMissing(l) => BringsTheMissing(l)'
  BY <1>1, <1>2, <1>4 DEF BringsTheMissing, Derived, SplitsOf
<1> QED
  BY <1>1, <1>2, <1>3, <1>4, <1>5 DEF SplitsInv

LEMMA BookStays ==
  ASSUME SplitsInv, UNCHANGED <<book, actions, recorder, crossed>> PROVE SplitsInv'
BY DEF SplitsInv, RecorderShape, BringsTheMissing, OnePerDay, Derived, SplitsOf, Traded, HasRowOf

LEMMA SplitsStep == SplitsInv /\ [BookNext]_bookVars => SplitsInv'
<1> SUFFICES ASSUME SplitsInv, [BookNext]_bookVars PROVE SplitsInv'
  OBVIOUS
<1>1. ASSUME NEW k \in Recorders, NEW kind \in {"buy", "sell", "dividend"}, NEW day \in Dates,
             NEW lot \in Lots, RecordTransaction(k, kind, day, lot)
      PROVE  SplitsInv'
  BY <1>1, TradeBegins
<1>2. ASSUME NEW k \in Recorders, NEW action \in Action, RecordAction(k, action) PROVE SplitsInv'
  BY <1>2, SplitBegins
<1>3. ASSUME NEW k \in Recorders, CommitRecord(k) PROVE SplitsInv'
  BY <1>3, RecordCommits
<1>4. ASSUME NEW k \in Recorders, FailRecord(k) PROVE SplitsInv'
  BY <1>4, RecordFails
<1>5. ASSUME NEW day \in Dates, RunReview(day) PROVE SplitsInv'
  <2>1. UNCHANGED <<book, actions, recorder, crossed>>
    BY <1>5 DEF RunReview
  <2> QED
    BY <2>1, BookStays
<1>6. ASSUME NEW e \in proposals, ConfirmReview(e) PROVE SplitsInv'
  <2>1. UNCHANGED <<book, actions, recorder, crossed>>
    BY <1>6 DEF ConfirmReview
  <2> QED
    BY <2>1, BookStays
<1>7. CASE UNCHANGED bookVars
  BY <1>7, BookStays DEF bookVars
<1> QED
  BY <1>1, <1>2, <1>3, <1>4, <1>5, <1>6, <1>7 DEF BookNext

(* Whatever the dates, ratios and recorders, a split of a date multiplies  *)
(* the book once, and unless two recorders were at work at once a book     *)
(* with trades has exactly the splits the feed has brought (ensure_for,    *)
(* derive_for_action).                                                     *)
THEOREM SplitsReachTheBook == BookSpec => []SplitsArrive
<1>1. SplitsInv => SplitsArrive
  BY DEF SplitsInv, SplitsArrive, OnePerDay, Derived
<1> QED
  BY <1>1, SplitsInit, SplitsStep, PTL DEF BookSpec

-----------------------------------------------------------------------------
(* Book: the order of the rows.                                            *)

(* Rows that the order tells apart: no two have all its keys in common.    *)
Ordered(R) ==
  /\ IsFiniteSet(R)
  /\ \A a \in R : a.day \in Int /\ a.at \in Int /\ a.tie \in Int
  /\ \A a, b \in R : a.day = b.day /\ a.at = b.at /\ a.tie = b.tie => a = b

Earlier(R, row) == {r \in R : ComesFirst(r, row)}
PlaceOf(R, row) == Cardinality(Earlier(R, row)) + 1

LEMMA OrderFacts ==
  ASSUME NEW R, Ordered(R)
  PROVE  /\ \A a \in R : ~ComesFirst(a, a)
         /\ \A a, b \in R : a = b \/ ComesFirst(a, b) \/ ComesFirst(b, a)
         /\ \A a, b \in R : ComesFirst(a, b) => ~ComesFirst(b, a)
         /\ \A a, b, c \in R : ComesFirst(a, b) /\ ComesFirst(b, c) => ComesFirst(a, c)
<1>1. \A a \in R : ~ComesFirst(a, a)
  BY DEF Ordered, ComesFirst
<1>2. \A a, b \in R : a = b \/ ComesFirst(a, b) \/ ComesFirst(b, a)
  BY DEF Ordered, ComesFirst
<1>3. \A a, b, c \in R : ComesFirst(a, b) /\ ComesFirst(b, c) => ComesFirst(a, c)
  BY DEF Ordered, ComesFirst
<1> QED
  BY <1>1, <1>2, <1>3

LEMMA PlacesAreOneEach ==
  ASSUME NEW R, Ordered(R)
  PROVE  /\ \A a \in R : PlaceOf(R, a) \in 1..Cardinality(R)
         /\ \A a, b \in R : ComesFirst(a, b) <=> PlaceOf(R, a) < PlaceOf(R, b)
         /\ \A a, b \in R : PlaceOf(R, a) = PlaceOf(R, b) => a = b
<1>1. /\ IsFiniteSet(R) /\ Cardinality(R) \in Nat
      /\ \A a : IsFiniteSet(Earlier(R, a)) /\ Cardinality(Earlier(R, a)) \in Nat
  <2>1. \A a : Earlier(R, a) \subseteq R
    BY DEF Earlier
  <2> QED
    BY <2>1, FS_Subset, FS_CardinalityType DEF Ordered
<1>2. ASSUME NEW a \in R, NEW S, IsFiniteSet(S), Earlier(R, a) \subseteq S, a \in S
      PROVE  Cardinality(Earlier(R, a)) + 1 <= Cardinality(S)
  <2>1. a \notin Earlier(R, a)
    BY OrderFacts DEF Earlier
  <2>2. Cardinality(Earlier(R, a) \union {a}) = Cardinality(Earlier(R, a)) + 1
    BY <1>1, <2>1, FS_AddElement
  <2>3. Cardinality(Earlier(R, a) \union {a}) <= Cardinality(S)
    BY <1>2, FS_Subset
  <2> QED
    BY <2>2, <2>3
<1>3. ASSUME NEW a \in R PROVE PlaceOf(R, a) \in 1..Cardinality(R)
  <2>1. Earlier(R, a) \subseteq R
    BY DEF Earlier
  <2> QED
    BY <1>1, <1>2, <2>1 DEF PlaceOf
<1>4. ASSUME NEW a \in R, NEW b \in R, ComesFirst(a, b) PROVE PlaceOf(R, a) < PlaceOf(R, b)
  <2>1. Earlier(R, a) \subseteq Earlier(R, b) /\ a \in Earlier(R, b)
    BY <1>4, OrderFacts DEF Earlier
  <2> QED
    BY <1>1, <1>2, <2>1 DEF PlaceOf
<1>5. ASSUME NEW a \in R, NEW b \in R
      PROVE  /\ PlaceOf(R, a) < PlaceOf(R, b) => ComesFirst(a, b)
             /\ PlaceOf(R, a) = PlaceOf(R, b) => a = b
  <2>1. PlaceOf(R, a) \in Int /\ PlaceOf(R, b) \in Int
    BY <1>3
  <2> QED
    BY <1>4, <2>1, OrderFacts
<1> QED
  BY <1>3, <1>4, <1>5

LEMMA EveryPlaceIsTaken ==
  ASSUME NEW R, Ordered(R)
  PROVE  \A i \in 1..Cardinality(R) : \E row \in R : PlaceOf(R, row) = i
<1> DEFINE n == Cardinality(R)
           f == [a \in R |-> PlaceOf(R, a)]
<1>1. IsFiniteSet(R) /\ n \in Nat
  BY FS_CardinalityType DEF Ordered
<1>2. IsFiniteSet(1..n) /\ Cardinality(1..n) = n
  BY <1>1, FS_Interval
<1>3. f \in [R -> 1..n] /\ \A a, b \in R : f[a] = f[b] => a = b
  BY PlacesAreOneEach
<1>4. f \in [R -> 1..n] /\ IsInjective(f)
  BY <1>3 DEF IsInjective
<1>5. f \in Injection(R, 1..n)
  BY <1>4 DEF Injection
<1> HIDE DEF f
<1>6. f \in Surjection(R, 1..n)
  BY <1>1, <1>2, <1>5, FS_Injection
<1>7. \A i \in 1..n : \E a \in R : f[a] = i
  BY <1>6 DEF Surjection
<1> QED
  BY <1>7 DEF f

(* The rows in force are the rows, each at its place.                      *)
LEMMA InForceIs ==
  ASSUME NEW R, Ordered(R)
  PROVE  /\ Cardinality(R) \in Nat /\ DOMAIN InForce(R) = 1..Cardinality(R)
         /\ \A i \in 1..Cardinality(R) : InForce(R)[i] \in R /\ PlaceOf(R, InForce(R)[i]) = i
         /\ \A row \in R : PlaceOf(R, row) \in 1..Cardinality(R) /\ InForce(R)[PlaceOf(R, row)] = row
<1>1. Cardinality(R) \in Nat
  BY FS_CardinalityType DEF Ordered
<1>2. ASSUME NEW row PROVE PlaceOf(R, row) - 1 = Cardinality({r \in R : ComesFirst(r, row)})
  <2>1. Cardinality(Earlier(R, row)) \in Nat
    BY FS_Subset, FS_CardinalityType DEF Ordered, Earlier
  <2> QED
    BY <2>1 DEF PlaceOf, Earlier
<1>3. ASSUME NEW i \in 1..Cardinality(R)
      PROVE  InForce(R)[i] \in R /\ PlaceOf(R, InForce(R)[i]) = i
  <2>1. PICK row \in R : PlaceOf(R, row) = i
    BY EveryPlaceIsTaken
  <2>2. Cardinality({r \in R : ComesFirst(r, row)}) = i - 1
    BY <1>2, <2>1
  <2> DEFINE x == CHOOSE a \in R : Cardinality({r \in R : ComesFirst(r, a)}) = i - 1
  <2>3. x \in R /\ Cardinality({r \in R : ComesFirst(r, x)}) = i - 1
    BY <2>2
  <2>4. InForce(R)[i] = x
    BY DEF InForce
  <2> HIDE DEF x
  <2>5. PlaceOf(R, x) - 1 = i - 1 /\ PlaceOf(R, x) \in Int
    BY <1>2, <2>3, PlacesAreOneEach
  <2> QED
    BY <2>3, <2>4, <2>5
<1>4. ASSUME NEW row \in R
      PROVE  PlaceOf(R, row) \in 1..Cardinality(R) /\ InForce(R)[PlaceOf(R, row)] = row
  BY <1>3, PlacesAreOneEach
<1> QED
  BY <1>1, <1>3, <1>4 DEF InForce

(* Rows that come after a row leave it, and those before it, in place.     *)
LEMMA LaterRowsComeAfter ==
  ASSUME NEW R, NEW T, Ordered(T), R \subseteq T, NEW x \in R,
         \A t \in T \ R : ComesFirst(x, t)
  PROVE  /\ Ordered(R) /\ PlaceOf(T, x) = PlaceOf(R, x)
         /\ \A i \in 1..PlaceOf(R, x) : InForce(T)[i] = InForce(R)[i]
<1>1. Ordered(R)
  BY FS_Subset DEF Ordered
<1>2. ASSUME NEW row \in R, row = x \/ ComesFirst(row, x) PROVE PlaceOf(T, row) = PlaceOf(R, row)
  <2>1. \A t \in T \ R : ~ComesFirst(t, row)
    BY <1>2, OrderFacts
  <2>2. Earlier(T, row) = Earlier(R, row)
    BY <2>1 DEF Earlier
  <2> QED
    BY <2>2 DEF PlaceOf
<1>3. ASSUME NEW i \in 1..PlaceOf(R, x) PROVE InForce(T)[i] = InForce(R)[i]
  <2>1. PlaceOf(R, x) \in 1..Cardinality(R) /\ Cardinality(R) \in Nat
    BY <1>1, InForceIs
  <2>2. i \in 1..Cardinality(R)
    BY <2>1
  <2> DEFINE row == InForce(R)[i]
  <2>3. row \in R /\ PlaceOf(R, row) = i
    BY <1>1, <2>2, InForceIs
  <2> HIDE DEF row
  <2>4. row = x \/ ComesFirst(row, x)
    BY <1>1, <2>1, <2>3, PlacesAreOneEach
  <2>5. PlaceOf(T, row) = i
    BY <1>2, <2>3, <2>4
  <2>6. InForce(T)[i] = row
    BY <2>3, <2>5, InForceIs
  <2> QED
    BY <2>6 DEF row
<1> QED
  BY <1>1, <1>2, <1>3

-----------------------------------------------------------------------------
(* Book: the walk, row by row.                                             *)

(* The fold over a sequence is a function that its recursion defines on    *)
(* the subsets of the positions.                                           *)
WalksOn(g, s, S) ==
  g = [D \in SUBSET S |-> IF D = {} THEN Ground ELSE Stride(g[D \ {Max(D)}], s[Max(D)])]

LEMMA WalkIsFold ==
  ASSUME NEW s
  PROVE  FoldLeft(Stride, Ground, s) = (CHOOSE g : WalksOn(g, s, DOMAIN s))[DOMAIN s]
BY DEF FoldLeft, MapThenFoldSet, WalksOn

LEMMA WalkAt ==
  ASSUME NEW g, NEW s, NEW S, WalksOn(g, s, S)
  PROVE  /\ g[{}] = Ground
         /\ \A D \in SUBSET S : D # {} => g[D] = Stride(g[D \ {Max(D)}], s[Max(D)])
BY DEF WalksOn

Positions(S) == S \in SUBSET Nat /\ IsFiniteSet(S)

LEMMA PositionFacts ==
  ASSUME NEW S, Positions(S)
  PROVE  /\ IsFiniteSet(S) /\ \A D \in SUBSET S : Positions(D)
         /\ S # {} => Max(S) \in S
<1>1. IsFiniteSet(S) /\ \A D \in SUBSET S : IsFiniteSet(D)
  BY FS_Subset DEF Positions
<1>2. \A D \in SUBSET S : D \in SUBSET Nat
  BY DEF Positions
<1>3. S # {} => Max(S) \in S
  BY MaxOfFinite DEF Positions
<1> QED
  BY <1>1, <1>2, <1>3 DEF Positions

LEMMA Intervals ==
  ASSUME NEW n \in Nat
  PROVE  /\ Positions(1..n)
         /\ n # 0 => 1..n # {} /\ Max(1..n) = n /\ (1..n) \ {n} = 1..(n - 1)
<1>1. IsFiniteSet(1..n)
  BY FS_Interval
<1>2. 1..n \in SUBSET Nat
  OBVIOUS
<1>3. ASSUME n # 0 PROVE Max(1..n) = n
  <2>1. n \in 1..n
    BY <1>3
  <2>2. Max(1..n) \in 1..n /\ \A d \in 1..n : d <= Max(1..n)
    BY <1>1, <1>2, <2>1, MaxOfFinite
  <2> QED
    BY <2>1, <2>2
<1> QED
  BY <1>1, <1>2, <1>3 DEF Positions

LEMMA WalksAgree ==
  ASSUME NEW g, NEW h, NEW s, NEW S, NEW T, WalksOn(g, s, S), WalksOn(h, s, T),
         Positions(S), S \subseteq T
  PROVE  g[S] = h[S]
<1> DEFINE B == {D \in SUBSET S : g[D] # h[D]}
<1> SUFFICES B = {}
  OBVIOUS
<1>1. SUFFICES ASSUME B # {} PROVE FALSE
  OBVIOUS
<1>2. PICK D \in B : \A C \in B : C \subseteq D => C = D
  <2>1. B \subseteq SUBSET S
    OBVIOUS
  <2> HIDE DEF B
  <2> QED
    BY <1>1, <2>1, SmallestSet, PositionFacts
<1>3. D # {}
  BY <1>2, WalkAt
<1>4. Max(D) \in D
  BY <1>2, <1>3, PositionFacts
<1>5. g[D \ {Max(D)}] = h[D \ {Max(D)}]
  BY <1>2, <1>4
<1> QED
  BY <1>2, <1>3, <1>5, WalkAt

LEMMA WalkExists ==
  ASSUME NEW s, NEW S, Positions(S)
  PROVE  \E g : WalksOn(g, s, S)
<1> DEFINE B == {T \in SUBSET S : ~\E g : WalksOn(g, s, T)}
<1> SUFFICES B = {}
  OBVIOUS
<1>1. SUFFICES ASSUME B # {} PROVE FALSE
  OBVIOUS
<1>2. PICK T \in B : \A U \in B : U \subseteq T => U = T
  <2>1. B \subseteq SUBSET S
    OBVIOUS
  <2> HIDE DEF B
  <2> QED
    BY <1>1, <2>1, SmallestSet, PositionFacts
<1> DEFINE Over(U) == CHOOSE g : WalksOn(g, s, U)
           Less(U) == U \ {Max(U)}
           h == [U \in SUBSET T |-> IF U = {} THEN Ground ELSE Stride(Over(Less(U))[Less(U)], s[Max(U)])]
<1>3. \A U \in SUBSET T : U # T => WalksOn(Over(U), s, U)
  BY <1>2
<1>4. \A U \in SUBSET T : Positions(U)
  BY PositionFacts
<1>5. ASSUME NEW U \in SUBSET T, U # {}
      PROVE  Less(U) \in SUBSET T /\ Less(U) # T
  BY <1>4, <1>5, PositionFacts
<1>6. ASSUME NEW W \in SUBSET T, W # T PROVE Over(W)[W] = h[W]
  <2>1. CASE W = {}
    BY <1>3, <1>6, <2>1, WalkAt
  <2>2. CASE W # {}
    <3>1. Less(W) \subseteq W /\ Less(W) \in SUBSET T /\ Less(W) # T
      BY <1>5, <2>2
    <3>2. Over(Less(W))[Less(W)] = Over(W)[Less(W)]
      <4> HIDE DEF Over, Less
      <4> QED
        BY <1>3, <1>4, <1>6, <3>1, WalksAgree
    <3>3. Over(W)[W] = Stride(Over(W)[Less(W)], s[Max(W)])
      <4> HIDE DEF Over
      <4>1. WalksOn(Over(W), s, W)
        BY <1>3, <1>6
      <4> QED
        BY <2>2, <4>1, WalkAt
    <3> QED
      BY <2>2, <3>2, <3>3
  <2> QED
    BY <2>1, <2>2
<1>7. WalksOn(h, s, T)
  <2>1. ASSUME NEW U \in SUBSET T, U # {} PROVE Over(Less(U))[Less(U)] = h[Less(U)]
    <3> HIDE DEF Over, Less, h
    <3> QED
      BY <1>5, <1>6, <2>1
  <2>2. h = [U \in SUBSET T |-> IF U = {} THEN Ground ELSE Stride(h[Less(U)], s[Max(U)])]
    <3> HIDE DEF Over, Less
    <3> QED BY <2>1
  <2> QED
    BY <2>2 DEF WalksOn
<1> QED
  BY <1>2, <1>7

(* The walk over the first rows of a sequence.                             *)
Walked(s, k) == (CHOOSE g : WalksOn(g, s, DOMAIN s))[1..k]

LEMMA WalkRowByRow ==
  ASSUME NEW s, NEW n \in Nat, DOMAIN s = 1..n
  PROVE  /\ Walked(s, 0) = Ground
         /\ \A k \in 1..n : Walked(s, k) = Stride(Walked(s, k - 1), s[k])
         /\ FoldLeft(Stride, Ground, s) = Walked(s, n)
<1> DEFINE g == CHOOSE f : WalksOn(f, s, DOMAIN s)
<1>1. WalksOn(g, s, 1..n)
  <2>1. \E f : WalksOn(f, s, 1..n)
    BY Intervals, WalkExists
  <2> QED
    BY <2>1
<1>2. FoldLeft(Stride, Ground, s) = g[1..n] /\ \A k : Walked(s, k) = g[1..k]
  BY WalkIsFold DEF Walked
<1> HIDE DEF g
<1>3. 1..0 = {}
  OBVIOUS
<1>4. /\ g[{}] = Ground
      /\ \A D \in SUBSET (1..n) : D # {} => g[D] = Stride(g[D \ {Max(D)}], s[Max(D)])
  <2> DEFINE S == 1..n
  <2>1. WalksOn(g, s, S)
    BY <1>1
  <2> HIDE DEF S
  <2>2. /\ g[{}] = Ground
        /\ \A D \in SUBSET S : D # {} => g[D] = Stride(g[D \ {Max(D)}], s[Max(D)])
    BY <2>1, WalkAt
  <2> QED
    BY <2>2 DEF S
<1>5. ASSUME NEW k \in 1..n
      PROVE  g[1..k] = Stride(g[1..(k - 1)], s[k])
  <2>1. 1..k \in SUBSET (1..n)
    OBVIOUS
  <2>2. k \in Nat /\ k # 0
    OBVIOUS
  <2>3. 1..k # {} /\ Max(1..k) = k /\ (1..k) \ {k} = 1..(k - 1)
    BY <2>2, Intervals
  <2> DEFINE D == 1..k
  <2>4. D \in SUBSET (1..n) /\ D # {}
    BY <2>1, <2>3
  <2>5. D \ {Max(D)} = 1..(k - 1) /\ Max(D) = k
    BY <2>3
  <2> HIDE DEF D
  <2>6. g[D] = Stride(g[D \ {Max(D)}], s[Max(D)])
    BY <2>4, <1>4
  <2> QED
    BY <2>5, <2>6 DEF D
<1> QED
  BY <1>2, <1>3, <1>5, <1>4

(* It is the same for sequences that begin alike.                          *)
LEMMA WalksBeginAlike ==
  ASSUME NEW s, NEW t, NEW m \in Nat, NEW n \in Nat, DOMAIN s = 1..m, DOMAIN t = 1..n,
         NEW k \in 0..m, k <= n, \A i \in 1..k : s[i] = t[i]
  PROVE  Walked(s, k) = Walked(t, k)
<1> DEFINE B == {i \in 0..k : Walked(s, i) # Walked(t, i)}
<1> SUFFICES ASSUME B # {} PROVE FALSE
  OBVIOUS
<1>1. PICK i \in B : \A j \in B : i <= j
  <2>1. B \in SUBSET Nat
    OBVIOUS
  <2> HIDE DEF B
  <2> QED
    BY <2>1, Least
<1>2. i # 0
  BY <1>1, WalkRowByRow
<1>3. i \in 1..m /\ i \in 1..n /\ i - 1 \in 0..k /\ i - 1 \notin B
  BY <1>1, <1>2
<1>4. Walked(s, i - 1) = Walked(t, i - 1) /\ s[i] = t[i]
  BY <1>1, <1>2, <1>3
<1>5. Walked(s, i) = Stride(Walked(s, i - 1), s[i])
  BY <1>3, WalkRowByRow
<1>6. Walked(t, i) = Stride(Walked(t, i - 1), t[i])
  BY <1>3, WalkRowByRow
<1> QED
  BY <1>1, <1>4, <1>5, <1>6

Episodes == [opened : Dates, closed : Dates, trades : SUBSET Transaction]

(* What a walk may have come to: nothing is held where no row is of the    *)
(* episode under way, and its first row is a purchase.                     *)
WalkShape(w) ==
  /\ w \in [held : Nat, current : Seq(Transaction), episodes : SUBSET Episodes, short : BOOLEAN]
  /\ ~w.short => (w.held = 0 <=> w.current = <<>>)
  /\ w.current # <<>> => w.current[1].kind = "buy"

LEMMA RowFacts ==
  ASSUME NEW row \in Transaction
  PROVE  /\ row.kind \in {"buy", "sell", "dividend", "split"} /\ row.day \in Dates
         /\ row.of \in Nat /\ row.of > 0
         /\ row.day \in Nat /\ row.at \in Nat /\ row.tie \in 0..2
<1>1. /\ row.kind \in {"buy", "sell", "dividend", "split"} /\ row.day \in Dates
      /\ row.of \in Lots \union Ratios /\ row.at \in Nat /\ row.tie \in 0..2
  BY DEF Transaction, Kinds
<1>2. Dates \subseteq Nat /\ Lots \subseteq Nat \ {0} /\ Ratios \subseteq Nat \ {0}
  BY BookAssumption
<1>3. row.of \in Nat \ {0} /\ row.day \in Nat
  BY <1>1, <1>2
<1> QED
  BY <1>1, <1>3

(* A row is passed over, goes short, closes the episode, or is of it.      *)
Passes(w, row) == (w.short \/ Stray(w, row)) /\ Stride(w, row) = w
GoesShort(w, row) == Stride(w, row) = [w EXCEPT !.held = 0, !.short = TRUE]
Closes(w, row) ==
  /\ row.kind = "sell" /\ w.held = row.of /\ w.current # <<>>
  /\ Stride(w, row) = [w EXCEPT !.held = 0, !.current = <<>>,
                                !.episodes = @ \union {EpisodeOf(Append(w.current, row), row.day)}]
GoesOn(w, row) ==
  /\ Moved(w.held, row) \in Nat /\ Moved(w.held, row) > 0
  /\ w.current = <<>> => row.kind = "buy"
  /\ Stride(w, row) = [w EXCEPT !.held = Moved(w.held, row), !.current = Append(w.current, row)]

LEMMA StrideCases ==
  ASSUME NEW w, WalkShape(w), NEW row \in Transaction
  PROVE  \/ Passes(w, row)
         \/ ~w.short /\ ~Stray(w, row) /\ (GoesShort(w, row) \/ Closes(w, row) \/ GoesOn(w, row))
<1> DEFINE h == Moved(w.held, row)
           c == Append(w.current, row)
<1>1. w.held \in Nat
  BY DEF WalkShape
<1>2. h \in Int
  <2>1. \A a, b \in Nat : a * b \in Nat
    OBVIOUS
  <2> QED
    BY <1>1, <2>1, RowFacts DEF Moved
<1>3. CASE w.short \/ Stray(w, row)
  BY <1>3 DEF Passes, Stride
<1>4. CASE ~w.short /\ ~Stray(w, row)
  <2>1. CASE h < 0
    BY <1>4, <2>1 DEF GoesShort, Stride
  <2>2. CASE ~(h < 0) /\ h = 0 /\ row.kind # "dividend"
    <3>1. row.kind = "sell" /\ w.held = row.of
      <4>1. row.kind # "split"
        <5>1. ASSUME row.kind = "split" PROVE FALSE
          <6>1. w.held > 0 /\ row.of > 0 /\ h = w.held * row.of
            BY <1>1, <1>4, <5>1, RowFacts DEF Stray, Moved
          <6>2. \A a, b \in Nat : a > 0 /\ b > 0 => a * b > 0
            OBVIOUS
          <6> HIDE DEF h
          <6> QED
            BY <1>1, <2>2, <6>1, <6>2, RowFacts
        <5> QED
          BY <5>1
      <4> QED
        BY <1>1, <2>2, <4>1, RowFacts DEF Moved
    <3>2. w.current # <<>>
      BY <1>4, <3>1, RowFacts DEF WalkShape
    <3> QED
      BY <1>4, <2>1, <2>2, <3>1, <3>2 DEF Closes, Stride
  <2>3. CASE ~(h < 0) /\ ~(h = 0 /\ row.kind # "dividend")
    <3>1. h > 0
      <4>1. CASE row.kind = "dividend"
        BY <1>1, <1>4, <4>1 DEF WalkShape, Stray, Moved
      <4> QED
        BY <1>2, <2>3, <4>1
    <3>2. w.current = <<>> => row.kind = "buy"
      BY <1>1, <1>4, <2>3, <3>1, RowFacts DEF WalkShape, Stray, Moved
    <3> QED
      BY <1>2, <1>4, <2>3, <3>1, <3>2 DEF GoesOn, Stride
  <2> QED
    BY <1>2, <1>4, <2>1, <2>2, <2>3
<1> QED
  BY <1>3, <1>4

(* An episode begins with the first of its rows, a purchase.               *)
LEMMA EpisodeIs ==
  ASSUME NEW w, WalkShape(w), w.current # <<>>, NEW row \in Transaction
  PROVE  /\ EpisodeOf(Append(w.current, row), row.day) =
              [opened |-> w.current[1].day, closed |-> row.day,
               trades |-> Range(Append(w.current, row))]
         /\ w.current[1] \in Transaction /\ Append(w.current, row)[1] = w.current[1]
         /\ EpisodeOf(Append(w.current, row), row.day) \in Episodes
<1> DEFINE c == Append(w.current, row)
           n == Len(w.current)
<1>1. w.current \in Seq(Transaction) /\ n \in Nat /\ n > 0
  BY DEF WalkShape
<1>2. /\ c \in Seq(Transaction) /\ DOMAIN c = 1..(n + 1) /\ c[1] = w.current[1]
      /\ w.current[1] \in Transaction
  BY <1>1
<1>3. c[1].kind = "buy"
  BY <1>2 DEF WalkShape
<1>4. 1 \in Dealt(c) /\ \A i \in Dealt(c) : i \in Nat /\ 1 <= i
  BY <1>1, <1>2, <1>3 DEF Dealt
<1>5. Min(Dealt(c)) = 1
  <2> HIDE DEF c
  <2> QED
    BY <1>4 DEF Min
<1>6. EpisodeOf(c, row.day) = [opened |-> w.current[1].day, closed |-> row.day, trades |-> Range(c)]
  BY <1>2, <1>5 DEF EpisodeOf
<1>7. Range(c) \subseteq Transaction
  <2> HIDE DEF c
  <2> QED
    BY <1>2 DEF Range
<1> HIDE DEF c
<1>8. EpisodeOf(c, row.day) \in Episodes
  BY <1>2, <1>6, <1>7, RowFacts DEF Episodes
<1> QED
  BY <1>2, <1>6, <1>8 DEF c

LEMMA StrideShape ==
  ASSUME NEW w, WalkShape(w), NEW row \in Transaction
  PROVE  /\ WalkShape(Stride(w, row))
         /\ w.episodes \subseteq Stride(w, row).episodes
<1>1. CASE Passes(w, row)
  BY <1>1 DEF Passes
<1>2. CASE GoesShort(w, row)
  <2> DEFINE v == [w EXCEPT !.held = 0, !.short = TRUE]
  <2>1. v = Stride(w, row)
    BY <1>2 DEF GoesShort
  <2>2. v.held = 0 /\ v.short = TRUE /\ v.current = w.current /\ v.episodes = w.episodes
    BY DEF WalkShape
  <2>3. v \in [held : Nat, current : Seq(Transaction), episodes : SUBSET Episodes, short : BOOLEAN]
    BY DEF WalkShape
  <2> HIDE DEF v
  <2>4. WalkShape(v) /\ w.episodes \subseteq v.episodes
    BY <2>2, <2>3 DEF WalkShape
  <2> QED
    BY <2>1, <2>4
<1>3. CASE Closes(w, row)
  <2>1. EpisodeOf(Append(w.current, row), row.day) \in Episodes
    BY <1>3, EpisodeIs DEF Closes
  <2> DEFINE e == EpisodeOf(Append(w.current, row), row.day)
             v == [w EXCEPT !.held = 0, !.current = <<>>, !.episodes = @ \union {e}]
  <2>2. v = Stride(w, row)
    BY <1>3 DEF Closes
  <2>3. e \in Episodes
    BY <2>1
  <2> HIDE DEF e
  <2>4. <<>> \in Seq(Transaction) /\ 0 \in Nat
    OBVIOUS
  <2>5. WalkShape(v) /\ w.episodes \subseteq v.episodes
    BY <2>3, <2>4 DEF WalkShape
  <2> QED
    BY <2>2, <2>5
<1>4. CASE GoesOn(w, row)
  <2> DEFINE c == Append(w.current, row)
             v == [w EXCEPT !.held = Moved(w.held, row), !.current = c]
  <2>1. c \in Seq(Transaction) /\ c # <<>> /\ c[1].kind = "buy"
    <3>1. w.current \in Seq(Transaction)
      BY DEF WalkShape
    <3>2. CASE w.current = <<>>
      BY <1>4, <3>2 DEF GoesOn
    <3>3. CASE w.current # <<>>
      <4>1. Len(w.current) \in Nat /\ Len(w.current) > 0
        BY <3>1, <3>3
      <4>2. c \in Seq(Transaction) /\ Len(c) = Len(w.current) + 1 /\ c[1] = w.current[1]
        BY <3>1, <4>1
      <4>3. w.current[1].kind = "buy"
        BY <3>3 DEF WalkShape
      <4> HIDE DEF c
      <4> QED
        BY <4>1, <4>2, <4>3
    <3> QED
      BY <3>2, <3>3
  <2>2. v = Stride(w, row) /\ Moved(w.held, row) \in Nat /\ Moved(w.held, row) # 0
    BY <1>4 DEF GoesOn
  <2> HIDE DEF c
  <2>3. WalkShape(v) /\ w.episodes \subseteq v.episodes
    BY <2>1, <2>2 DEF WalkShape
  <2> QED
    BY <2>2, <2>3
<1> QED
  BY <1>1, <1>2, <1>3, <1>4, StrideCases

(* The walk of rows, row by row.                                           *)
RowsOf(s, n) == DOMAIN s = 1..n /\ \A i \in 1..n : s[i] \in Transaction

LEMMA WalkedShape ==
  ASSUME NEW s, NEW n \in Nat, RowsOf(s, n)
  PROVE  /\ \A k \in 0..n : WalkShape(Walked(s, k))
         /\ \A k \in 1..n : Walked(s, k - 1).episodes \subseteq Walked(s, k).episodes
<1> DEFINE B == {k \in 0..n : ~WalkShape(Walked(s, k))}
<1>1. DOMAIN s = 1..n /\ \A i \in 1..n : s[i] \in Transaction
  BY DEF RowsOf
<1>2. WalkShape(Ground)
  BY DEF WalkShape, Ground
<1>3. B = {}
  <2>1. SUFFICES ASSUME B # {} PROVE FALSE
    OBVIOUS
  <2>2. PICK k \in B : \A j \in B : k <= j
    <3>1. B \in SUBSET Nat
      OBVIOUS
    <3> HIDE DEF B
    <3> QED
      BY <2>1, <3>1, Least
  <2>3. k # 0
    BY <1>1, <1>2, <2>2, WalkRowByRow
  <2>4. k \in 1..n /\ k - 1 \in 0..n /\ k - 1 \notin B
    BY <2>2, <2>3
  <2>5. WalkShape(Walked(s, k - 1)) /\ Walked(s, k) = Stride(Walked(s, k - 1), s[k])
    BY <1>1, <2>4, WalkRowByRow
  <2>6. WalkShape(Walked(s, k))
    BY <1>1, <2>4, <2>5, StrideShape
  <2> QED
    BY <2>2, <2>6
<1>4. ASSUME NEW k \in 1..n PROVE Walked(s, k - 1).episodes \subseteq Walked(s, k).episodes
  <2>1. k - 1 \in 0..n
    OBVIOUS
  <2>2. WalkShape(Walked(s, k - 1)) /\ Walked(s, k) = Stride(Walked(s, k - 1), s[k])
    BY <1>1, <1>3, <2>1, WalkRowByRow
  <2> QED
    BY <1>1, <2>2, StrideShape
<1> QED
  BY <1>3, <1>4

LEMMA EpisodesStay ==
  ASSUME NEW s, NEW n \in Nat, RowsOf(s, n), NEW k \in 0..n
  PROVE  Walked(s, k).episodes \subseteq Walked(s, n).episodes
<1> DEFINE B == {j \in 0..n : k <= j /\ ~(Walked(s, k).episodes \subseteq Walked(s, j).episodes)}
<1>1. SUFFICES ASSUME B # {} PROVE FALSE
  OBVIOUS
<1>2. PICK j \in B : \A i \in B : j <= i
  <2>1. B \in SUBSET Nat
    OBVIOUS
  <2> HIDE DEF B
  <2> QED
    BY <1>1, <2>1, Least
<1>3. j # k
  BY <1>2
<1>4. j \in 1..n /\ j - 1 \in 0..n /\ k <= j - 1 /\ j - 1 \notin B
  BY <1>2, <1>3
<1>5. Walked(s, k).episodes \subseteq Walked(s, j - 1).episodes
  BY <1>4
<1>6. Walked(s, j - 1).episodes \subseteq Walked(s, j).episodes
  BY <1>4, WalkedShape
<1> QED
  BY <1>2, <1>5, <1>6

(* An episode comes of the row that closes it.                             *)
LEMMA EpisodeComesOfARow ==
  ASSUME NEW s, NEW n \in Nat, RowsOf(s, n), NEW e \in Walked(s, n).episodes
  PROVE  \E i \in 1..n : /\ e \in Walked(s, i).episodes /\ e \notin Walked(s, i - 1).episodes
                         /\ ~Walked(s, i - 1).short
                         /\ Closes(Walked(s, i - 1), s[i])
                         /\ e = EpisodeOf(Append(Walked(s, i - 1).current, s[i]), s[i].day)
                         /\ e.closed = s[i].day /\ e \in Episodes
<1> DEFINE B == {k \in 0..n : e \in Walked(s, k).episodes}
<1>1. DOMAIN s = 1..n /\ \A i \in 1..n : s[i] \in Transaction
  BY DEF RowsOf
<1>2. n \in B
  OBVIOUS
<1>3. PICK i \in B : \A j \in B : i <= j
  <2>1. B \in SUBSET Nat
    OBVIOUS
  <2> HIDE DEF B
  <2> QED
    BY <1>2, <2>1, Least
<1>4. i # 0
  <2>1. Walked(s, 0) = Ground
    BY <1>1, WalkRowByRow
  <2>2. e \notin Ground.episodes
    BY DEF Ground
  <2> QED
    BY <1>3, <2>1, <2>2
<1>5. i \in 1..n /\ i - 1 \in 0..n /\ i - 1 \notin B
  BY <1>3, <1>4
<1> DEFINE w == Walked(s, i - 1)
<1>6. /\ WalkShape(w) /\ Walked(s, i) = Stride(w, s[i]) /\ s[i] \in Transaction
      /\ e \in Walked(s, i).episodes /\ e \notin w.episodes
  <2>1. WalkShape(w)
    BY <1>5, WalkedShape
  <2>2. Walked(s, i) = Stride(w, s[i]) /\ s[i] \in Transaction
    BY <1>1, <1>5, WalkRowByRow
  <2> QED
    BY <1>3, <1>5, <2>1, <2>2
<1> HIDE DEF w
<1>7. Closes(w, s[i]) /\ ~w.short
  <2>1. Passes(w, s[i]) => Stride(w, s[i]).episodes = w.episodes
    BY DEF Passes
  <2>2. GoesShort(w, s[i]) \/ GoesOn(w, s[i]) => Stride(w, s[i]).episodes = w.episodes
    BY <1>6 DEF GoesShort, GoesOn, WalkShape
  <2> QED
    BY <1>6, <2>1, <2>2, StrideCases
<1>8. Stride(w, s[i]).episodes = w.episodes \union {EpisodeOf(Append(w.current, s[i]), s[i].day)}
  BY <1>6, <1>7 DEF Closes, WalkShape
<1>9. e = EpisodeOf(Append(w.current, s[i]), s[i].day)
  BY <1>6, <1>8
<1>10. e.closed = s[i].day /\ e \in Episodes
  <2>1. WalkShape(w) /\ w.current # <<>> /\ s[i] \in Transaction
    BY <1>6, <1>7 DEF Closes
  <2>2. e \in Episodes
    BY <1>9, <2>1, EpisodeIs
  <2>3. e = [opened |-> w.current[1].day, closed |-> s[i].day, trades |-> Range(Append(w.current, s[i]))]
    BY <1>9, <2>1, EpisodeIs
  <2> QED
    BY <2>2, <2>3
<1> QED
  BY <1>5, <1>6, <1>7, <1>9, <1>10 DEF w

-----------------------------------------------------------------------------
(* Book: rows can be told apart, and what the reviews are of.              *)

(* Rows in the book or about to come to it.                                *)
Apart(R) == \A a, b \in R : a.day = b.day /\ a.at = b.at /\ a.tie = b.tie => a = b
AllRows == book \union UNION {recorder[k].rows : k \in Recorders}
Work == [does : {"rest", "trade", "split"}, action : SUBSET Action, rows : SUBSET Transaction]

(* Every row can be told from every other, and was recorded by now.        *)
BookRowsInv ==
  /\ book \subseteq Transaction /\ IsFiniteSet(book)
  /\ actions \subseteq Action /\ IsFiniteSet(actions)
  /\ recorder \in [Recorders -> Work]
  /\ \A k \in Recorders : IsFiniteSet(recorder[k].rows) /\ IsFiniteSet(recorder[k].action)
  /\ recorded \in 0..MaxRecords
  /\ Apart(AllRows)
  /\ \A row \in AllRows : row.at <= recorded

(* While one works alone its rows are the last to have been recorded.      *)
AloneInv == ~crossed => \A k \in Recorders : recorder[k] # Rest =>
  /\ \A row \in recorder[k].rows : row.at = recorded
  /\ \A row \in book : row.at < recorded

LEMMA RowsInit == BookInit => BookRowsInv /\ AloneInv
<1> SUFFICES ASSUME BookInit PROVE BookRowsInv /\ AloneInv
  OBVIOUS
<1>1. \A k \in Recorders : recorder[k] = Rest
  BY DEF BookInit
<1>2. AllRows = {}
  BY <1>1 DEF AllRows, BookInit, Rest
<1>3. IsFiniteSet({})
  BY FS_EmptySet
<1>4. Rest \in Work /\ Rest.rows = {} /\ Rest.action = {}
  BY DEF Rest, Work
<1>5. recorder \in [Recorders -> Work]
  BY <1>4 DEF BookInit
<1>6. 0 \in 0..MaxRecords
  BY BookAssumption
<1>7. \A k \in Recorders : IsFiniteSet(recorder[k].rows) /\ IsFiniteSet(recorder[k].action)
  BY <1>1, <1>3, <1>4
<1>8. Apart(AllRows) /\ \A row \in AllRows : row.at <= recorded
  BY <1>2 DEF Apart
<1>9. book = {} /\ actions = {} /\ recorded = 0
  BY DEF BookInit
<1> QED
  BY <1>1, <1>3, <1>5, <1>6, <1>7, <1>8, <1>9 DEF BookRowsInv, AloneInv

LEMMA RowsBegin ==
  ASSUME BookRowsInv, AloneInv, NEW k \in Recorders, NEW work \in Work, BeginWork(k, work),
         IsFiniteSet(work.rows), IsFiniteSet(work.action), Apart(work.rows),
         \A row \in work.rows : row.at = recorded + 1
  PROVE  BookRowsInv' /\ AloneInv'
<1>1. /\ recorder' = [recorder EXCEPT ![k] = work] /\ book' = book /\ actions' = actions
      /\ recorded' = recorded + 1 /\ recorded < MaxRecords
      /\ crossed' = (crossed \/ \E l \in Recorders : recorder[l] # Rest)
  BY DEF BeginWork
<1>2. /\ recorder' \in [Recorders -> Work] /\ recorder'[k] = work
      /\ \A l \in Recorders : l # k => recorder'[l] = recorder[l]
  BY <1>1 DEF BookRowsInv
<1>3. recorded \in Nat /\ MaxRecords \in Nat /\ recorded' \in 0..MaxRecords
  BY <1>1, BookAssumption DEF BookRowsInv
<1>4. AllRows' \subseteq AllRows \union work.rows
  BY <1>1, <1>2 DEF AllRows
<1>5. \A row \in AllRows : row.at \in Nat
  <2>1. AllRows \subseteq Transaction
    BY DEF BookRowsInv, AllRows, Work
  <2> QED
    BY <2>1, RowFacts
<1>6. Apart(AllRows) /\ \A row \in AllRows : row.at <= recorded
  BY DEF BookRowsInv
<1>7. \A a \in AllRows, b \in work.rows : a.at # b.at
  BY <1>3, <1>5, <1>6
<1>8. \A row \in AllRows' : row.at <= recorded'
  BY <1>1, <1>3, <1>4, <1>5, <1>6
<1>9. Apart(AllRows \union work.rows)
  BY <1>6, <1>7 DEF Apart
<1>10. Apart(AllRows)'
  BY <1>4, <1>9 DEF Apart
<1>11. \A l \in Recorders : IsFiniteSet(recorder'[l].rows) /\ IsFiniteSet(recorder'[l].action)
  BY <1>2 DEF BookRowsInv
<1>12. BookRowsInv'
  BY <1>1, <1>2, <1>3, <1>8, <1>10, <1>11 DEF BookRowsInv
<1>13. AloneInv'
  <2>1. SUFFICES ASSUME ~crossed'
                 PROVE  \A l \in Recorders : recorder'[l] # Rest =>
                          /\ \A row \in recorder'[l].rows : row.at = recorded'
                          /\ \A row \in book' : row.at < recorded'
    BY DEF AloneInv
  <2>2. \A l \in Recorders : recorder'[l] # Rest => l = k
    BY <1>1, <1>2, <2>1
  <2>3. \A row \in book : row.at \in Nat /\ row.at <= recorded
    BY <1>5, <1>6 DEF AllRows
  <2> QED
    BY <1>1, <1>2, <1>3, <2>2, <2>3
<1> QED
  BY <1>12, <1>13

LEMMA ActionIsFinite ==
  ASSUME NEW S, IsFiniteSet(S)
  PROVE  IsFiniteSet({SplitRow(a) : a \in S})
<1> DEFINE T == {SplitRow(a) : a \in S}
           f == [a \in S |-> SplitRow(a)]
<1>1. f \in [S -> T] /\ \A t \in T : \E a \in S : f[a] = t
  OBVIOUS
<1>2. f \in Surjection(S, T)
  <2> HIDE DEF f, T
  <2> QED
    BY <1>1 DEF Surjection
<1> HIDE DEF f
<1> QED
  BY <1>2, FS_Surjection

LEMMA SplitRowIs ==
  ASSUME BookRowsInv, NEW a \in Action
  PROVE  /\ SplitRow(a) \in Transaction
         /\ SplitRow(a).at = recorded + 1 /\ SplitRow(a).tie = 1 /\ SplitRow(a).day = a.day
<1>1. a.day \in Dates /\ a.ratio \in Ratios /\ recorded + 1 \in Nat
  BY DEF Action, BookRowsInv
<1> QED
  BY <1>1 DEF SplitRow, Transaction, Kinds

LEMMA TradeRowsBegin ==
  ASSUME SplitsInv, BookRowsInv, AloneInv, NEW k \in Recorders,
         NEW kind \in {"buy", "sell", "dividend"}, NEW day \in Dates, NEW lot \in Lots,
         RecordTransaction(k, kind, day, lot)
  PROVE  BookRowsInv' /\ AloneInv'
<1> DEFINE New == {a \in actions : ~HasRowOf(a)}
<1>1. PICK tie \in Ties(day) :
        BeginWork(k, [does |-> "trade", action |-> {},
                      rows |-> {[kind |-> kind, day |-> day, of |-> lot,
                                 at |-> recorded + 1, tie |-> tie]} \union Missing])
  BY DEF RecordTransaction
<1> DEFINE trade == [kind |-> kind, day |-> day, of |-> lot, at |-> recorded + 1, tie |-> tie]
           work == [does |-> "trade", action |-> {}, rows |-> {trade} \union Missing]
<1>2. Missing = {SplitRow(a) : a \in New}
  BY DEF Missing
<1>3. New \subseteq Action /\ OnePerDay(New)
  BY DEF SplitsInv, RecorderShape, OnePerDay
<1>4. OnePerDay(Missing)
  <2> HIDE DEF New
  <2> QED
    BY <1>2, <1>3, SplitRows
<1>5. IsFiniteSet(Missing)
  <2>1. New \subseteq actions
    OBVIOUS
  <2> HIDE DEF New
  <2>2. IsFiniteSet(New)
    BY <2>1, FS_Subset DEF BookRowsInv
  <2> QED
    BY <1>2, <2>2, ActionIsFinite
<1>6. \A row \in Missing : row \in Transaction /\ row.at = recorded + 1 /\ row.tie = 1
  BY <1>2, <1>3, SplitRowIs
<1>7. tie \in {0, 2} /\ recorded + 1 \in Nat
  BY DEF Ties, BookRowsInv
<1>8. trade \in Transaction /\ trade.at = recorded + 1 /\ trade.tie # 1
  BY <1>7 DEF Transaction, Kinds
<1>9. IsFiniteSet({trade} \union Missing)
  <2>1. IsFiniteSet({trade})
    BY FS_Singleton
  <2> HIDE DEF trade
  <2> QED
    BY <1>5, <2>1, FS_Union
<1> HIDE DEF trade
<1>10. Apart({trade} \union Missing)
  BY <1>4, <1>6, <1>8 DEF Apart, OnePerDay
<1>11. work \in Work /\ work.rows = {trade} \union Missing /\ work.action = {}
  BY <1>6, <1>8 DEF Work
<1>12. BeginWork(k, work)
  BY <1>1 DEF trade
<1>13. IsFiniteSet({})
  BY FS_EmptySet
<1>14. \A row \in work.rows : row.at = recorded + 1
  BY <1>6, <1>8
<1> HIDE DEF work
<1> QED
  BY <1>9, <1>10, <1>11, <1>12, <1>13, <1>14, RowsBegin

LEMMA SplitRowsBegin ==
  ASSUME SplitsInv, BookRowsInv, AloneInv, NEW k \in Recorders, NEW action \in Action,
         RecordAction(k, action)
  PROVE  BookRowsInv' /\ AloneInv'
<1> DEFINE rows == IF book = {} THEN {} ELSE {SplitRow(action)}
           work == [does |-> "split", action |-> {action}, rows |-> rows]
<1>1. BeginWork(k, work)
  BY DEF RecordAction
<1>2. rows \subseteq {SplitRow(action)}
  OBVIOUS
<1>3. SplitRow(action) \in Transaction /\ SplitRow(action).at = recorded + 1
  BY SplitRowIs
<1> HIDE DEF rows
<1>4. work \in Work /\ work.rows = rows /\ work.action = {action}
  BY <1>2, <1>3 DEF Work
<1>5. IsFiniteSet(work.rows) /\ IsFiniteSet(work.action)
  BY <1>2, <1>4, FS_Singleton, FS_Subset
<1>6. Apart(work.rows)
  BY <1>2, <1>4 DEF Apart
<1>7. \A row \in work.rows : row.at = recorded + 1
  BY <1>2, <1>3, <1>4
<1> HIDE DEF work
<1> QED
  BY <1>1, <1>4, <1>5, <1>6, <1>7, RowsBegin

(* Rows that can be told apart are ordered, and so is what is walked.      *)
LEMMA ApartIsOrdered ==
  ASSUME NEW R, R \subseteq Transaction, IsFiniteSet(R), Apart(R)
  PROVE  Ordered(R)
<1>1. ASSUME NEW row \in R PROVE row.day \in Int /\ row.at \in Int /\ row.tie \in Int
  <2>1. row.day \in Nat /\ row.at \in Nat /\ row.tie \in 0..2
    BY RowFacts
  <2> QED
    BY <2>1
<1> QED
  BY <1>1 DEF Ordered, Apart

LEMMA BookIsOrdered == ASSUME BookRowsInv PROVE Ordered(book)
<1>1. book \subseteq Transaction /\ IsFiniteSet(book) /\ Apart(book)
  BY DEF BookRowsInv, Apart, AllRows
<1> QED
  BY <1>1, ApartIsOrdered

LEMMA WalkOfRows ==
  ASSUME NEW R, Ordered(R), R \subseteq Transaction
  PROVE  /\ Cardinality(R) \in Nat /\ RowsOf(InForce(R), Cardinality(R))
         /\ Walk(R) = Walked(InForce(R), Cardinality(R))
         /\ WalkShape(Walk(R))
<1>1. /\ Cardinality(R) \in Nat /\ DOMAIN InForce(R) = 1..Cardinality(R)
      /\ \A i \in 1..Cardinality(R) : InForce(R)[i] \in R
  BY InForceIs
<1>2. RowsOf(InForce(R), Cardinality(R))
  BY <1>1 DEF RowsOf
<1>3. FoldLeft(Stride, Ground, InForce(R)) = Walked(InForce(R), Cardinality(R))
  BY <1>1, WalkRowByRow
<1>4. WalkShape(Walked(InForce(R), Cardinality(R)))
  BY <1>1, <1>2, WalkedShape
<1> QED
  BY <1>1, <1>2, <1>3, <1>4 DEF Walk

(* A closed position stays one when every row that comes is of its closing *)
(* date or later, and recorded later than those there.                     *)
LEMMA LaterRowsLeaveEpisodes ==
  ASSUME NEW R, NEW T, Ordered(T), T \subseteq Transaction, R \subseteq T,
         NEW e \in Walk(R).episodes,
         \A t \in T \ R : e.closed <= t.day /\ \A r \in R : r.at < t.at
  PROVE  e \in Walk(T).episodes
<1>1. Ordered(R) /\ R \subseteq Transaction
  BY FS_Subset DEF Ordered
<1> DEFINE s == InForce(R)
           t == InForce(T)
           m == Cardinality(R)
           n == Cardinality(T)
<1>2. m \in Nat /\ RowsOf(s, m) /\ Walk(R) = Walked(s, m)
  BY <1>1, WalkOfRows
<1>3. n \in Nat /\ RowsOf(t, n) /\ Walk(T) = Walked(t, n)
  BY WalkOfRows
<1>4. PICK i \in 1..m : e \in Walked(s, i).episodes /\ e.closed = s[i].day
  <2> HIDE DEF s, m
  <2> QED
    BY <1>2, EpisodeComesOfARow
<1>5. s[i] \in R /\ PlaceOf(R, s[i]) = i
  BY <1>1, InForceIs
<1>6. \A x \in T \ R : ComesFirst(s[i], x)
  <2>1. ASSUME NEW x \in T \ R PROVE ComesFirst(s[i], x)
    <3>1. s[i].day <= x.day /\ s[i].at < x.at
      BY <1>4, <1>5
    <3>2. /\ s[i].day \in Int /\ x.day \in Int
      BY <1>1, <1>5 DEF Ordered
    <3> HIDE DEF s
    <3> QED
      BY <3>1, <3>2 DEF ComesFirst
  <2> QED
    BY <2>1
<1>7. PlaceOf(T, s[i]) = i /\ \A j \in 1..i : t[j] = s[j]
  <2> DEFINE x == s[i]
  <2>1. x \in R /\ PlaceOf(R, x) = i /\ \A y \in T \ R : ComesFirst(x, y)
    BY <1>5, <1>6
  <2> HIDE DEF x
  <2>2. PlaceOf(T, x) = PlaceOf(R, x) /\ \A j \in 1..PlaceOf(R, x) : InForce(T)[j] = InForce(R)[j]
    BY <2>1, LaterRowsComeAfter
  <2> QED
    BY <2>1, <2>2 DEF x
<1>8. i <= n
  <2>1. PlaceOf(T, s[i]) = i
    BY <1>7
  <2>2. PlaceOf(T, s[i]) \in 1..n
    BY <1>5, InForceIs
  <2> QED
    BY <1>3, <2>1, <2>2
<1> HIDE DEF s, t, m, n
<1>9. DOMAIN s = 1..m /\ DOMAIN t = 1..n
  BY <1>2, <1>3 DEF RowsOf
<1>10. i \in 0..m /\ i \in 0..n
  BY <1>2, <1>3, <1>4, <1>8
<1>11. Walked(s, i) = Walked(t, i)
  BY <1>2, <1>3, <1>7, <1>8, <1>9, <1>10, WalksBeginAlike
<1>12. Walked(t, i).episodes \subseteq Walked(t, n).episodes
  BY <1>3, <1>10, EpisodesStay
<1> QED
  BY <1>3, <1>4, <1>11, <1>12

(* Passes and reviews are of positions that the book closes.               *)
ReviewsInv ==
  /\ \A e \in proposals \cup reviews : e \in Episodes
  /\ reviews \subseteq proposals
  /\ ~backdated /\ ~crossed => proposals \subseteq Walk(book).episodes

LEMMA ReviewsInit == BookInit => ReviewsInv
BY DEF BookInit, ReviewsInv

LEMMA RowsCommit ==
  ASSUME BookRowsInv, AloneInv, SplitsInv, ReviewsInv, NEW k \in Recorders, CommitRecord(k)
  PROVE  BookRowsInv' /\ AloneInv' /\ ReviewsInv'
<1> DEFINE R == recorder[k].rows
<1>1. /\ book' = book \union R /\ actions' = actions \union recorder[k].action
      /\ recorder' = [recorder EXCEPT ![k] = Rest] /\ recorder[k] # Rest
      /\ recorded' = recorded /\ crossed' = crossed /\ proposals' = proposals /\ reviews' = reviews
      /\ backdated' = (backdated \/ Backdates(R))
  BY DEF CommitRecord
<1>2. Rest \in Work /\ Rest.rows = {} /\ Rest.action = {}
  BY DEF Rest, Work
<1>3. /\ recorder' \in [Recorders -> Work] /\ recorder'[k] = Rest
      /\ \A l \in Recorders : l # k => recorder'[l] = recorder[l]
  BY <1>1, <1>2 DEF BookRowsInv
<1>4. AllRows' \subseteq AllRows
  BY <1>1, <1>2, <1>3 DEF AllRows
<1>5. Apart(AllRows)' /\ \A row \in AllRows' : row.at <= recorded'
  BY <1>1, <1>4 DEF BookRowsInv, Apart
<1>6. /\ R \subseteq Transaction /\ IsFiniteSet(R)
      /\ recorder[k].action \subseteq Action /\ IsFiniteSet(recorder[k].action)
  BY DEF BookRowsInv, Work
<1>7. /\ book' \subseteq Transaction /\ actions' \subseteq Action
  <2> HIDE DEF R
  <2> QED
    BY <1>1, <1>6 DEF BookRowsInv
<1>8. IsFiniteSet(book') /\ IsFiniteSet(actions')
  <2> HIDE DEF R
  <2> QED
    BY <1>1, <1>6, FS_Union DEF BookRowsInv
<1>9. IsFiniteSet({})
  BY FS_EmptySet
<1>10. \A l \in Recorders : IsFiniteSet(recorder'[l].rows) /\ IsFiniteSet(recorder'[l].action)
  BY <1>2, <1>3, <1>9 DEF BookRowsInv
<1>11. BookRowsInv'
  BY <1>1, <1>3, <1>5, <1>7, <1>8, <1>10 DEF BookRowsInv
<1>12. ~crossed => \A l \in Recorders : recorder'[l] = Rest
  BY <1>1, <1>3 DEF SplitsInv
<1>13. AloneInv'
  BY <1>1, <1>12 DEF AloneInv
<1>14. ASSUME ~backdated', ~crossed' PROVE proposals \subseteq Walk(book').episodes
  <2>1. SUFFICES ASSUME NEW e \in proposals PROVE e \in Walk(book').episodes
    OBVIOUS
  <2>2. ~backdated /\ ~crossed /\ ~Backdates(R)
    BY <1>1, <1>14
  <2>3. e \in Walk(book).episodes /\ e \in Episodes
    BY <2>2 DEF ReviewsInv
  <2>4. \A row \in R : row.day \in Nat /\ ~(row.day < e.closed)
    BY <1>6, <2>2, RowFacts DEF Backdates
  <2>5. e.closed \in Nat
    BY <2>3, BookAssumption DEF Episodes
  <2>6. \A row \in R : row.at = recorded /\ \A b \in book : b.at < recorded
    BY <1>1, <2>2 DEF AloneInv
  <2>7. Ordered(book')
    <3> DEFINE T == book'
    <3>1. T \subseteq Transaction /\ IsFiniteSet(T)
      BY <1>7, <1>8
    <3>2. Apart(T)
      BY <1>5 DEF Apart, AllRows
    <3> HIDE DEF T
    <3>3. Ordered(T)
      BY <3>1, <3>2, ApartIsOrdered
    <3> QED
      BY <3>3 DEF T
  <2> DEFINE T == book'
  <2>8. /\ book \subseteq T /\ T \subseteq Transaction /\ Ordered(T)
        /\ \A t \in T \ book : e.closed <= t.day /\ \A r \in book : r.at < t.at
    BY <1>1, <1>7, <2>4, <2>5, <2>6, <2>7
  <2> HIDE DEF T
  <2>9. e \in Walk(T).episodes
    BY <2>3, <2>8, LaterRowsLeaveEpisodes
  <2> QED
    BY <2>9 DEF T
<1>15. ReviewsInv'
  <2>1. Walk(book)' = Walk(book')
    OBVIOUS
  <2>2. /\ \A e \in (proposals \cup reviews)' : e \in Episodes
        /\ reviews' \subseteq proposals'
    BY <1>1 DEF ReviewsInv
  <2> QED
    BY <1>1, <1>14, <2>1, <2>2 DEF ReviewsInv
<1> QED
  BY <1>11, <1>13, <1>15

LEMMA RowsFail ==
  ASSUME BookRowsInv, AloneInv, SplitsInv, NEW k \in Recorders, FailRecord(k)
  PROVE  BookRowsInv' /\ AloneInv'
<1>1. /\ book' = book /\ actions' = actions
      /\ recorder' = [recorder EXCEPT ![k] = Rest] /\ recorder[k] # Rest
      /\ recorded' = recorded /\ crossed' = crossed
  BY DEF FailRecord
<1>2. Rest \in Work /\ Rest.rows = {} /\ Rest.action = {}
  BY DEF Rest, Work
<1>3. /\ recorder' \in [Recorders -> Work] /\ recorder'[k] = Rest
      /\ \A l \in Recorders : l # k => recorder'[l] = recorder[l]
  BY <1>1, <1>2 DEF BookRowsInv
<1>4. AllRows' \subseteq AllRows
  BY <1>1, <1>2, <1>3 DEF AllRows
<1>5. Apart(AllRows)' /\ \A row \in AllRows' : row.at <= recorded'
  BY <1>1, <1>4 DEF BookRowsInv, Apart
<1>6. IsFiniteSet({})
  BY FS_EmptySet
<1>7. \A l \in Recorders : IsFiniteSet(recorder'[l].rows) /\ IsFiniteSet(recorder'[l].action)
  BY <1>2, <1>3, <1>6 DEF BookRowsInv
<1>8. BookRowsInv'
  BY <1>1, <1>3, <1>5, <1>7 DEF BookRowsInv
<1>9. AloneInv'
  BY <1>1, <1>3 DEF AloneInv, SplitsInv
<1> QED
  BY <1>8, <1>9

LEMMA RowsStay ==
  ASSUME BookRowsInv, AloneInv, UNCHANGED <<book, actions, recorder, recorded, crossed>>
  PROVE  BookRowsInv' /\ AloneInv'
BY DEF BookRowsInv, AloneInv, AllRows, Apart

(* The positions a pass may take up are closed in the book.                *)
LEMMA FirstClosedIs ==
  ASSUME BookRowsInv, NEW day, NEW e \in FirstClosed(day)
  PROVE  e \in Walk(book).episodes /\ e \in Episodes
<1>1. e \in Walk(book).episodes
  BY DEF FirstClosed
<1>2. WalkShape(Walk(book))
  BY BookIsOrdered, WalkOfRows DEF BookRowsInv
<1> QED
  BY <1>1, <1>2 DEF WalkShape

LEMMA ReviewsStay ==
  ASSUME ReviewsInv, UNCHANGED <<book, proposals, reviews, backdated>>, ~crossed' => ~crossed
  PROVE  ReviewsInv'
BY DEF ReviewsInv

LEMMA PassReads ==
  ASSUME BookRowsInv, ReviewsInv, NEW day \in Dates, RunReview(day)
  PROVE  ReviewsInv'
<1>1. PICK e \in FirstClosed(day) :
        /\ proposals' = proposals \union {e} /\ UNCHANGED <<book, reviews, backdated, crossed>>
  BY DEF RunReview
<1>2. e \in Walk(book).episodes /\ e \in Episodes
  BY FirstClosedIs
<1> QED
  BY <1>1, <1>2 DEF ReviewsInv

LEMMA ReviewIsConfirmed ==
  ASSUME ReviewsInv, NEW e \in proposals, ConfirmReview(e)
  PROVE  ReviewsInv'
BY DEF ReviewsInv, ConfirmReview

FlagsInv == backdated \in BOOLEAN /\ crossed \in BOOLEAN

BookInv == SplitsInv /\ BookRowsInv /\ AloneInv /\ ReviewsInv /\ FlagsInv

LEMMA FlagsStep == FlagsInv /\ [BookNext]_bookVars => FlagsInv'
BY DEF FlagsInv, BookNext, bookVars, RecordTransaction, RecordAction, BeginWork, CommitRecord,
       FailRecord, RunReview, ConfirmReview

LEMMA BookInvStep == BookInv /\ [BookNext]_bookVars => BookInv'
<1> SUFFICES ASSUME BookInv, [BookNext]_bookVars PROVE BookInv'
  OBVIOUS
<1> USE DEF BookInv
<1>0. SplitsInv' /\ FlagsInv'
  BY SplitsStep, FlagsStep
<1>1. ASSUME NEW k \in Recorders, NEW work, BeginWork(k, work) PROVE ReviewsInv'
  BY <1>1, ReviewsStay DEF BeginWork
<1>2. ASSUME NEW k \in Recorders, NEW kind \in {"buy", "sell", "dividend"}, NEW day \in Dates,
             NEW lot \in Lots, RecordTransaction(k, kind, day, lot)
      PROVE  BookInv'
  <2>1. BookRowsInv' /\ AloneInv'
    BY <1>2, TradeRowsBegin
  <2>2. ReviewsInv'
    BY <1>1, <1>2 DEF RecordTransaction
  <2> QED
    BY <1>0, <2>1, <2>2
<1>3. ASSUME NEW k \in Recorders, NEW action \in Action, RecordAction(k, action) PROVE BookInv'
  <2>1. BookRowsInv' /\ AloneInv'
    BY <1>3, SplitRowsBegin
  <2>2. ReviewsInv'
    BY <1>1, <1>3 DEF RecordAction
  <2> QED
    BY <1>0, <2>1, <2>2
<1>4. ASSUME NEW k \in Recorders, CommitRecord(k) PROVE BookInv'
  BY <1>0, <1>4, RowsCommit
<1>5. ASSUME NEW k \in Recorders, FailRecord(k) PROVE BookInv'
  <2>1. BookRowsInv' /\ AloneInv'
    BY <1>5, RowsFail
  <2>2. ReviewsInv'
    BY <1>5, ReviewsStay DEF FailRecord
  <2> QED
    BY <1>0, <2>1, <2>2
<1>6. ASSUME NEW day \in Dates, RunReview(day) PROVE BookInv'
  <2>1. BookRowsInv' /\ AloneInv'
    BY <1>6, RowsStay DEF RunReview
  <2> QED
    BY <1>0, <1>6, <2>1, PassReads
<1>7. ASSUME NEW e \in proposals, ConfirmReview(e) PROVE BookInv'
  <2>1. BookRowsInv' /\ AloneInv'
    BY <1>7, RowsStay DEF ConfirmReview
  <2> QED
    BY <1>0, <1>7, <2>1, ReviewIsConfirmed
<1>8. CASE UNCHANGED bookVars
  BY <1>0, <1>8, RowsStay, ReviewsStay DEF bookVars
<1> QED
  BY <1>2, <1>3, <1>4, <1>5, <1>6, <1>7, <1>8 DEF BookNext

LEMMA BookInvHolds == BookSpec => []BookInv
<1>1. BookInit => FlagsInv
  BY DEF BookInit, FlagsInv
<1>2. BookInit => BookInv
  BY <1>1, SplitsInit, RowsInit, ReviewsInit DEF BookInv
<1> QED
  BY <1>2, BookInvStep, PTL DEF BookSpec

-----------------------------------------------------------------------------
(* Book: positions that were closed.                                       *)

(* Rows in the order that the walk takes them: the walk over the set of    *)
(* them is the walk over the sequence.                                     *)
Rising(c) == \A i, j \in DOMAIN c : i < j => ComesFirst(c[i], c[j])

LEMMA RisingIsOrdered ==
  ASSUME NEW c \in Seq(Transaction), Rising(c)
  PROVE  /\ Ordered(Range(c)) /\ Range(c) \subseteq Transaction
         /\ \A i, j \in DOMAIN c : c[i] = c[j] => i = j
         /\ \A i, j \in DOMAIN c : ComesFirst(c[i], c[j]) => i < j
<1>1. Len(c) \in Nat /\ DOMAIN c = 1..Len(c) /\ \A i \in DOMAIN c : c[i] \in Transaction
  OBVIOUS
<1>2. Range(c) \subseteq Transaction
  BY <1>1 DEF Range
<1>3. IsFiniteSet(Range(c))
  <2>1. c \in Surjection(DOMAIN c, Range(c))
    <3>1. c = [i \in DOMAIN c |-> c[i]] /\ \A i \in DOMAIN c : c[i] \in Range(c)
      BY DEF Range
    <3>2. c \in [DOMAIN c -> Range(c)]
      BY <3>1
    <3>3. \A t \in Range(c) : \E i \in DOMAIN c : c[i] = t
      BY DEF Range
    <3> QED
      BY <3>2, <3>3 DEF Surjection
  <2>2. IsFiniteSet(DOMAIN c)
    BY <1>1, FS_Interval
  <2> QED
    BY <2>1, <2>2, FS_Surjection
<1>4. \A a \in Transaction : a.day \in Int /\ a.at \in Int /\ a.tie \in Int
  <2>1. ASSUME NEW a \in Transaction PROVE a.day \in Int /\ a.at \in Int /\ a.tie \in Int
    <3>1. a.day \in Nat /\ a.at \in Nat /\ a.tie \in 0..2
      BY RowFacts
    <3> QED
      BY <3>1
  <2> QED
    BY <2>1
<1>5. \A a, b \in Transaction : ComesFirst(a, b) =>
        ~ComesFirst(b, a) /\ ~(a.day = b.day /\ a.at = b.at /\ a.tie = b.tie)
  BY <1>4 DEF ComesFirst
<1>6. \A i, j \in DOMAIN c : i = j \/ ComesFirst(c[i], c[j]) \/ ComesFirst(c[j], c[i])
  <2>1. \A i, j \in DOMAIN c : i = j \/ i < j \/ j < i
    BY <1>1
  <2> QED
    BY <2>1 DEF Rising
<1>7. \A i, j \in DOMAIN c : c[i] = c[j] => i = j
  BY <1>1, <1>5, <1>6
<1>8. \A i, j \in DOMAIN c : ComesFirst(c[i], c[j]) => i < j
  <2>1. \A i, j \in DOMAIN c : i = j \/ i < j \/ j < i
    BY <1>1
  <2> QED
    BY <1>1, <1>5, <2>1 DEF Rising
<1>9. \A a, b \in Range(c) : a.day = b.day /\ a.at = b.at /\ a.tie = b.tie => a = b
  <2>1. \A a \in Range(c) : \E i \in DOMAIN c : a = c[i]
    BY DEF Range
  <2>2. ASSUME NEW i \in DOMAIN c, NEW j \in DOMAIN c,
               c[i].day = c[j].day /\ c[i].at = c[j].at /\ c[i].tie = c[j].tie
        PROVE  c[i] = c[j]
    BY <1>1, <1>5, <1>6, <2>2
  <2> QED
    BY <2>1, <2>2
<1> QED
  BY <1>2, <1>3, <1>4, <1>7, <1>8, <1>9 DEF Ordered

LEMMA RisingIsInForce ==
  ASSUME NEW c \in Seq(Transaction), Rising(c)
  PROVE  InForce(Range(c)) = c
<1> DEFINE R == Range(c)
           n == Len(c)
<1>1. n \in Nat /\ DOMAIN c = 1..n /\ c = [i \in 1..n |-> c[i]]
  OBVIOUS
<1>2. Ordered(R)
  BY RisingIsOrdered
<1>3. ASSUME NEW i \in 1..n PROVE PlaceOf(R, c[i]) = i
  <2> DEFINE B == Earlier(R, c[i])
             f == [j \in 1..(i - 1) |-> c[j]]
  <2>1. B = {c[j] : j \in 1..(i - 1)}
    <3>1. \A j \in 1..n : ComesFirst(c[j], c[i]) <=> j < i
      BY <1>1, RisingIsOrdered DEF Rising
    <3>2. ASSUME NEW r \in B PROVE \E j \in 1..(i - 1) : r = c[j]
      <4>1. PICK j \in 1..n : r = c[j]
        BY <1>1 DEF Earlier, Range
      <4>2. j < i
        BY <3>1, <4>1 DEF Earlier
      <4> QED
        BY <1>1, <4>1, <4>2
    <3>3. ASSUME NEW j \in 1..(i - 1) PROVE c[j] \in B
      BY <1>1, <3>1 DEF Earlier, Range
    <3> HIDE DEF B
    <3> QED
      BY <3>2, <3>3
  <2>2. f \in [1..(i - 1) -> B] /\ \A a, b \in 1..(i - 1) : f[a] = f[b] => a = b
    <3>1. 1..(i - 1) \subseteq DOMAIN c
      BY <1>1
    <3> HIDE DEF B
    <3> QED
      BY <2>1, <3>1, RisingIsOrdered
  <2>3. \A t \in B : \E j \in 1..(i - 1) : f[j] = t
    <3> HIDE DEF B
    <3> QED
      BY <2>1
  <2>4. f \in Bijection(1..(i - 1), B)
    <3> HIDE DEF f, B
    <3> QED
      BY <2>2, <2>3 DEF Bijection, Injection, Surjection, IsInjective
  <2>5. Cardinality(B) = i - 1
    <3>1. i - 1 \in Nat /\ IsFiniteSet(1..(i - 1)) /\ Cardinality(1..(i - 1)) = i - 1
      <4>1. i - 1 \in Nat
        OBVIOUS
      <4> QED
        BY <4>1, FS_Interval
    <3>2. ExistsBijection(1..(i - 1), B)
      <4> HIDE DEF f, B
      <4> QED
        BY <2>4 DEF ExistsBijection
    <3> HIDE DEF B
    <3> QED
      BY <3>1, <3>2, FS_Bijection
  <2> HIDE DEF R
  <2> QED
    BY <2>5 DEF PlaceOf
<1>4. Cardinality(R) = n
  <2>1. IsFiniteSet(1..n) /\ Cardinality(1..n) = n
    <3>1. n \in Nat
      BY <1>1
    <3> HIDE DEF n
    <3> QED
      BY <3>1, FS_Interval
  <2>2. c \in [1..n -> R] /\ (\A t \in R : \E i \in 1..n : c[i] = t)
    BY <1>1 DEF Range
  <2>3. \A i, j \in 1..n : c[i] = c[j] => i = j
    BY <1>1, RisingIsOrdered
  <2>4. c \in Bijection(1..n, R)
    <3> HIDE DEF n, R
    <3> QED
      BY <2>2, <2>3 DEF Bijection, Injection, Surjection, IsInjective
  <2>5. ExistsBijection(1..n, R)
    BY <2>4 DEF ExistsBijection
  <2> HIDE DEF n, R
  <2> QED
    BY <2>1, <2>5, FS_Bijection
<1>5. \A i \in 1..n : c[i] \in R
  BY <1>1 DEF Range
<1> HIDE DEF R
<1>6. \A i \in 1..n : InForce(R)[i] = c[i]
  BY <1>2, <1>3, <1>5, InForceIs
<1>7. InForce(R) = [i \in 1..n |-> InForce(R)[i]]
  <2> DEFINE At(i) == CHOOSE row \in R : Cardinality({r \in R : ComesFirst(r, row)}) = i - 1
  <2>1. InForce(R) = [i \in 1..Cardinality(R) |-> InForce(R)[i]]
    <3>1. InForce(R) = [i \in 1..Cardinality(R) |-> At(i)]
      BY DEF InForce
    <3> HIDE DEF At
    <3> QED
      BY <3>1
  <2> HIDE DEF n
  <2> QED
    BY <1>4, <2>1
<1>8. InForce(R) = c
  BY <1>1, <1>6, <1>7
<1> QED
  BY <1>8 DEF R

Alone(w) == [w EXCEPT !.episodes = {}]
Replays(w) == Walked(w.current, Len(w.current)) = Alone(w)

RoundTrip(e) ==
  /\ \E row \in e.trades : row.kind = "buy" /\ row.day = e.opened
  /\ \A row \in e.trades : e.opened <= row.day /\ row.day <= e.closed
  /\ Walk(e.trades).held = 0 /\ Walk(e.trades).episodes = {e}

(* What a walk has come to after the rows P: round trips of those rows,    *)
(* none in two of them, and the rows of the episode under way, which       *)
(* walked by themselves lead to the same.                                  *)
TripShape(w, P) ==
  /\ Range(w.current) \subseteq P /\ Rising(w.current)
  /\ ~w.short => Replays(w)
  /\ \A e \in w.episodes : /\ RoundTrip(e) /\ e.trades \subseteq P
                           /\ e.trades \cap Range(w.current) = {}
  /\ \A e, f \in w.episodes : e # f => e.trades \cap f.trades = {}

LEMMA ReplayOn ==
  ASSUME NEW w, WalkShape(w), Replays(w), NEW row \in Transaction
  PROVE  Walked(Append(w.current, row), Len(w.current) + 1) = Stride(Alone(w), row)
<1> DEFINE c == Append(w.current, row)
           m == Len(w.current)
<1>1. w.current \in Seq(Transaction)
  BY DEF WalkShape
<1>2. /\ m \in Nat /\ DOMAIN w.current = 1..m /\ DOMAIN c = 1..(m + 1)
      /\ c[m + 1] = row /\ \A i \in 1..m : c[i] = w.current[i]
  BY <1>1
<1>3. Walked(w.current, m) = Alone(w)
  BY DEF Replays
<1> HIDE DEF c, m
<1>4. m + 1 \in Nat /\ m \in 0..(m + 1) /\ m <= m /\ m + 1 \in 1..(m + 1) /\ (m + 1) - 1 = m
  BY <1>2
<1>5. Walked(c, m) = Walked(w.current, m)
  BY <1>2, <1>4, WalksBeginAlike
<1>6. Walked(c, m + 1) = Stride(Walked(c, (m + 1) - 1), c[m + 1])
  BY <1>2, <1>4, WalkRowByRow
<1>7. Walked(c, m + 1) = Stride(Alone(w), row)
  BY <1>2, <1>3, <1>4, <1>5, <1>6
<1> QED
  BY <1>7 DEF c, m

LEMMA AloneFacts ==
  ASSUME NEW w, WalkShape(w)
  PROVE  /\ WalkShape(Alone(w)) /\ Alone(w).held = w.held /\ Alone(w).current = w.current
         /\ Alone(w).short = w.short /\ Alone(w).episodes = {}
<1>1. /\ Alone(w).held = w.held /\ Alone(w).current = w.current
      /\ Alone(w).short = w.short /\ Alone(w).episodes = {}
      /\ Alone(w) \in [held : Nat, current : Seq(Transaction), episodes : SUBSET Episodes, short : BOOLEAN]
  BY DEF WalkShape, Alone
<1> QED
  BY <1>1 DEF WalkShape

LEMMA StrideAlone ==
  ASSUME NEW w, WalkShape(w), NEW row \in Transaction, ~w.short, ~Stray(w, row)
  PROVE  /\ GoesOn(w, row) => Stride(Alone(w), row) = Alone(Stride(w, row))
         /\ Closes(w, row) => /\ Stride(Alone(w), row).held = 0
                              /\ Stride(Alone(w), row).episodes =
                                   {EpisodeOf(Append(w.current, row), row.day)}
<1>1. /\ Alone(w).held = w.held /\ Alone(w).current = w.current
      /\ Alone(w).short = w.short /\ Alone(w).episodes = {} /\ w.held \in Nat
      /\ WalkShape(Alone(w))
  BY AloneFacts DEF WalkShape
<1>2. ~Stray(Alone(w), row)
  BY <1>1 DEF Stray
<1>3. ASSUME GoesOn(w, row) PROVE Stride(Alone(w), row) = Alone(Stride(w, row))
  <2> DEFINE h == Moved(w.held, row)
             c == Append(w.current, row)
  <2>1. h \in Nat /\ h > 0 /\ Stride(w, row) = [w EXCEPT !.held = h, !.current = c]
    BY <1>3 DEF GoesOn
  <2>2. Stride(Alone(w), row) = [Alone(w) EXCEPT !.held = h, !.current = c]
    <3> HIDE DEF h, c
    <3>1. Moved(Alone(w).held, row) = h /\ Append(Alone(w).current, row) = c
      BY <1>1 DEF h, c
    <3> QED
      BY <1>1, <1>2, <2>1, <3>1 DEF Stride
  <2> HIDE DEF h, c
  <2>3. Alone([w EXCEPT !.held = h, !.current = c]) = [Alone(w) EXCEPT !.held = h, !.current = c]
    BY DEF Alone, WalkShape
  <2> QED
    BY <2>1, <2>2, <2>3
<1>4. ASSUME Closes(w, row)
      PROVE  /\ Stride(Alone(w), row).held = 0
             /\ Stride(Alone(w), row).episodes = {EpisodeOf(Append(w.current, row), row.day)}
  <2>1. row.kind = "sell" /\ w.held = row.of
    BY <1>4 DEF Closes
  <2>2. Moved(w.held, row) = 0
    BY <1>1, <2>1 DEF Moved
  <2> DEFINE E == EpisodeOf(Append(w.current, row), row.day)
  <2>3. Stride(Alone(w), row) =
          [Alone(w) EXCEPT !.held = 0, !.current = <<>>, !.episodes = @ \union {E}]
    BY <1>1, <1>2, <2>1, <2>2 DEF Stride
  <2> HIDE DEF E
  <2>4. /\ Stride(Alone(w), row).held = 0 /\ Stride(Alone(w), row).episodes = {E}
    BY <1>1, <2>3 DEF Alone, WalkShape
  <2> QED
    BY <2>4 DEF E
<1> QED
  BY <1>3, <1>4

LEMMA RisingOn ==
  ASSUME NEW c \in Seq(Transaction), Rising(c), NEW row \in Transaction,
         \A r \in Range(c) : ComesFirst(r, row)
  PROVE  /\ Append(c, row) \in Seq(Transaction) /\ Rising(Append(c, row))
         /\ Range(Append(c, row)) = Range(c) \union {row}
<1> DEFINE d == Append(c, row)
           m == Len(c)
<1>1. /\ m \in Nat /\ DOMAIN c = 1..m /\ DOMAIN d = 1..(m + 1) /\ d \in Seq(Transaction)
      /\ d[m + 1] = row /\ \A i \in 1..m : d[i] = c[i]
  OBVIOUS
<1> HIDE DEF d, m
<1>2. Rising(d)
  <2>1. ASSUME NEW i \in 1..(m + 1), NEW j \in 1..(m + 1), i < j PROVE ComesFirst(d[i], d[j])
    <3>1. i \in 1..m /\ c[i] \in Range(c)
      BY <1>1, <2>1 DEF Range
    <3>2. CASE j = m + 1
      BY <1>1, <3>1, <3>2
    <3>3. CASE j # m + 1
      BY <1>1, <2>1, <3>1, <3>3 DEF Rising
    <3> QED
      BY <3>2, <3>3
  <2> QED
    BY <1>1, <2>1 DEF Rising
<1>3. Range(d) = Range(c) \union {row}
  <2>1. \A i \in DOMAIN d : d[i] \in Range(c) \union {row}
    <3>1. \A i \in 1..(m + 1) : i \in 1..m \/ i = m + 1
      BY <1>1
    <3> QED
      BY <1>1, <3>1 DEF Range
  <2>2. \A r \in Range(c) \union {row} : \E i \in DOMAIN d : d[i] = r
    <3>1. m + 1 \in 1..(m + 1) /\ 1..m \subseteq 1..(m + 1)
      BY <1>1
    <3> QED
      BY <1>1, <3>1 DEF Range
  <2> QED
    BY <2>1, <2>2 DEF Range
<1> QED
  BY <1>1, <1>2, <1>3 DEF d

LEMMA ClosedIsARoundTrip ==
  ASSUME NEW w, WalkShape(w), ~w.short, Replays(w), Rising(w.current),
         NEW row \in Transaction, ~Stray(w, row), Closes(w, row),
         \A r \in Range(w.current) : ComesFirst(r, row)
  PROVE  /\ RoundTrip(EpisodeOf(Append(w.current, row), row.day))
         /\ EpisodeOf(Append(w.current, row), row.day).trades = Range(w.current) \union {row}
<1> DEFINE c == Append(w.current, row)
           m == Len(w.current)
           E == EpisodeOf(c, row.day)
<1>1. w.current \in Seq(Transaction) /\ w.current # <<>> /\ w.current[1].kind = "buy"
  BY DEF WalkShape, Closes
<1>2. c \in Seq(Transaction) /\ Rising(c) /\ Range(c) = Range(w.current) \union {row}
  BY <1>1, RisingOn
<1>3. E = [opened |-> w.current[1].day, closed |-> row.day, trades |-> Range(c)]
  BY <1>1, EpisodeIs
<1>4. /\ m \in Nat /\ m > 0 /\ DOMAIN c = 1..(m + 1) /\ c[1] = w.current[1] /\ c[m + 1] = row
      /\ w.current[1] \in Transaction
  BY <1>1
<1>5. Walk(Range(c)) = Stride(Alone(w), row)
  <2>1. InForce(Range(c)) = c
    <3> HIDE DEF c
    <3> QED
      BY <1>2, RisingIsInForce
  <2>2. FoldLeft(Stride, Ground, c) = Walked(c, m + 1)
    <3> HIDE DEF c, m
    <3>1. m + 1 \in Nat
      BY <1>4
    <3> QED
      BY <1>4, <3>1, WalkRowByRow
  <2>3. Walked(c, m + 1) = Stride(Alone(w), row)
    BY ReplayOn
  <2>4. Walk(Range(c)) = FoldLeft(Stride, Ground, c)
    <3> HIDE DEF c
    <3> QED
      BY <2>1 DEF Walk
  <2> QED
    BY <2>2, <2>3, <2>4
<1>6. Walk(Range(c)).held = 0 /\ Walk(Range(c)).episodes = {E}
  BY <1>5, StrideAlone
<1> HIDE DEF c, m, E
<1>7. /\ E.opened = c[1].day /\ E.closed = row.day /\ E.trades = Range(c)
  BY <1>3, <1>4
<1>8. c[1] \in Range(c) /\ c[1].kind = "buy"
  <2>1. 1 \in DOMAIN c
    BY <1>4
  <2> QED
    BY <1>1, <1>4, <2>1 DEF Range
<1>9. ASSUME NEW r \in Range(c) PROVE c[1].day <= r.day /\ r.day <= row.day
  <2>1. PICK i \in 1..(m + 1) : r = c[i]
    BY <1>4 DEF Range
  <2>2. /\ 1 \in DOMAIN c /\ m + 1 \in DOMAIN c /\ i \in DOMAIN c
        /\ (1 < i \/ i = 1) /\ (i < m + 1 \/ i = m + 1)
    BY <1>4
  <2>3. (i = 1 \/ ComesFirst(c[1], c[i])) /\ (i = m + 1 \/ ComesFirst(c[i], c[m + 1]))
    BY <1>2, <2>2 DEF Rising
  <2>4. c[1].day \in Nat /\ c[i].day \in Nat /\ row.day \in Nat
    BY <1>2, <2>2, RowFacts
  <2>5. \A a, b : a.day \in Nat /\ b.day \in Nat /\ ComesFirst(a, b) => a.day <= b.day
    BY DEF ComesFirst
  <2> QED
    BY <1>4, <2>1, <2>3, <2>4, <2>5
<1>10. RoundTrip(E)
  BY <1>6, <1>7, <1>8, <1>9 DEF RoundTrip
<1> QED
  BY <1>2, <1>7, <1>10 DEF c, E

LEMMA AloneIsGround ==
  ASSUME NEW w, WalkShape(w), w.held = 0, w.current = <<>>, ~w.short
  PROVE  Alone(w) = Ground
<1>1. /\ Alone(w).held = 0 /\ Alone(w).current = <<>>
      /\ Alone(w).short = FALSE /\ Alone(w).episodes = {}
  BY AloneFacts DEF WalkShape
<1>2. Alone(w) \in [held : Nat, current : Seq(Transaction), episodes : SUBSET Episodes, short : BOOLEAN]
  BY AloneFacts DEF WalkShape
<1> HIDE DEF Alone
<1> QED
  BY <1>1, <1>2 DEF Ground

LEMMA TripStep ==
  ASSUME NEW w, WalkShape(w), NEW P, TripShape(w, P),
         NEW row \in Transaction, row \notin P, \A r \in P : ComesFirst(r, row)
  PROVE  TripShape(Stride(w, row), P \union {row})
<1>1. CASE Passes(w, row)
  BY <1>1 DEF Passes, TripShape
<1>2. CASE GoesShort(w, row)
  <2> DEFINE v == [w EXCEPT !.held = 0, !.short = TRUE]
  <2>1. v = Stride(w, row)
    BY <1>2 DEF GoesShort
  <2>2. v.short = TRUE /\ v.current = w.current /\ v.episodes = w.episodes
    BY DEF WalkShape
  <2> HIDE DEF v
  <2>3. TripShape(v, P \union {row})
    BY <2>2 DEF TripShape
  <2> QED
    BY <2>1, <2>3
<1>3. ASSUME ~w.short, ~Stray(w, row), Closes(w, row)
      PROVE  TripShape(Stride(w, row), P \union {row})
  <2> DEFINE E == EpisodeOf(Append(w.current, row), row.day)
             v == [w EXCEPT !.held = 0, !.current = <<>>, !.episodes = @ \union {E}]
  <2>1. v = Stride(w, row)
    BY <1>3 DEF Closes
  <2>2. RoundTrip(E) /\ E.trades = Range(w.current) \union {row}
    BY <1>3, ClosedIsARoundTrip DEF TripShape
  <2> HIDE DEF E
  <2>3. v.held = 0 /\ v.short = FALSE /\ v.current = <<>> /\ v.episodes = w.episodes \union {E}
    BY <1>3 DEF WalkShape
  <2>4. Range(<<>>) = {} /\ Rising(<<>>)
    BY DEF Range, Rising
  <2>5. Replays(v)
    <3>1. Walked(<<>>, 0) = Ground
      <4>1. DOMAIN <<>> = 1..0 /\ 0 \in Nat
        OBVIOUS
      <4> QED
        BY <4>1, WalkRowByRow
    <3>2. Len(<<>>) = 0
      OBVIOUS
    <3>3. Alone(v) = Ground
      <4>1. WalkShape(v)
        BY <2>1, StrideShape
      <4> HIDE DEF v
      <4> QED
        BY <2>3, <4>1, AloneIsGround
    <3> HIDE DEF v
    <3> QED
      BY <2>3, <3>1, <3>2, <3>3 DEF Replays
  <2> HIDE DEF v
  <2>6. \A e \in v.episodes : /\ RoundTrip(e) /\ e.trades \subseteq P \union {row}
                              /\ e.trades \cap Range(v.current) = {}
    BY <2>2, <2>3, <2>4 DEF TripShape
  <2>7. \A e \in w.episodes : e.trades \cap E.trades = {}
    BY <2>2 DEF TripShape
  <2>8. \A e, f \in v.episodes : e # f => e.trades \cap f.trades = {}
    BY <2>3, <2>7 DEF TripShape
  <2>9. TripShape(v, P \union {row})
    BY <2>3, <2>4, <2>5, <2>6, <2>8 DEF TripShape
  <2> QED
    BY <2>1, <2>9
<1>4. ASSUME ~w.short, ~Stray(w, row), GoesOn(w, row)
      PROVE  TripShape(Stride(w, row), P \union {row})
  <2> DEFINE c == Append(w.current, row)
             v == [w EXCEPT !.held = Moved(w.held, row), !.current = c]
  <2>1. v = Stride(w, row)
    BY <1>4 DEF GoesOn
  <2>2. c \in Seq(Transaction) /\ Rising(c) /\ Range(c) = Range(w.current) \union {row}
    <3>1. w.current \in Seq(Transaction) /\ Rising(w.current) /\ Range(w.current) \subseteq P
      BY DEF WalkShape, TripShape
    <3> QED
      BY <3>1, RisingOn
  <2>3. Walked(c, Len(w.current) + 1) = Stride(Alone(w), row)
    BY <1>4, ReplayOn DEF TripShape
  <2>4. Len(c) = Len(w.current) + 1
    BY DEF WalkShape
  <2>5. Stride(Alone(w), row) = Alone(v)
    BY <1>4, <2>1, StrideAlone
  <2>6. v.current = c /\ v.episodes = w.episodes
    <3> HIDE DEF c
    <3> QED
      BY DEF WalkShape
  <2> HIDE DEF c, v
  <2>7. Replays(v)
    BY <2>3, <2>4, <2>5, <2>6 DEF Replays
  <2>8. TripShape(v, P \union {row})
    BY <2>2, <2>6, <2>7 DEF TripShape
  <2> QED
    BY <2>1, <2>8
<1> QED
  BY <1>1, <1>2, <1>3, <1>4, StrideCases

(* The walk of an ordered set of rows makes round trips.                   *)
LEMMA WalkMakesTrips ==
  ASSUME NEW R, Ordered(R), R \subseteq Transaction
  PROVE  \E P : TripShape(Walk(R), P)
<1> DEFINE s == InForce(R)
           n == Cardinality(R)
           B == {k \in 0..n : ~TripShape(Walked(s, k), {s[i] : i \in 1..k})}
<1>1. n \in Nat /\ RowsOf(s, n) /\ Walk(R) = Walked(s, n)
  BY WalkOfRows
<1>2. DOMAIN s = 1..n /\ \A i \in 1..n : s[i] \in Transaction
  BY <1>1 DEF RowsOf
<1>3. \A i, j \in 1..n : i < j => ComesFirst(s[i], s[j]) /\ s[i] # s[j]
  <2>1. \A i \in 1..n : s[i] \in R /\ PlaceOf(R, s[i]) = i
    BY InForceIs
  <2> HIDE DEF s, n
  <2>2. \A i, j \in 1..n : i < j => ComesFirst(s[i], s[j])
    BY <2>1, PlacesAreOneEach
  <2> QED
    BY <2>1, <2>2, OrderFacts
<1> HIDE DEF s, n
<1>4. TripShape(Ground, {})
  <2>1. Walked(<<>>, 0) = Ground
    <3>1. DOMAIN <<>> = 1..0 /\ 0 \in Nat
      OBVIOUS
    <3> QED
      BY <3>1, WalkRowByRow
  <2>2. Ground.current = <<>> /\ Ground.episodes = {} /\ Alone(Ground) = Ground /\ Len(<<>>) = 0
    <3>1. Ground.current = <<>> /\ Ground.episodes = {} /\ Len(<<>>) = 0
      BY DEF Ground
    <3>2. Alone(Ground) = Ground
      <4>1. WalkShape(Ground) /\ Ground.held = 0 /\ Ground.current = <<>> /\ ~Ground.short
        BY DEF WalkShape, Ground
      <4> QED
        BY <4>1, AloneIsGround
    <3> QED
      BY <3>1, <3>2
  <2>3. Range(<<>>) = {} /\ Rising(<<>>)
    BY DEF Range, Rising
  <2> QED
    BY <2>1, <2>2, <2>3 DEF TripShape, Replays
<1>5. B = {}
  <2>1. SUFFICES ASSUME B # {} PROVE FALSE
    OBVIOUS
  <2>2. PICK k \in B : \A j \in B : k <= j
    <3>1. B \in SUBSET Nat
      BY <1>1
    <3> HIDE DEF B
    <3> QED
      BY <2>1, <3>1, Least
  <2>3. k # 0
    <3>1. Walked(s, 0) = Ground
      BY <1>1, <1>2, WalkRowByRow
    <3>2. {s[i] : i \in 1..0} = {}
      OBVIOUS
    <3> QED
      BY <1>4, <2>2, <3>1, <3>2
  <2>4. k \in 1..n /\ k - 1 \in 0..n /\ k - 1 \notin B
    BY <1>1, <2>2, <2>3
  <2> DEFINE w == Walked(s, k - 1)
             P == {s[i] : i \in 1..(k - 1)}
  <2>5. WalkShape(w) /\ TripShape(w, P) /\ s[k] \in Transaction
    <3>1. WalkShape(w)
      BY <1>1, <2>4, WalkedShape
    <3>2. TripShape(w, P)
      BY <2>4
    <3> QED
      BY <1>2, <2>4, <3>1, <3>2
  <2>6. Walked(s, k) = Stride(w, s[k])
    BY <1>1, <1>2, <2>4, WalkRowByRow
  <2>7. s[k] \notin P /\ \A r \in P : ComesFirst(r, s[k])
    <3>1. \A i \in 1..(k - 1) : i \in 1..n /\ i < k
      BY <1>1, <2>4
    <3> QED
      BY <1>3, <2>4, <3>1
  <2>8. {s[i] : i \in 1..k} = P \union {s[k]}
    <3>1. 1..k = 1..(k - 1) \union {k}
      BY <2>4
    <3> QED
      BY <3>1
  <2> HIDE DEF w, P
  <2>9. TripShape(Stride(w, s[k]), P \union {s[k]})
    BY <2>5, <2>7, TripStep
  <2> QED
    BY <2>2, <2>6, <2>8, <2>9
<1>6. n \in 0..n
  BY <1>1
<1>7. TripShape(Walked(s, n), {s[i] : i \in 1..n})
  BY <1>5, <1>6
<1> QED
  BY <1>1, <1>7

-----------------------------------------------------------------------------
(* Book: the holding.                                                      *)

(* What a row of P is of when the splits of P have been gone through, and  *)
(* what the rows of a kind come to.  R is the whole book.                  *)
Multiples(R) == [s \in R |-> s.of]
LaterSplits(P, day) == {r \in SplitsOf(P) : r.day > day}
LotsIn(R, P) == [row \in R |-> row.of * Product(Multiples(R), LaterSplits(P, row.day))]
OfKind(P, kind) == {row \in P : row.kind = kind}
TotalIn(R, P, kind) == SumFunctionOnSet(LotsIn(R, P), OfKind(P, kind))

Accounts(w, R, P) == ~w.short => w.held + TotalIn(R, P, "sell") = TotalIn(R, P, "buy")

LEMMA HeldIs ==
  ASSUME NEW w, WalkShape(w), NEW row \in Transaction, ~Stride(w, row).short
  PROVE  ~w.short /\ Stride(w, row).held = Moved(w.held, row)
<1>0. w.held \in Nat
  BY DEF WalkShape
<1>1. CASE Passes(w, row)
  <2>1. ~w.short /\ Stray(w, row) /\ Stride(w, row) = w
    BY <1>1 DEF Passes
  <2>2. CASE row.kind = "dividend"
    BY <2>1, <2>2 DEF Moved
  <2>3. CASE row.kind # "dividend"
    <3>1. row.kind = "split" /\ w.held = 0
      BY <2>1, <2>3 DEF Stray
    <3>2. Moved(w.held, row) = 0 * row.of
      BY <3>1 DEF Moved
    <3>3. 0 * row.of = 0
      BY RowFacts
    <3> QED
      BY <2>1, <3>1, <3>2, <3>3
  <2> QED
    BY <2>2, <2>3
<1>2. CASE GoesShort(w, row)
  BY <1>2 DEF GoesShort, WalkShape
<1>3. ASSUME ~w.short, Closes(w, row) PROVE ~w.short /\ Stride(w, row).held = Moved(w.held, row)
  <2>1. Moved(w.held, row) = 0
    BY <1>0, <1>3 DEF Closes, Moved
  <2>2. Stride(w, row).held = 0
    BY <1>3 DEF Closes, WalkShape
  <2> QED
    BY <1>3, <2>1, <2>2
<1>4. ASSUME ~w.short, GoesOn(w, row) PROVE ~w.short /\ Stride(w, row).held = Moved(w.held, row)
  BY <1>4 DEF GoesOn, WalkShape
<1> QED
  BY <1>1, <1>2, <1>3, <1>4, StrideCases

LEMMA LotsType ==
  ASSUME NEW R, R \subseteq Transaction, IsFiniteSet(R), NEW P, P \subseteq R
  PROVE  /\ \A row \in R : LotsIn(R, P)[row] \in Nat
         /\ \A day : /\ LaterSplits(P, day) \subseteq R /\ IsFiniteSet(LaterSplits(P, day))
                     /\ Product(Multiples(R), LaterSplits(P, day)) \in Nat
         /\ \A kind : /\ IsFiniteSet(OfKind(P, kind)) /\ OfKind(P, kind) \subseteq R
                      /\ TotalIn(R, P, kind) \in Nat
<1>1. \A row \in R : Multiples(R)[row] \in Nat /\ row.of \in Nat
  BY RowFacts DEF Multiples
<1>2. ASSUME NEW day
      PROVE  LaterSplits(P, day) \subseteq R /\ IsFiniteSet(LaterSplits(P, day)) /\ Product(Multiples(R), LaterSplits(P, day)) \in Nat
  <2>1. LaterSplits(P, day) \subseteq R
    BY DEF LaterSplits, SplitsOf
  <2>2. IsFiniteSet(LaterSplits(P, day))
    BY <2>1, FS_Subset
  <2>3. \A s \in LaterSplits(P, day) : Multiples(R)[s] \in Nat
    BY <1>1, <2>1
  <2> QED
    BY <2>1, <2>2, <2>3, ProductType
<1>3. ASSUME NEW row \in R PROVE LotsIn(R, P)[row] \in Nat
  <2>1. LotsIn(R, P)[row] = row.of * Product(Multiples(R), LaterSplits(P, row.day))
    BY DEF LotsIn
  <2>2. \A a, b \in Nat : a * b \in Nat
    OBVIOUS
  <2> QED
    BY <1>1, <1>2, <2>1, <2>2
<1>4. ASSUME NEW kind
      PROVE  /\ IsFiniteSet(OfKind(P, kind)) /\ OfKind(P, kind) \subseteq R
             /\ TotalIn(R, P, kind) \in Nat
  <2>1. OfKind(P, kind) \subseteq R
    BY DEF OfKind
  <2>2. IsFiniteSet(OfKind(P, kind))
    BY <2>1, FS_Subset
  <2>3. \A s \in OfKind(P, kind) : LotsIn(R, P)[s] \in Nat
    BY <1>3, <2>1
  <2> QED
    BY <2>1, <2>2, <2>3, SumType DEF TotalIn
<1> QED
  BY <1>2, <1>3, <1>4

(* One more row accounts for itself: a dividend changes nothing, a trade   *)
(* adds its shares, a split multiplies every lot of an earlier date.       *)
LEMMA SameLots ==
  ASSUME NEW R, NEW P, NEW row, row.kind # "split"
  PROVE  LotsIn(R, P \union {row}) = LotsIn(R, P)
<1>1. \A day : LaterSplits(P \union {row}, day) = LaterSplits(P, day)
  BY DEF LaterSplits, SplitsOf
<1> QED
  BY <1>1 DEF LotsIn

LEMMA AccountsStep ==
  ASSUME NEW R, R \subseteq Transaction, IsFiniteSet(R), NEW P, P \subseteq R,
         NEW row \in R, row \notin P, \A r \in P : r.day <= row.day,
         \A a \in SplitsOf(R), b \in R \ SplitsOf(R) : a.day # b.day,
         NEW w, WalkShape(w), Accounts(w, R, P)
  PROVE  Accounts(Stride(w, row), R, P \union {row})
<1> DEFINE Q == P \union {row}
<1>1. SUFFICES ASSUME ~Stride(w, row).short
               PROVE  Stride(w, row).held + TotalIn(R, Q, "sell") = TotalIn(R, Q, "buy")
  BY DEF Accounts
<1>2. /\ Stride(w, row).held = Moved(w.held, row) /\ w.held \in Nat
      /\ w.held + TotalIn(R, P, "sell") = TotalIn(R, P, "buy")
  BY <1>1, HeldIs DEF Accounts, WalkShape
<1>3. TotalIn(R, P, "sell") \in Nat /\ TotalIn(R, P, "buy") \in Nat
  BY LotsType
<1>4. row.kind \in {"buy", "sell", "dividend", "split"} /\ row.of \in Nat
  BY RowFacts
<1>5. \A kind : row.kind # kind => OfKind(Q, kind) = OfKind(P, kind)
  BY DEF OfKind
<1>6. ASSUME row.kind # "split", NEW kind, row.kind # kind
      PROVE  TotalIn(R, Q, kind) = TotalIn(R, P, kind)
  BY <1>5, <1>6, SameLots DEF TotalIn
<1>7. ASSUME row.kind # "split" PROVE TotalIn(R, Q, row.kind) = row.of + TotalIn(R, P, row.kind)
  <2> DEFINE f == LotsIn(R, P)
             S == OfKind(Q, row.kind)
  <2>1. S = OfKind(P, row.kind) \union {row} /\ row \in S /\ S \ {row} = OfKind(P, row.kind)
    BY DEF OfKind
  <2>2. IsFiniteSet(S) /\ \A s \in S : f[s] \in Nat
    <3>1. Q \subseteq R
      OBVIOUS
    <3>2. IsFiniteSet(S) /\ S \subseteq R
      <4> HIDE DEF Q
      <4> QED
        BY <3>1, LotsType
    <3> HIDE DEF S, f
    <3>3. \A s \in R : LotsIn(R, P)[s] \in Nat
      BY LotsType
    <3> QED
      BY <3>2, <3>3 DEF f
  <2>3. SumFunctionOnSet(f, S) = f[row] + SumFunctionOnSet(f, S \ {row})
    <3> HIDE DEF f, S
    <3> QED
      BY <2>1, <2>2, SumTakeOut
  <2>4. f[row] = row.of
    <3>1. LaterSplits(P, row.day) = {}
      <4>1. \A r \in P : ~(r.day > row.day)
        <5>1. \A r \in P : r.day \in Nat
          BY RowFacts
        <5>2. row.day \in Nat
          BY RowFacts
        <5> QED
          BY <5>1, <5>2
      <4> QED
        BY <4>1 DEF LaterSplits, SplitsOf
    <3>2. f[row] = row.of * 1
      BY <3>1, ProductEmpty DEF LotsIn
    <3> QED
      BY <1>4, <3>2
  <2>5. LotsIn(R, Q) = f
    BY <1>7, SameLots
  <2> HIDE DEF f, S
  <2> QED
    BY <2>1, <2>3, <2>4, <2>5 DEF TotalIn, f, S
<1>8. CASE row.kind = "dividend"
  <2>1. Moved(w.held, row) = w.held
    BY <1>8 DEF Moved
  <2>2. TotalIn(R, Q, "sell") = TotalIn(R, P, "sell") /\ TotalIn(R, Q, "buy") = TotalIn(R, P, "buy")
    BY <1>6, <1>8
  <2> QED
    BY <1>2, <2>1, <2>2
<1>9. CASE row.kind = "buy"
  <2>1. Moved(w.held, row) = w.held + row.of
    BY <1>9 DEF Moved
  <2>2. TotalIn(R, Q, "sell") = TotalIn(R, P, "sell")
    BY <1>6, <1>9
  <2>3. TotalIn(R, Q, "buy") = row.of + TotalIn(R, P, "buy")
    BY <1>7, <1>9
  <2> HIDE DEF Q
  <2> QED
    BY <1>2, <1>3, <1>4, <2>1, <2>2, <2>3
<1>10. CASE row.kind = "sell"
  <2>1. Moved(w.held, row) = w.held - row.of
    BY <1>10 DEF Moved
  <2>2. TotalIn(R, Q, "buy") = TotalIn(R, P, "buy")
    BY <1>6, <1>10
  <2>3. TotalIn(R, Q, "sell") = row.of + TotalIn(R, P, "sell")
    BY <1>7, <1>10
  <2> HIDE DEF Q
  <2> QED
    BY <1>2, <1>3, <1>4, <2>1, <2>2, <2>3
<1>11. CASE row.kind = "split"
  <2>1. Moved(w.held, row) = w.held * row.of
    BY <1>11 DEF Moved
  <2>2. ASSUME NEW r \in P, r.kind # "split"
        PROVE  LotsIn(R, Q)[r] = LotsIn(R, P)[r] * row.of
    <3>1. r.day # row.day /\ r.day <= row.day /\ r.day \in Nat /\ row.day \in Nat
      BY <1>11, <2>2, RowFacts DEF SplitsOf
    <3>2. r.day < row.day
      BY <3>1
    <3> DEFINE K == LaterSplits(Q, r.day)
    <3>3. row \in K /\ K \ {row} = LaterSplits(P, r.day)
      BY <1>11, <3>1, <3>2 DEF LaterSplits, SplitsOf
    <3>4. K \subseteq R /\ IsFiniteSet(K)
      <4>1. Q \subseteq R
        OBVIOUS
      <4> HIDE DEF Q
      <4> QED
        BY <4>1, LotsType
    <3>5. \A s \in R : Multiples(R)[s] = s.of /\ s.of \in Nat
      BY RowFacts DEF Multiples
    <3>6. Product(Multiples(R), K) = Multiples(R)[row] * Product(Multiples(R), K \ {row})
      <4> HIDE DEF K
      <4> QED
        BY <3>3, <3>4, <3>5, ProductTakeOut
    <3>7. Product(Multiples(R), LaterSplits(P, r.day)) \in Nat /\ r.of \in Nat
      BY <3>5, LotsType
    <3>8. /\ LotsIn(R, Q)[r] = r.of * Product(Multiples(R), K)
          /\ LotsIn(R, P)[r] = r.of * Product(Multiples(R), LaterSplits(P, r.day))
      BY DEF LotsIn
    <3>9. \A a, b, c \in Nat : a * (b * c) = (a * c) * b
      OBVIOUS
    <3>10. Product(Multiples(R), K) = row.of * Product(Multiples(R), LaterSplits(P, r.day))
      BY <3>3, <3>5, <3>6
    <3> HIDE DEF K, Q
    <3>11. r.of * (row.of * Product(Multiples(R), LaterSplits(P, r.day)))
             = (r.of * Product(Multiples(R), LaterSplits(P, r.day))) * row.of
      BY <1>4, <3>7, <3>9
    <3> QED
      BY <3>8, <3>10, <3>11
  <2>3. ASSUME NEW kind, kind # "split"
        PROVE  TotalIn(R, Q, kind) = TotalIn(R, P, kind) * row.of
    <3> DEFINE S == OfKind(P, kind)
               f == LotsIn(R, P)
               g == LotsIn(R, Q)
    <3>1. OfKind(Q, kind) = S
      BY <1>5, <1>11, <2>3
    <3>2. IsFiniteSet(S) /\ \A s \in R : f[s] \in Nat
      BY LotsType
    <3>3. \A s \in S : s \in P /\ s.kind # "split"
      BY <2>3 DEF OfKind
    <3>4. \A s \in S : f[s] \in Nat /\ g[s] = f[s] * row.of
      <4> HIDE DEF S, f, g
      <4>1. \A s \in S : g[s] = f[s] * row.of
        BY <2>2, <3>3 DEF f, g
      <4> QED
        BY <3>2, <3>3, <4>1
    <3> HIDE DEF S, f, g, Q
    <3>5. SumFunctionOnSet(g, S) = SumFunctionOnSet(f, S) * row.of
      BY <1>4, <3>2, <3>4, SumScale
    <3> QED
      BY <3>1, <3>5 DEF TotalIn, S, f, g
  <2>4. /\ TotalIn(R, Q, "sell") = TotalIn(R, P, "sell") * row.of
        /\ TotalIn(R, Q, "buy") = TotalIn(R, P, "buy") * row.of
    BY <2>3
  <2>5. \A a, b, c \in Nat : a * c + b * c = (a + b) * c
    OBVIOUS
  <2> HIDE DEF Q
  <2> QED
    BY <1>2, <1>3, <1>4, <2>1, <2>4, <2>5
<1> HIDE DEF Q
<1>12. Stride(w, row).held + TotalIn(R, Q, "sell") = TotalIn(R, Q, "buy")
  BY <1>4, <1>8, <1>9, <1>10, <1>11
<1> QED
  BY <1>12 DEF Q

(* Short once, short to the end.                                           *)
LEMMA ShortStays ==
  ASSUME NEW s, NEW n \in Nat, RowsOf(s, n), ~Walked(s, n).short
  PROVE  \A k \in 0..n : ~Walked(s, k).short
<1> DEFINE B == {j \in 0..n : Walked(s, n - j).short}
<1>1. SUFFICES ASSUME NEW k \in 0..n, Walked(s, k).short PROVE FALSE
  OBVIOUS
<1>2. n - k \in B
  BY <1>1
<1>3. PICK j \in B : \A i \in B : j <= i
  <2>1. B \in SUBSET Nat
    OBVIOUS
  <2> HIDE DEF B
  <2> QED
    BY <1>2, <2>1, Least
<1>4. j # 0
  <2>1. n - 0 = n
    OBVIOUS
  <2> QED
    BY <1>3, <2>1
<1>5. /\ n - j \in 0..n /\ (n - j) + 1 \in 1..n /\ ((n - j) + 1) - 1 = n - j
      /\ j - 1 \in 0..n /\ j - 1 \notin B /\ n - (j - 1) = (n - j) + 1
  BY <1>3, <1>4
<1> DEFINE w == Walked(s, n - j)
           row == s[(n - j) + 1]
<1>6. w.short /\ ~Walked(s, (n - j) + 1).short
  BY <1>3, <1>5
<1>7. WalkShape(w) /\ row \in Transaction
  BY <1>5, WalkedShape DEF RowsOf
<1>8. Walked(s, (n - j) + 1) = Stride(w, row)
  <2>1. DOMAIN s = 1..n
    BY DEF RowsOf
  <2>2. Walked(s, (n - j) + 1) = Stride(Walked(s, ((n - j) + 1) - 1), s[(n - j) + 1])
    BY <1>5, <2>1, WalkRowByRow
  <2> QED
    BY <1>5, <2>2
<1> HIDE DEF w, row
<1> QED
  BY <1>6, <1>7, <1>8, HeldIs

LEMMA WalkAccounts ==
  ASSUME NEW R, Ordered(R), R \subseteq Transaction, ~Walk(R).short,
         \A a \in SplitsOf(R), b \in R \ SplitsOf(R) : a.day # b.day
  PROVE  Accounts(Walk(R), R, R)
<1> DEFINE s == InForce(R)
           n == Cardinality(R)
           B == {k \in 0..n : ~Accounts(Walked(s, k), R, {s[i] : i \in 1..k})}
<1>1. n \in Nat /\ RowsOf(s, n) /\ Walk(R) = Walked(s, n)
  BY WalkOfRows
<1>2. DOMAIN s = 1..n /\ \A i \in 1..n : s[i] \in Transaction
  BY <1>1 DEF RowsOf
<1>3. /\ \A i \in 1..n : s[i] \in R
      /\ \A i, j \in 1..n : i < j => ComesFirst(s[i], s[j]) /\ s[i] # s[j]
      /\ \A row \in R : \E i \in 1..n : s[i] = row
  <2>1. \A i \in 1..n : s[i] \in R /\ PlaceOf(R, s[i]) = i
    BY InForceIs
  <2>2. \A row \in R : \E i \in 1..n : s[i] = row
    BY InForceIs
  <2> HIDE DEF s, n
  <2>3. \A i, j \in 1..n : i < j => ComesFirst(s[i], s[j])
    BY <2>1, PlacesAreOneEach
  <2> QED
    BY <2>1, <2>2, <2>3, OrderFacts
<1> HIDE DEF s, n
<1>4. Accounts(Ground, R, {})
  <2>1. \A kind : OfKind({}, kind) = {}
    BY DEF OfKind
  <2>2. TotalIn(R, {}, "sell") = 0 /\ TotalIn(R, {}, "buy") = 0
    BY <2>1, SumEmpty DEF TotalIn
  <2> QED
    BY <2>2 DEF Accounts, Ground
<1>5. B = {}
  <2>1. SUFFICES ASSUME B # {} PROVE FALSE
    OBVIOUS
  <2>2. PICK k \in B : \A j \in B : k <= j
    <3>1. B \in SUBSET Nat
      BY <1>1
    <3> HIDE DEF B
    <3> QED
      BY <2>1, <3>1, Least
  <2>3. k # 0
    <3>1. Walked(s, 0) = Ground
      BY <1>1, <1>2, WalkRowByRow
    <3>2. {s[i] : i \in 1..0} = {}
      OBVIOUS
    <3> QED
      BY <1>4, <2>2, <3>1, <3>2
  <2>4. k \in 1..n /\ k - 1 \in 0..n /\ k - 1 \notin B
    BY <1>1, <2>2, <2>3
  <2> DEFINE w == Walked(s, k - 1)
             P == {s[i] : i \in 1..(k - 1)}
  <2>5. WalkShape(w) /\ Accounts(w, R, P) /\ s[k] \in R
    <3>1. WalkShape(w)
      BY <1>1, <2>4, WalkedShape
    <3>2. Accounts(w, R, P)
      BY <2>4
    <3> QED
      BY <1>3, <2>4, <3>1, <3>2
  <2>6. Walked(s, k) = Stride(w, s[k])
    BY <1>1, <1>2, <2>4, WalkRowByRow
  <2>7. s[k] \notin P /\ P \subseteq R /\ \A r \in P : ComesFirst(r, s[k])
    <3>1. \A i \in 1..(k - 1) : i \in 1..n /\ i < k
      BY <1>1, <2>4
    <3> QED
      BY <1>3, <2>4, <3>1
  <2>8. {s[i] : i \in 1..k} = P \union {s[k]}
    <3>1. 1..k = 1..(k - 1) \union {k}
      BY <2>4
    <3> QED
      BY <3>1
  <2> HIDE DEF w, P
  <2>9. \A r \in P : r.day <= s[k].day
    <3>1. \A r \in R : r.day \in Int
      BY DEF Ordered
    <3>2. \A a, b \in R : ComesFirst(a, b) => a.day <= b.day
      BY <3>1 DEF ComesFirst
    <3> QED
      BY <2>5, <2>7, <3>2
  <2>10. IsFiniteSet(R)
    BY DEF Ordered
  <2>11. Accounts(Stride(w, s[k]), R, P \union {s[k]})
    BY <2>5, <2>7, <2>9, <2>10, AccountsStep
  <2> QED
    BY <2>2, <2>6, <2>8, <2>11
<1>6. Accounts(Walked(s, n), R, {s[i] : i \in 1..n})
  <2>1. n \in 0..n
    BY <1>1
  <2> QED
    BY <1>5, <2>1
<1>7. {s[i] : i \in 1..n} = R
  BY <1>3
<1> QED
  BY <1>1, <1>6, <1>7

-----------------------------------------------------------------------------
(* Book: the theorems.                                                     *)

(* Type correctness, for any dates, lots, ratios and recorders.            *)
THEOREM BookTypeCorrect == BookSpec => []BookTypeOK
<1>1. BookInv => BookTypeOK
  <2> SUFFICES ASSUME BookInv PROVE BookTypeOK
    OBVIOUS
  <2>1. book \subseteq Transaction /\ actions \subseteq Action /\ recorded \in 0..MaxRecords
    BY DEF BookInv, BookRowsInv
  <2>2. recorder \in [Recorders -> [does : {"rest", "trade", "split"}, action : SUBSET Action,
                                    rows : SUBSET Transaction]]
    BY DEF BookInv, BookRowsInv, Work
  <2>3. \A e \in proposals \cup reviews :
          e.opened \in Dates /\ e.closed \in Dates /\ e.trades \subseteq Transaction
    BY DEF BookInv, ReviewsInv, Episodes
  <2>4. backdated \in BOOLEAN /\ crossed \in BOOLEAN
    BY DEF BookInv, FlagsInv
  <2> QED
    BY <2>1, <2>2, <2>3, <2>4 DEF BookTypeOK
<1> QED
  BY <1>1, BookInvHolds, PTL

(* Once passed over and confirmed, a position stays a closed position of   *)
(* the book as it was reviewed, whatever is recorded after it one at a     *)
(* time (confirm_review, and the walk that review_due starts from).        *)
THEOREM ReviewsStandFast == BookSpec => []ReviewsStand
<1>1. BookInv => ReviewsStand
  BY DEF BookInv, ReviewsInv, ReviewsStand
<1> QED
  BY <1>1, BookInvHolds, PTL

(* However the rows came, the closed positions are the round trips of the  *)
(* book: each is bought before it is sold, ends on a sale, walks to itself *)
(* alone, and shares no row with another (_walk).                          *)
THEOREM ClosedPositionsAreRoundTrips == BookSpec => []EpisodesAreRoundTrips
<1>1. BookInv => EpisodesAreRoundTrips
  <2> SUFFICES ASSUME BookInv PROVE EpisodesAreRoundTrips
    OBVIOUS
  <2>1. Ordered(book) /\ book \subseteq Transaction
    BY BookIsOrdered DEF BookInv, BookRowsInv
  <2>2. PICK P : TripShape(Walk(book), P)
    BY <2>1, WalkMakesTrips
  <2> QED
    BY <2>2 DEF TripShape, RoundTrip, EpisodesAreRoundTrips
<1> QED
  BY <1>1, BookInvHolds, PTL

(* In whatever order it was recorded, the walk holds what the book's       *)
(* history comes to: the lots bought less those sold, each multiplied by   *)
(* the splits of later dates (_walk).                                      *)
THEOREM HoldingsAreTheHistory == BookSpec => []HoldingIsTheHistory
<1>1. BookInv => HoldingIsTheHistory
  <2> SUFFICES ASSUME BookInv, ~DealtOnASplit, ~Walk(book).short
               PROVE  Walk(book).held = Total(Bought("buy")) - Total(Bought("sell"))
    BY DEF HoldingIsTheHistory
  <2>1. Ordered(book) /\ book \subseteq Transaction /\ IsFiniteSet(book)
    BY BookIsOrdered DEF BookInv, BookRowsInv
  <2>2. \A a \in SplitsOf(book), b \in book \ SplitsOf(book) : a.day # b.day
    BY DEF DealtOnASplit
  <2>3. Walk(book).held + TotalIn(book, book, "sell") = TotalIn(book, book, "buy")
    BY <2>1, <2>2, WalkAccounts DEF Accounts
  <2>4. Walk(book).held \in Nat
    BY <2>1, WalkOfRows DEF WalkShape
  <2>5. TotalIn(book, book, "sell") \in Nat /\ TotalIn(book, book, "buy") \in Nat
    BY <2>1, LotsType
  <2>6. \A kind : Total(Bought(kind)) = TotalIn(book, book, kind)
    <3>1. \A day : SplitsAfter(day) = LaterSplits(book, day)
      BY DEF SplitsAfter, LaterSplits
    <3>2. [row \in book |-> LotNow(row)] = LotsIn(book, book)
      BY <3>1 DEF LotNow, LotsIn, Product, Multiples
    <3>3. \A kind : Bought(kind) = OfKind(book, kind)
      BY DEF Bought, OfKind
    <3> QED
      BY <3>2, <3>3 DEF Total, TotalIn
  <2> QED
    BY <2>3, <2>4, <2>5, <2>6
<1> QED
  BY <1>1, BookInvHolds, PTL

=============================================================================
