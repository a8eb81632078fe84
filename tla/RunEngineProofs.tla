-------------------------- MODULE RunEngineProofs --------------------------
(***************************************************************************)
(* Theorems about RunEngine, for any workflow, any number of executors and *)
(* any bounds.  Types first; then the parts of EngineInv, each with one    *)
(* step per group of actions; then what follows from it.                   *)
(***************************************************************************)
EXTENDS RunEngine, SetFacts, TLAPS

(* The actions by what they change, so that a proof about one variable     *)
(* need not open the others.                                               *)
LEMMA NextCases ==
  ASSUME Next,
         NEW Goal,
         \A w \in Workers : Dequeue(w) => Goal,
         \A c \in Shells : StepOnce(c) => Goal,
         \A e \in Executors : Execute(e) => Goal,
         \A e \in Executors : Cancel(e) => Goal,
         \A e \in Executors : Skip(e) => Goal,
         \A e \in Executors : TakeOne(e) => Goal,
         \A e \in Executors : TakeWave(e) => Goal,
         \A e \in Executors : Finish(e) => Goal,
         \A e \in Executors, s \in Steps : StartStep(e, s) => Goal,
         \A e \in Executors, s \in Steps : ReadGate(e, s) => Goal,
         \A e \in Executors, s \in Steps : RefuseNode(e, s) => Goal,
         \A e \in Executors, s \in Steps, o \in Outcome : EndSerial(e, s, o) => Goal,
         \A e \in Executors, s \in Steps, o \in Outcome : EndNode(e, s, o) => Goal,
         \A e \in Executors : ApplyReports(e) => Goal,
         \A e \in Executors : Crash(e) => Goal,
         WebProcess => Goal
  PROVE  Goal
<1>1. ASSUME NEW e \in Executors, Engine(e) PROVE Goal
  BY <1>1 DEF Engine, StepWork
<1> QED
  BY <1>1 DEF Next

-----------------------------------------------------------------------------
(* Types.                                                                  *)

LEMMA Constants ==
  /\ NoNode \in [Steps -> Phase]
  /\ "QUEUED" \in JobStatus /\ "RUNNING" \in JobStatus /\ Terminal \subseteq JobStatus
  /\ Stopped \subseteq JobStatus
  /\ Workers \subseteq Executors /\ Shells \subseteq Executors
  BY DEF NoNode, Phase, JobStatus, Terminal, Stopped, Executors

LEMMA RowAfterType ==
  ASSUME NEW o \in Outcome \cup {"declined"}
  PROVE  /\ RowAfter[o] \in RowStatus \ {"NONE", "RUNNING"}
         /\ RowAfter[o] = "SUCCEEDED" <=> o = "succeeded"
         /\ o \in Paused \cup {"declined"} => RowAfter[o] \in Stopped
  BY DEF RowAfter, Outcome, RowStatus, Paused, Stopped

ExecTypeOK ==
  /\ pc \in [Executors -> Control]
  /\ known \in [Executors -> JobStatus]
  /\ stepping \in [Executors -> BOOLEAN]
  /\ outputs \in [Executors -> SUBSET Steps]
  /\ pending \in [Executors -> SUBSET Steps]
  /\ abandoned \in [Executors -> SUBSET Steps]
  /\ failure \in [Executors -> BOOLEAN]
  /\ node \in [Executors -> [Steps -> Phase]]

LEMMA RestType ==
  ASSUME ExecTypeOK, NEW e \in Executors, Rest(e)
  PROVE  ExecTypeOK'
  BY Constants DEF ExecTypeOK, Rest, Goto, Control

LEMMA LoadType ==
  ASSUME ExecTypeOK, NEW e \in Executors, NEW status \in JobStatus,
         NEW mode \in BOOLEAN, Load(e, status, mode)
  PROVE  ExecTypeOK'
  BY DEF ExecTypeOK, Load, Goto, Control, graph

LEMMA TypeInit == Init => TypeOK
<1> SUFFICES ASSUME Init PROVE TypeOK
  OBVIOUS
<1>1. ExecTypeOK
  BY Constants DEF Init, ExecTypeOK, Control
<1>2. queue \in Nat
  BY DEF Init
<1>3. web \in Web
  BY Constants DEF Init, NoRequest, Web
<1>4. row \in [Steps -> RowStatus] /\ decision \in [Gates -> Verdict]
  BY DEF Init, RowStatus, Verdict
<1> QED
  BY <1>1, <1>2, <1>3, <1>4, Constants DEF Init, TypeOK, ExecTypeOK

LEMMA TypeStep == TypeOK /\ [Next]_vars => TypeOK'
<1> SUFFICES ASSUME TypeOK, [Next]_vars PROVE TypeOK'
  OBVIOUS
<1> USE Constants
<1>0. ExecTypeOK
  BY DEF TypeOK, ExecTypeOK
<1>split. ASSUME ExecTypeOK',
                 jobStatus' \in JobStatus, stepMode' \in BOOLEAN,
                 row' \in [Steps -> RowStatus], done' \in SUBSET Steps,
                 queue' \in Nat, tickets' \in Nat, crashes' \in Nat,
                 UNCHANGED <<cancelled, decision, web>>
          PROVE  TypeOK'
  BY <1>split DEF TypeOK, ExecTypeOK
<1>1. ASSUME NEW w \in Workers, Dequeue(w) PROVE TypeOK'
  <2>1. ExecTypeOK'
    BY <1>0, <1>1, LoadType DEF Dequeue, TypeOK
  <2> QED
    BY <1>1, <1>split, <2>1 DEF Dequeue, TypeOK, db, history
<1>2. ASSUME NEW c \in Shells, StepOnce(c) PROVE TypeOK'
  <2>1. jobStatus' \in JobStatus
    BY <1>2 DEF StepOnce, TypeOK
  <2>2. ExecTypeOK'
    BY <1>0, <1>2, <2>1, LoadType DEF StepOnce
  <2> QED
    BY <1>2, <1>split, <2>1, <2>2, BoundsAssumption DEF StepOnce, TypeOK
<1>3. ASSUME NEW e \in Executors, Execute(e) PROVE TypeOK'
  <2>1. ExecTypeOK'
    <3>1. CASE Rest(e)
      BY <1>0, <3>1, RestType
    <3>2. CASE ~Rest(e)
      <4>1. /\ pc' = [pc EXCEPT ![e] = "round"]
            /\ known' = [known EXCEPT ![e] = "RUNNING"]
            /\ pending' = [pending EXCEPT ![e] = Steps]
            /\ UNCHANGED <<stepping, outputs, abandoned, failure, node>>
        BY <1>3, <3>2 DEF Execute, Goto
      <4> QED
        BY <1>0, <4>1 DEF ExecTypeOK, Control
    <3> QED
      BY <3>1, <3>2
  <2> QED
    BY <1>3, <1>split, <2>1 DEF Execute, TypeOK, history
<1>4. ASSUME NEW e \in Executors, Cancel(e) PROVE TypeOK'
  <2>1. ExecTypeOK'
    BY <1>0, <1>4, RestType DEF Cancel, StopWith
  <2> QED
    BY <1>4, <1>split, <2>1 DEF Cancel, StopWith, TypeOK, history, Terminal
<1>stock. ASSUME NEW e \in Executors, NEW chosen, TakeStock(e, chosen),
                 pc' \in [Executors -> Control], node' \in [Executors -> [Steps -> Phase]]
          PROVE  ExecTypeOK'
  BY <1>0, <1>stock DEF ExecTypeOK, TakeStock, Stored, Ready, Remaining, Blocked, memory
<1>5. ASSUME NEW e \in Executors, Skip(e) PROVE TypeOK'
  <2>1. ExecTypeOK'
    BY <1>0, <1>5, <1>stock DEF Skip, ExecTypeOK
  <2> QED
    BY <1>5, <1>split, <2>1 DEF Skip, TypeOK, db, history
<1>6. ASSUME NEW e \in Executors, TakeOne(e) PROVE TypeOK'
  <2>1. node' \in [Executors -> [Steps -> Phase]]
    BY <1>0, <1>6 DEF TakeOne, ExecTypeOK, Phase
  <2>2. ExecTypeOK'
    BY <1>0, <1>6, <2>1, <1>stock DEF TakeOne, Goto, ExecTypeOK, Control
  <2> QED
    BY <1>6, <1>split, <2>2 DEF TakeOne, TypeOK, db, history
<1>7. ASSUME NEW e \in Executors, TakeWave(e) PROVE TypeOK'
  <2>1. \A refused : Admission(e, refused) \in [Steps -> Phase]
    BY DEF Admission, Phase
  <2>2. node' \in [Executors -> [Steps -> Phase]]
    BY <1>0, <1>7, <2>1 DEF TakeWave, ExecTypeOK
  <2>3. ExecTypeOK'
    BY <1>0, <1>7, <2>2, <1>stock DEF TakeWave, Goto, ExecTypeOK, Control
  <2> QED
    BY <1>7, <1>split, <2>3 DEF TakeWave, TypeOK, db, history
<1>8. ASSUME NEW e \in Executors, Finish(e) PROVE TypeOK'
  <2>1. ExecTypeOK'
    BY <1>0, <1>8, RestType DEF Finish, StopWith
  <2> QED
    BY <1>8, <1>split, <2>1 DEF Finish, StopWith, TypeOK, history, Terminal
<1>advance. ASSUME NEW e \in Executors, NEW s \in Steps, NEW from, NEW to \in Phase,
                   Advance(e, s, from, to)
            PROVE  ExecTypeOK'
  BY <1>0, <1>advance DEF Advance, ExecTypeOK, memory, graph
<1>9. ASSUME NEW e \in Executors, NEW s \in Steps, StartStep(e, s) PROVE TypeOK'
  <2>1. ExecTypeOK'
    BY <1>9, <1>advance DEF StartStep, Phase
  <2> QED
    BY <1>9, <1>split, <2>1 DEF StartStep, TypeOK, RowStatus, history
<1>10. ASSUME NEW e \in Executors, NEW s \in Steps, ReadGate(e, s) PROVE TypeOK'
  <2>1. ExecTypeOK'
    BY <1>10, <1>advance DEF ReadGate, Phase
  <2> QED
    BY <1>10, <1>split, <2>1 DEF ReadGate, TypeOK, db, history
<1>11. ASSUME NEW e \in Executors, NEW s \in Steps, RefuseNode(e, s) PROVE TypeOK'
  <2>1. ExecTypeOK'
    BY <1>11, <1>advance DEF RefuseNode, Phase
  <2> QED
    BY <1>11, <1>split, <2>1, RowAfterType DEF RefuseNode, TypeOK, history
<1>record. ASSUME NEW s \in Steps, NEW o \in Outcome, Record(s, o)
           PROVE  row' \in [Steps -> RowStatus] /\ done' \in SUBSET Steps
  BY <1>record, RowAfterType DEF Record, TypeOK
<1>12. ASSUME NEW e \in Executors, NEW s \in Steps, NEW o \in Outcome, EndSerial(e, s, o)
       PROVE  TypeOK'
  <2>1. jobStatus' \in JobStatus
    <3>1. \/ jobStatus' \in {jobStatus, "SUCCEEDED", "FAILED", "PAUSED"}
          \/ o \in Paused /\ jobStatus' = RowAfter[o]
      BY <1>12 DEF EndSerial, StopWith
    <3>2. o \in Paused => RowAfter[o] \in JobStatus
      BY RowAfterType DEF Stopped
    <3>3. {jobStatus, "SUCCEEDED", "FAILED", "PAUSED"} \subseteq JobStatus
      BY DEF TypeOK, Terminal, Stopped
    <3> QED
      BY <3>1, <3>2, <3>3
  <2>2. ExecTypeOK'
    <3>1. CASE Rest(e)
      BY <1>0, <3>1, RestType
    <3>2. CASE ~Rest(e)
      <4>1. /\ pc' = [pc EXCEPT ![e] = "round"]
            /\ known' \in {known, [known EXCEPT ![e] = "SUCCEEDED"]}
            /\ outputs' = [outputs EXCEPT ![e] = @ \cup {s}]
            /\ node' = [node EXCEPT ![e] = NoNode]
            /\ UNCHANGED <<stepping, pending, abandoned, failure>>
        BY <1>12, <3>2 DEF EndSerial, StopWith, Goto
      <4>2. pc' \in [Executors -> Control]
        BY <1>0, <4>1 DEF ExecTypeOK, Control
      <4>3. known' \in [Executors -> JobStatus]
        BY <1>0, <4>1 DEF ExecTypeOK, Terminal
      <4>4. outputs' \in [Executors -> SUBSET Steps]
        BY <1>0, <4>1 DEF ExecTypeOK
      <4>5. node' \in [Executors -> [Steps -> Phase]]
        BY <1>0, <4>1 DEF ExecTypeOK
      <4> QED
        BY <1>0, <4>1, <4>2, <4>3, <4>4, <4>5 DEF ExecTypeOK
    <3> QED
      BY <3>1, <3>2
  <2> QED
    BY <1>12, <1>split, <1>record, <2>1, <2>2 DEF EndSerial, TypeOK
<1>13. ASSUME NEW e \in Executors, NEW s \in Steps, NEW o \in Outcome, EndNode(e, s, o)
       PROVE  TypeOK'
  <2>1. ExecTypeOK'
    BY <1>13, <1>advance DEF EndNode, Outcome, Phase
  <2> QED
    BY <1>13, <1>split, <1>record, <2>1 DEF EndNode, TypeOK
<1>14. ASSUME NEW e \in Executors, ApplyReports(e) PROVE TypeOK'
  <2>1. \A s \in Steps : LastPaused(e, s) => RowAfter[node[e][s]] \in Stopped
    BY RowAfterType DEF LastPaused, PausedIn, In, Paused, Outcome
  <2>2. jobStatus' \in JobStatus
    BY <1>14, <2>1 DEF ApplyReports, StopWith, TypeOK, Terminal
  <2>3. ExecTypeOK'
    <3>1. CASE Rest(e)
      BY <1>0, <3>1, RestType
    <3>2. CASE ~Rest(e)
      <4> DEFINE failing == FailureSeen(e)
      <4>1. /\ pc' = [pc EXCEPT ![e] = "round"]
            /\ outputs' = [outputs EXCEPT ![e] = @ \cup In(e, {"succeeded"})]
            /\ pending' = [pending EXCEPT ![e] = @ \ Reported(e)]
            /\ abandoned' = [abandoned EXCEPT ![e] = @ \cup In(e, {"failed"})]
            /\ failure' = [failure EXCEPT ![e] = failing]
            /\ node' = [node EXCEPT ![e] = NoNode]
            /\ UNCHANGED <<known, stepping>>
        BY <1>14, <3>2 DEF ApplyReports, StopWith, Goto, memory
      <4>2. failing \in BOOLEAN
        BY DEF FailureSeen
      <4>3. failure' \in [Executors -> BOOLEAN]
        <5> HIDE DEF failing
        <5> QED
          BY <1>0, <4>1, <4>2 DEF ExecTypeOK
      <4>4. In(e, {"succeeded"}) \in SUBSET Steps /\ In(e, {"failed"}) \in SUBSET Steps
        BY DEF In
      <4> HIDE DEF failing
      <4> QED
        BY <1>0, <4>1, <4>3, <4>4 DEF ExecTypeOK, Control
    <3> QED
      BY <3>1, <3>2
  <2> QED
    BY <1>14, <1>split, <2>2, <2>3 DEF ApplyReports, TypeOK, history
<1>15. ASSUME NEW e \in Executors, Crash(e) PROVE TypeOK'
  <2>1. ExecTypeOK'
    BY <1>0, <1>15, RestType DEF Crash
  <2> QED
    BY <1>15, <1>split, <2>1 DEF Crash, TypeOK, db
<1>unch. ASSUME UNCHANGED exec PROVE ExecTypeOK'
  BY <1>0, <1>unch DEF ExecTypeOK, exec, memory, graph
<1>16. CASE WebProcess
  <2>0. ExecTypeOK'
    BY <1>16, <1>unch DEF WebProcess, StartAgain, Decide, ReadForCancel,
          RequestCancellation, ReadForResume, ResumeRun
  <2>e. ASSUME Enqueue PROVE queue' \in Nat /\ tickets' \in Nat
    BY <2>e, BoundsAssumption DEF TypeOK, Enqueue
  <2> DEFINE Rest3 == decision' \in [Gates -> Verdict] /\ web' \in Web /\ cancelled' \in BOOLEAN
  <2>s. ASSUME Rest3, jobStatus' \in JobStatus, stepMode' \in BOOLEAN,
               queue' \in Nat, tickets' \in Nat, UNCHANGED <<row, done, crashes>>
        PROVE  TypeOK'
    BY <2>0, <2>s DEF TypeOK, ExecTypeOK
  <2>1. CASE StartAgain
    BY <2>1, <2>e, <2>s DEF TypeOK, StartAgain, db
  <2>2. ASSUME NEW g \in Gates, Decide(g) PROVE TypeOK'
    <3>1. queue' \in Nat /\ tickets' \in Nat
      BY <2>2, <2>e DEF Decide, TypeOK
    <3>2. decision' \in [Gates -> Verdict]
      BY <2>2 DEF Decide, TypeOK, Verdict
    <3> QED
      BY <2>2, <2>s, <3>1, <3>2 DEF TypeOK, Decide
  <2>3. CASE ReadForCancel
    <3>1. web' \in Web
      BY <2>3 DEF TypeOK, ReadForCancel, Web
    <3> QED
      BY <2>3, <2>s, <3>1 DEF TypeOK, ReadForCancel, db, history
  <2>4. CASE RequestCancellation
    <3>1. web' \in Web
      BY <2>4 DEF RequestCancellation, NoRequest, Web
    <3> QED
      BY <2>4, <2>s, <3>1 DEF TypeOK, RequestCancellation, Terminal, history
  <2>5. CASE ReadForResume
    <3>1. web' \in Web
      BY <2>5 DEF TypeOK, ReadForResume, Web
    <3> QED
      BY <2>5, <2>s, <3>1 DEF TypeOK, ReadForResume, db, history
  <2>6. CASE ResumeRun
    <3>1. web' \in Web
      BY <2>6 DEF ResumeRun, NoRequest, Web
    <3> QED
      BY <2>6, <2>s, <2>e, <3>1 DEF TypeOK, ResumeRun
  <2> QED
    BY <1>16, <2>1, <2>2, <2>3, <2>4, <2>5, <2>6 DEF WebProcess
<1>17. CASE UNCHANGED vars
  BY <1>17 DEF TypeOK, vars
<1>18. CASE Next
  <2> QED
    BY <1>18, <1>1, <1>2, <1>3, <1>4, <1>5, <1>6, <1>7, <1>8, <1>9, <1>10, <1>11, <1>12,
       <1>13, <1>14, <1>15, <1>16, NextCases
<1> QED
  BY <1>17, <1>18

(* The types hold of every reachable state.                                *)
THEOREM TypeCorrect == Spec => []TypeOK
  BY TypeInit, TypeStep, PTL DEF Spec

-----------------------------------------------------------------------------
(* What a step does to the record of the run.                              *)

(* Only the end of a step records it done, and only a step that was in its *)
(* executor's hands, running or at an open gate, ends so.                  *)
LEMMA RecordedDone ==
  ASSUME TypeOK, Next
  PROVE  \/ done' = done
         \/ \E e \in Executors, s \in Steps :
              /\ done' = done \cup {s} /\ UNCHANGED decision
              /\ node[e][s] # "out" /\ (s \in Gates => node[e][s] = "open")
<1> DEFINE Goal ==
      \/ done' = done
      \/ \E e \in Executors, s \in Steps :
           /\ done' = done \cup {s} /\ UNCHANGED decision
           /\ node[e][s] # "out" /\ (s \in Gates => node[e][s] = "open")
<1>1. ASSUME NEW e \in Executors, NEW s \in Steps, NEW o \in Outcome,
             EndSerial(e, s, o) \/ EndNode(e, s, o)
      PROVE  Goal
  BY <1>1, GatesAssumption DEF EndSerial, EndNode, Record, CanEnd
<1>2. WebProcess => Goal
  BY DEF WebProcess, StartAgain, Decide, ReadForCancel, RequestCancellation,
         ReadForResume, ResumeRun, history
<1>3. ASSUME NEW e \in Executors,
             \/ Execute(e) \/ Cancel(e) \/ Skip(e) \/ TakeOne(e) \/ TakeWave(e)
             \/ Finish(e) \/ ApplyReports(e) \/ Crash(e)
             \/ \E s \in Steps : StartStep(e, s) \/ ReadGate(e, s) \/ RefuseNode(e, s)
      PROVE  Goal
  BY <1>3 DEF Execute, Cancel, Skip, TakeOne, TakeWave, Finish, ApplyReports, Crash,
              StartStep, ReadGate, RefuseNode, history
<1>4. (\A w \in Workers : Dequeue(w) => Goal) /\ (\A c \in Shells : StepOnce(c) => Goal)
  BY DEF Dequeue, StepOnce, history
<1> HIDE DEF Goal
<1>5. Goal
  BY <1>1, <1>2, <1>3, <1>4, NextCases
<1> QED
  BY <1>5 DEF Goal

(* An approval is never taken back.                                        *)
LEMMA ApprovalsStand ==
  ASSUME TypeOK, [Next]_vars, NEW g \in Gates, decision[g] = "APPROVED"
  PROVE  decision'[g] = "APPROVED"
<1> DEFINE Goal == decision'[g] = "APPROVED"
<1>1. WebProcess => Goal
  BY DEF WebProcess, StartAgain, Decide, MayDecide, ReadForCancel, RequestCancellation,
         ReadForResume, ResumeRun, db, TypeOK
<1>2. ASSUME NEW e \in Executors,
             \/ Execute(e) \/ Cancel(e) \/ Skip(e) \/ TakeOne(e) \/ TakeWave(e)
             \/ Finish(e) \/ ApplyReports(e) \/ Crash(e)
             \/ \E s \in Steps : StartStep(e, s) \/ ReadGate(e, s) \/ RefuseNode(e, s)
             \/ \E s \in Steps, o \in Outcome : EndSerial(e, s, o) \/ EndNode(e, s, o)
      PROVE  Goal
  BY <1>2 DEF Execute, Cancel, Skip, TakeOne, TakeWave, Finish, ApplyReports, Crash,
              StartStep, ReadGate, RefuseNode, EndSerial, EndNode, db
<1>3. (\A w \in Workers : Dequeue(w) => Goal) /\ (\A c \in Shells : StepOnce(c) => Goal)
  BY DEF Dequeue, StepOnce, db
<1>4. CASE Next
  <2> HIDE DEF Goal
  <2>1. Goal
    BY <1>1, <1>2, <1>3, <1>4, NextCases
  <2> QED
    BY <2>1 DEF Goal
<1>5. CASE UNCHANGED vars
  BY <1>5 DEF vars
<1> QED
  BY <1>4, <1>5

LEMMA DoneGrows ==
  ASSUME TypeOK, [Next]_vars
  PROVE  done \subseteq done'
  BY RecordedDone DEF vars

(* What becomes done was next in the plan, its gate approved.              *)
LEMMA CompletesInOrder ==
  ASSUME TypeOK, HeldInv, [Next]_vars, NEW s \in done', s \notin done
  PROVE  /\ Needs[s] \subseteq done
         /\ s \in Gates \ Waived => decision[s] = "APPROVED"
         /\ done' = done \cup {s}
         /\ s \in Steps
         /\ UNCHANGED decision
<1>1. Next
  BY DEF vars
<1> QED
  BY <1>1, RecordedDone DEF HeldInv, MayOpen

LEMMA DoneStep == TypeOK /\ HeldInv /\ DoneInv /\ [Next]_vars => DoneInv'
<1> SUFFICES ASSUME TypeOK, HeldInv, DoneInv, [Next]_vars, NEW s \in done'
             PROVE  Needs[s] \subseteq done' /\ (s \in Gates \ Waived => decision'[s] = "APPROVED")
  BY DEF DoneInv
<1>1. CASE s \in done
  BY <1>1, DoneGrows, ApprovalsStand DEF DoneInv
<1>2. CASE s \notin done
  BY <1>2, DoneGrows, CompletesInOrder, ApprovalsStand
<1> QED
  BY <1>1, <1>2

(* A row moves only for a step some executor has in hand.                  *)
LEMMA RowMoves ==
  ASSUME TypeOK, [Next]_vars, NEW s \in Steps, row'[s] # row[s]
  PROVE  /\ \E e \in Executors : node[e][s] # "out"
         /\ row'[s] = "SUCCEEDED" => s \in done'
<1> DEFINE Goal == /\ \E e \in Executors : node[e][s] # "out"
                   /\ row'[s] = "SUCCEEDED" => s \in done'
<1>1. ASSUME NEW e \in Executors, NEW t \in Steps, NEW o \in Outcome,
             EndSerial(e, t, o) \/ EndNode(e, t, o)
      PROVE  Goal
  <2>1. Record(t, o) /\ CanEnd(node[e][t], t, o)
    BY <1>1 DEF EndSerial, EndNode
  <2>2. s = t
    BY <2>1 DEF Record, TypeOK
  <2>3. node[e][s] # "out"
    BY <2>1, <2>2 DEF CanEnd
  <2>4. row'[s] = "SUCCEEDED" => o = "succeeded"
    BY <2>1, <2>2, RowAfterType DEF Record, TypeOK
  <2> QED
    BY <2>1, <2>2, <2>3, <2>4 DEF Record
<1>2. ASSUME NEW e \in Executors, NEW t \in Steps, StartStep(e, t) \/ RefuseNode(e, t)
      PROVE  Goal
  <2>1. s = t
    BY <1>2 DEF StartStep, RefuseNode, TypeOK
  <2>2. node[e][t] # "out"
    BY <1>2 DEF StartStep, RefuseNode, Advance
  <2>3. row'[t] # "SUCCEEDED"
    BY <1>2, RowAfterType DEF StartStep, RefuseNode, TypeOK
  <2> QED
    BY <2>1, <2>2, <2>3
<1>3. WebProcess => Goal
  BY DEF WebProcess, StartAgain, Decide, ReadForCancel, RequestCancellation,
         ReadForResume, ResumeRun, db
<1>4. ASSUME NEW e \in Executors,
             \/ Execute(e) \/ Cancel(e) \/ Skip(e) \/ TakeOne(e) \/ TakeWave(e)
             \/ Finish(e) \/ ApplyReports(e) \/ Crash(e)
             \/ \E t \in Steps : ReadGate(e, t)
      PROVE  Goal
  BY <1>4 DEF Execute, Cancel, Skip, TakeOne, TakeWave, Finish, ApplyReports, Crash,
              ReadGate, db
<1>5. (\A w \in Workers : Dequeue(w) => Goal) /\ (\A c \in Shells : StepOnce(c) => Goal)
  BY DEF Dequeue, StepOnce, db
<1>6. Next
  BY DEF vars
<1> HIDE DEF Goal
<1>7. Goal
  BY <1>1, <1>2, <1>3, <1>4, <1>5, <1>6, NextCases
<1> QED
  BY <1>7 DEF Goal

LEMMA RowsStep == TypeOK /\ HeldInv /\ RowsInv /\ [Next]_vars => RowsInv'
<1> SUFFICES ASSUME TypeOK, HeldInv, RowsInv, [Next]_vars, NEW s \in Steps
             PROVE  /\ row'[s] = "SUCCEEDED" => s \in done'
                    /\ row'[s] # "NONE" => Needs[s] \subseteq done'
  BY DEF RowsInv, Begun
<1>1. CASE row'[s] = row[s]
  BY <1>1, DoneGrows DEF RowsInv, Begun
<1>2. CASE row'[s] # row[s]
  <2>1. Needs[s] \subseteq done
    BY <1>2, RowMoves DEF HeldInv
  <2> QED
    BY <1>2, <2>1, RowMoves, DoneGrows
<1> QED
  BY <1>1, <1>2

-----------------------------------------------------------------------------
(* What an executor holds.                                                 *)

(* HeldInv survives if what an executor gains was already so.              *)
Gains(e) ==
  /\ outputs'[e] \subseteq outputs[e] \cup done'
  /\ \A s \in Steps :
       \/ node'[e][s] = node[e][s]
       \/ node'[e][s] = "out"
       \/ /\ Needs[s] \subseteq done
          /\ node'[e][s] = "open" => s \in Gates /\ MayOpen(s)
          /\ node'[e][s] = "succeeded" => s \in done'

LEMMA HeldFromGains ==
  ASSUME TypeOK, HeldInv, [Next]_vars, \A e \in Executors : Gains(e)
  PROVE  HeldInv'
<1>1. done \subseteq done'
  BY DoneGrows
<1>2. \A g \in Gates : MayOpen(g) => MayOpen(g)'
  BY ApprovalsStand DEF MayOpen
<1> QED
  BY <1>1, <1>2 DEF HeldInv, Gains

LEMMA GainsWhenSame ==
  ASSUME NEW e \in Executors, outputs'[e] = outputs[e], node'[e] = node[e]
  PROVE  Gains(e)
  BY DEF Gains

LEMMA GainsWhenResting ==
  ASSUME TypeOK, NEW e \in Executors, Rest(e)
  PROVE  \A f \in Executors : Gains(f)
<1> SUFFICES ASSUME NEW f \in Executors PROVE Gains(f)
  OBVIOUS
<1>1. CASE f = e
  <2>1. outputs'[f] = {} /\ node'[f] = NoNode
    BY <1>1 DEF Rest, TypeOK
  <2> QED
    BY <2>1 DEF Gains, NoNode
<1>2. CASE f # e
  BY <1>2, GainsWhenSame DEF Rest, TypeOK
<1> QED
  BY <1>1, <1>2

LEMMA GainsWhenAdvancing ==
  ASSUME TypeOK, HeldInv, NEW e \in Executors, NEW s \in Steps, NEW from, NEW to,
         Advance(e, s, from, to), from # "out",
         to = "open" => s \in Gates /\ MayOpen(s),
         to = "succeeded" => s \in done'
  PROVE  \A f \in Executors : Gains(f)
<1> SUFFICES ASSUME NEW f \in Executors PROVE Gains(f)
  OBVIOUS
<1>1. CASE f = e
  <2>1. \A t \in Steps : node'[e][t] = IF t = s THEN to ELSE node[e][t]
    BY DEF Advance, TypeOK
  <2>2. Needs[s] \subseteq done /\ outputs'[e] = outputs[e]
    BY DEF HeldInv, Advance, graph
  <2> QED
    BY <1>1, <2>1, <2>2 DEF Gains
<1>2. CASE f # e
  <2>1. outputs'[f] = outputs[f] /\ node'[f] = node[f]
    BY <1>2 DEF Advance, graph, TypeOK
  <2> QED
    BY <2>1, GainsWhenSame
<1> QED
  BY <1>1, <1>2

(* What a round takes was ready: what it needs is done, and what it takes  *)
(* from its row is done itself.                                            *)
LEMMA ReadyIsBacked ==
  ASSUME TypeOK, RowsInv, HeldInv, NEW e \in Executors
  PROVE  /\ Stored(e) \subseteq done
         /\ \A s \in Fresh(e) : s \in Steps /\ Needs[s] \subseteq done
         /\ Fresh(e) \subseteq pending[e] /\ Stored(e) \subseteq pending[e]
<1>1. Ready(e) \subseteq Steps /\ Ready(e) \subseteq pending[e]
  BY DEF Ready, Remaining, TypeOK
<1>2. \A s \in Ready(e) : Needs[s] \subseteq done
  BY DEF Ready, HeldInv
<1> QED
  BY <1>1, <1>2 DEF Stored, Fresh, RowsInv

LEMMA GainsWhenTaking ==
  ASSUME TypeOK, RowsInv, HeldInv, done' = done, NEW e \in Executors, NEW chosen,
         TakeStock(e, chosen), NEW given, node' = [node EXCEPT ![e] = given],
         \A s \in Steps : \/ given[s] = "out"
                          \/ given[s] = node[e][s]
                          \/ given[s] \in {"admitted", "refused"} /\ s \in Fresh(e)
  PROVE  \A f \in Executors : Gains(f)
<1> SUFFICES ASSUME NEW f \in Executors PROVE Gains(f)
  OBVIOUS
<1>1. CASE f = e
  <2>1. outputs'[e] = outputs[e] \cup Stored(e)
    BY DEF TakeStock, TypeOK
  <2>2. node'[e] = given
    BY DEF TypeOK
  <2> QED
    BY <1>1, <2>1, <2>2, ReadyIsBacked DEF Gains
<1>2. CASE f # e
  BY <1>2, GainsWhenSame DEF TakeStock, TypeOK
<1> QED
  BY <1>1, <1>2

LEMMA HeldStep == TypeOK /\ RowsInv /\ HeldInv /\ [Next]_vars => HeldInv'
<1> SUFFICES ASSUME TypeOK, RowsInv, HeldInv, [Next]_vars PROVE HeldInv'
  OBVIOUS
<1> DEFINE Goal == \A f \in Executors : Gains(f)
<1>still. ASSUME UNCHANGED <<outputs, node>> PROVE Goal
  BY <1>still DEF Gains
<1>1. CASE UNCHANGED vars
  BY <1>1, <1>still, HeldFromGains DEF vars
<1>2. (\A w \in Workers : Dequeue(w) => Goal) /\ (\A c \in Shells : StepOnce(c) => Goal)
  BY <1>still DEF Dequeue, StepOnce, Load, graph
<1>3. ASSUME NEW e \in Executors, Execute(e) \/ Cancel(e) \/ Finish(e) \/ Crash(e)
      PROVE  Goal
  <2>1. CASE Rest(e)
    BY <2>1, GainsWhenResting
  <2>2. CASE ~Rest(e)
    BY <1>3, <2>2, <1>still DEF Execute, Cancel, Finish, Crash, StopWith
  <2> QED
    BY <2>1, <2>2
<1>4. ASSUME NEW e \in Executors, Skip(e) PROVE Goal
  <2>1. node' = [node EXCEPT ![e] = node[e]] /\ done' = done /\ TakeStock(e, {})
    BY <1>4 DEF Skip, TypeOK, history
  <2> QED
    BY <2>1, GainsWhenTaking
<1>5. ASSUME NEW e \in Executors, TakeOne(e) PROVE Goal
  <2>1. PICK s \in Fresh(e) :
          TakeStock(e, {s}) /\ node' = [node EXCEPT ![e] = [NoNode EXCEPT ![s] = "admitted"]]
    BY <1>5 DEF TakeOne
  <2>2. done' = done
    BY <1>5 DEF TakeOne, history
  <2> DEFINE given == [NoNode EXCEPT ![s] = "admitted"]
  <2>3. \A t \in Steps : \/ given[t] = "out"
                         \/ given[t] = node[e][t]
                         \/ given[t] \in {"admitted", "refused"} /\ t \in Fresh(e)
    BY DEF NoNode
  <2> HIDE DEF given
  <2>4. node' = [node EXCEPT ![e] = given]
    BY <2>1 DEF given
  <2>5. TakeStock(e, {s})
    BY <2>1
  <2> QED
    BY <2>2, <2>3, <2>4, <2>5, GainsWhenTaking
<1>6. ASSUME NEW e \in Executors, TakeWave(e) PROVE Goal
  <2>1. PICK refused \in {{}} \cup {{s} : s \in {t \in Paid : InWave(e, t)}} :
          node' = [node EXCEPT ![e] = Admission(e, refused)]
    BY <1>6 DEF TakeWave
  <2>2. done' = done /\ TakeStock(e, {})
    BY <1>6 DEF TakeWave, history
  <2>3. \A s \in Steps : \/ Admission(e, refused)[s] = "out"
                         \/ Admission(e, refused)[s] \in {"admitted", "refused"} /\ s \in Fresh(e)
    BY DEF Admission, InWave
  <2> QED
    BY <2>1, <2>2, <2>3, GainsWhenTaking
<1>7. ASSUME NEW e \in Executors, NEW s \in Steps, StartStep(e, s) PROVE Goal
  BY <1>7, GainsWhenAdvancing DEF StartStep
<1>8. ASSUME NEW e \in Executors, NEW s \in Steps, RefuseNode(e, s) PROVE Goal
  BY <1>8, GainsWhenAdvancing DEF RefuseNode
<1>9. ASSUME NEW e \in Executors, NEW s \in Steps, ReadGate(e, s) PROVE Goal
  BY <1>9, GainsWhenAdvancing DEF ReadGate
<1>10. ASSUME NEW e \in Executors, NEW s \in Steps, NEW o \in Outcome, EndNode(e, s, o)
       PROVE  Goal
  <2>1. Advance(e, s, node[e][s], o) /\ node[e][s] # "out"
    BY <1>10 DEF EndNode, CanEnd
  <2>2. o # "open" /\ (o = "succeeded" => s \in done')
    BY <1>10 DEF EndNode, Record, Outcome
  <2> QED
    BY <2>1, <2>2, GainsWhenAdvancing
<1>11. ASSUME NEW e \in Executors, NEW s \in Steps, NEW o \in Outcome, EndSerial(e, s, o)
       PROVE  Goal
  <2>1. CASE Rest(e)
    BY <2>1, GainsWhenResting
  <2>2. CASE ~Rest(e)
    <3>1. /\ outputs' = [outputs EXCEPT ![e] = @ \cup {s}]
          /\ node' = [node EXCEPT ![e] = NoNode]
          /\ s \in done'
      BY <1>11, <2>2 DEF EndSerial, StopWith, Record
    <3>2. \A f \in Executors : /\ outputs'[f] \subseteq outputs[f] \cup {s}
                               /\ node'[f] \in {node[f], NoNode}
      BY <3>1 DEF TypeOK
    <3> QED
      BY <3>1, <3>2 DEF Gains, NoNode
  <2> QED
    BY <2>1, <2>2
<1>12. ASSUME NEW e \in Executors, ApplyReports(e) PROVE Goal
  <2>1. CASE Rest(e)
    BY <2>1, GainsWhenResting
  <2>2. CASE ~Rest(e)
    <3>1. /\ outputs' = [outputs EXCEPT ![e] = @ \cup In(e, {"succeeded"})]
          /\ node' = [node EXCEPT ![e] = NoNode]
          /\ done' = done
      BY <1>12, <2>2 DEF ApplyReports, StopWith, history
    <3>2. In(e, {"succeeded"}) \subseteq done
      BY DEF In, HeldInv
    <3>3. \A f \in Executors : /\ outputs'[f] \subseteq outputs[f] \cup done
                               /\ node'[f] \in {node[f], NoNode}
      BY <3>1, <3>2 DEF TypeOK
    <3> QED
      BY <3>1, <3>3 DEF Gains, NoNode
  <2> QED
    BY <2>1, <2>2
<1>13. WebProcess => Goal
  BY <1>still DEF WebProcess, StartAgain, Decide, ReadForCancel, RequestCancellation,
         ReadForResume, ResumeRun, exec, graph
<1>14. CASE Next
  <2> HIDE DEF Goal
  <2>1. Goal
    BY <1>2, <1>3, <1>4, <1>5, <1>6, <1>7, <1>8, <1>9, <1>10, <1>11, <1>12, <1>13, <1>14,
       NextCases
  <2> QED
    BY <2>1, HeldFromGains DEF Goal
<1> QED
  BY <1>1, <1>14

-----------------------------------------------------------------------------
(* No executor loses track of a step.                                      *)

Tracks(e) ==
  /\ pc[e] \in Working =>
       Steps = pending[e] \cup outputs[e] \cup abandoned[e] \cup Reported(e)
  /\ failure[e] \/ abandoned[e] = {}
  /\ pc[e] \notin {"serial", "wave"} => node[e] = NoNode
  /\ pc[e] = "serial" => \A s, t \in Reported(e) : s = t

SameExecutor(e) ==
  /\ pc'[e] = pc[e] /\ pending'[e] = pending[e] /\ outputs'[e] = outputs[e]
  /\ abandoned'[e] = abandoned[e] /\ failure'[e] = failure[e] /\ node'[e] = node[e]

LEMMA TracksWhenSame ==
  ASSUME NEW e \in Executors, Tracks(e), SameExecutor(e)
  PROVE  Tracks(e)'
  BY DEF Tracks, SameExecutor, Reported, In

LEMMA TracksWhenResting ==
  ASSUME TypeOK, TrackInv, NEW e \in Executors, Rest(e)
  PROVE  \A f \in Executors : Tracks(f)'
<1> SUFFICES ASSUME NEW f \in Executors PROVE Tracks(f)'
  OBVIOUS
<1>1. CASE f = e
  <2>1. pc'[f] = "idle" /\ node'[f] = NoNode /\ abandoned'[f] = {}
    BY <1>1 DEF Rest, Goto, TypeOK
  <2>2. NoNode' = NoNode
    BY DEF NoNode
  <2> QED
    BY <2>1, <2>2 DEF Tracks, Working
<1>2. CASE f # e
  <2>1. SameExecutor(f)
    BY <1>2 DEF Rest, Goto, SameExecutor, TypeOK
  <2> QED
    BY <2>1, TracksWhenSame DEF TrackInv, Tracks
<1> QED
  BY <1>1, <1>2

(* Only the executor that acts has to be looked at.                        *)
LEMMA TracksFrom ==
  ASSUME TrackInv, NEW e \in Executors, Tracks(e)',
         \A f \in Executors \ {e} : SameExecutor(f)
  PROVE  \A f \in Executors : Tracks(f)'
<1> SUFFICES ASSUME NEW f \in Executors PROVE Tracks(f)'
  OBVIOUS
<1>1. CASE f = e
  BY <1>1
<1>2. CASE f # e
  BY <1>2, TracksWhenSame DEF TrackInv, Tracks
<1> QED
  BY <1>1, <1>2

(* A node that stays in hand, or comes to an outcome, stays reported.      *)
LEMMA TracksWhenAdvancing ==
  ASSUME TypeOK, TrackInv, NEW e \in Executors, NEW s \in Steps, NEW from, NEW to,
         Advance(e, s, from, to), from # "out", to # "out"
  PROVE  \A f \in Executors : Tracks(f)'
<1>1. \A f \in Executors \ {e} : SameExecutor(f)
  BY DEF Advance, graph, SameExecutor, TypeOK
<1>2. \A t \in Steps : node'[e][t] = IF t = s THEN to ELSE node[e][t]
  BY DEF Advance, TypeOK
<1>3. Reported(e)' = Reported(e)
  BY <1>2 DEF Reported, In, Advance
<1>4. node[e] # NoNode
  BY DEF Advance, NoNode
<1>5. Tracks(e)
  BY DEF TrackInv, Tracks
<1>6. UNCHANGED <<pc, pending, outputs, abandoned, failure>>
  BY DEF Advance, graph
<1>7. Tracks(e)'
  BY <1>3, <1>4, <1>5, <1>6 DEF Tracks
<1> QED
  BY <1>1, <1>7, TracksFrom

(* Taking stock moves each step from one place to another.                 *)
Takes(e, chosen, label, given) ==
  /\ TakeStock(e, chosen)
  /\ pc[e] = "round"
  /\ label \in Working /\ pc' = [pc EXCEPT ![e] = label]
  /\ given \in [Steps -> Phase] /\ node' = [node EXCEPT ![e] = given]
  /\ \A s \in chosen : s \in Steps /\ given[s] # "out"
  /\ label = "round" => given = NoNode
  /\ label = "serial" =>
       \A s, t \in Steps : given[s] # "out" /\ given[t] # "out" => s = t

LEMMA TracksWhenTaking ==
  ASSUME TypeOK, TrackInv, NEW e \in Executors, NEW chosen, NEW label, NEW given,
         Takes(e, chosen, label, given)
  PROVE  \A f \in Executors : Tracks(f)'
<1> USE DEF Takes
<1>1. \A f \in Executors \ {e} : SameExecutor(f)
  BY DEF TakeStock, SameExecutor, TypeOK
<1>2. /\ abandoned'[e] = abandoned[e] \cup Blocked(e)
      /\ outputs'[e] = outputs[e] \cup Stored(e)
      /\ pending'[e] = (Remaining(e) \ Stored(e)) \ chosen
      /\ pc'[e] = label /\ node'[e] = given /\ failure'[e] = failure[e]
  BY DEF TakeStock, TypeOK
<1>3. Reported(e)' = {s \in Steps : given[s] # "out"}
  BY <1>2 DEF Reported, In
<1>4. Reported(e) = {}
  BY DEF TrackInv, Reported, In, NoNode
<1>5. /\ Steps = pending[e] \cup outputs[e] \cup abandoned[e]
      /\ failure[e] \/ abandoned[e] = {}
  BY <1>4 DEF TrackInv, Working
<1>6. Blocked(e) \subseteq pending[e] /\ (abandoned[e] = {} => Blocked(e) = {})
  BY DEF Blocked
<1>7. Stored(e) \subseteq Steps
  BY DEF Stored, Ready, Remaining, TypeOK
<1>8. Steps = pending'[e] \cup outputs'[e] \cup abandoned'[e] \cup Reported(e)'
  BY <1>2, <1>3, <1>5, <1>6, <1>7 DEF Remaining, TypeOK
<1>9. failure'[e] \/ abandoned'[e] = {}
  BY <1>2, <1>5, <1>6
<1>10. Tracks(e)'
  BY <1>2, <1>3, <1>8, <1>9 DEF Tracks, Working, NoNode
<1> QED
  BY <1>1, <1>10, TracksFrom

LEMMA TrackStep == TypeOK /\ TrackInv /\ [Next]_vars => TrackInv'
<1> SUFFICES ASSUME TypeOK, TrackInv, [Next]_vars PROVE TrackInv'
  OBVIOUS
<1> DEFINE Goal == \A f \in Executors : Tracks(f)'
<1>still. ASSUME UNCHANGED exec PROVE Goal
  BY <1>still, TracksWhenSame DEF exec, graph, SameExecutor, TrackInv, Tracks
<1>1. ASSUME UNCHANGED vars PROVE Goal
  <2>1. UNCHANGED exec
    BY <1>1 DEF vars, exec, memory, graph
  <2> QED
    BY <2>1, <1>still
<1>load. ASSUME NEW e \in Executors, NEW status, NEW mode, Load(e, status, mode), pc[e] = "idle"
         PROVE  Goal
  <2>1. \A f \in Executors \ {e} : SameExecutor(f)
    BY <1>load DEF Load, Goto, graph, SameExecutor, TypeOK
  <2>2. pc'[e] = "loaded" /\ node'[e] = NoNode /\ (failure'[e] \/ abandoned'[e] = {})
    <3>1. pc' = [pc EXCEPT ![e] = "loaded"] /\ UNCHANGED <<abandoned, failure, node>>
      BY <1>load DEF Load, Goto, graph
    <3>2. node[e] = NoNode /\ (failure[e] \/ abandoned[e] = {})
      BY <1>load DEF TrackInv
    <3> QED
      BY <3>1, <3>2 DEF TypeOK
  <2>3. Tracks(e)'
    BY <2>2 DEF Tracks, Working, NoNode
  <2> QED
    BY <2>1, <2>3, TracksFrom
<1>2. (\A w \in Workers : Dequeue(w) => Goal) /\ (\A c \in Shells : StepOnce(c) => Goal)
  BY <1>load, Constants DEF Dequeue, StepOnce
<1>3. ASSUME NEW e \in Executors, Cancel(e) \/ Finish(e) \/ Crash(e) PROVE Goal
  BY <1>3, TracksWhenResting DEF Cancel, Finish, Crash, StopWith
<1>4. ASSUME NEW e \in Executors, Execute(e) PROVE Goal
  <2>1. CASE Rest(e)
    BY <2>1, TracksWhenResting
  <2>2. CASE ~Rest(e)
    <3>1. /\ pc' = [pc EXCEPT ![e] = "round"]
          /\ pending' = [pending EXCEPT ![e] = Steps]
          /\ UNCHANGED <<outputs, abandoned, failure, node>>
      BY <1>4, <2>2 DEF Execute, Goto
    <3>2. \A f \in Executors \ {e} : SameExecutor(f)
      BY <3>1 DEF SameExecutor, TypeOK
    <3>3. node'[e] = NoNode /\ pending'[e] = Steps /\ pc'[e] = "round"
      BY <1>4, <3>1 DEF Execute, TrackInv, TypeOK
    <3>4. failure'[e] \/ abandoned'[e] = {}
      BY <3>1 DEF TrackInv
    <3>5. Tracks(e)'
      BY <3>1, <3>3, <3>4 DEF Tracks, NoNode, Reported, In, TypeOK
    <3> QED
      BY <3>2, <3>5, TracksFrom
  <2> QED
    BY <2>1, <2>2
<1>5. ASSUME NEW e \in Executors, Skip(e) PROVE Goal
  <2>1. /\ TakeStock(e, {}) /\ pc[e] = "round"
        /\ pc' = [pc EXCEPT ![e] = "round"] /\ node' = [node EXCEPT ![e] = NoNode]
    BY <1>5 DEF Skip, GoesOn, TypeOK, TrackInv
  <2>2. "round" \in Working
    BY DEF Working
  <2>3. NoNode \in [Steps -> Phase]
    BY Constants
  <2>4. Takes(e, {}, "round", NoNode)
    BY <2>1, <2>2, <2>3 DEF Takes
  <2> QED
    BY <2>4, TracksWhenTaking
<1>6. ASSUME NEW e \in Executors, TakeOne(e) PROVE Goal
  <2>1. PICK s \in Fresh(e) :
          TakeStock(e, {s}) /\ node' = [node EXCEPT ![e] = [NoNode EXCEPT ![s] = "admitted"]]
    BY <1>6 DEF TakeOne
  <2>2. pc[e] = "round" /\ pc' = [pc EXCEPT ![e] = "serial"] /\ s \in Steps
    BY <1>6 DEF TakeOne, GoesOn, Goto, Fresh, Ready, Remaining, TypeOK
  <2> DEFINE given == [NoNode EXCEPT ![s] = "admitted"]
  <2>3. /\ given \in [Steps -> Phase]
        /\ given[s] = "admitted"
        /\ \A t \in Steps : given[t] # "out" => t = s
    BY <2>2 DEF NoNode, Phase
  <2>4. node' = [node EXCEPT ![e] = given]
    BY <2>1
  <2>5. TakeStock(e, {s}) /\ "serial" \in Working
    BY <2>1 DEF Working
  <2> HIDE DEF given
  <2>6. /\ given \in [Steps -> Phase]
        /\ \A t \in {s} : t \in Steps /\ given[t] # "out"
        /\ \A t, v \in Steps : given[t] # "out" /\ given[v] # "out" => t = v
    BY <2>2, <2>3
  <2>7. Takes(e, {s}, "serial", given)
    BY <2>2, <2>4, <2>5, <2>6 DEF Takes
  <2> QED
    BY <2>7, TracksWhenTaking
<1>7. ASSUME NEW e \in Executors, TakeWave(e) PROVE Goal
  <2>1. PICK refused \in {{}} \cup {{s} : s \in {t \in Paid : InWave(e, t)}} :
          node' = [node EXCEPT ![e] = Admission(e, refused)]
    BY <1>7 DEF TakeWave
  <2>2. TakeStock(e, {}) /\ pc[e] = "round" /\ pc' = [pc EXCEPT ![e] = "wave"]
    BY <1>7 DEF TakeWave, GoesOn, Goto
  <2>3. Admission(e, refused) \in [Steps -> Phase]
    BY DEF Admission, Phase
  <2>4. "wave" \in Working
    BY DEF Working
  <2>5. Takes(e, {}, "wave", Admission(e, refused))
    BY <2>1, <2>2, <2>3, <2>4 DEF Takes
  <2> QED
    BY <2>5, TracksWhenTaking
<1>8. ASSUME NEW e \in Executors, NEW s \in Steps, StartStep(e, s) PROVE Goal
  BY <1>8, TracksWhenAdvancing DEF StartStep
<1>9. ASSUME NEW e \in Executors, NEW s \in Steps, ReadGate(e, s) PROVE Goal
  BY <1>9, TracksWhenAdvancing DEF ReadGate
<1>10. ASSUME NEW e \in Executors, NEW s \in Steps, RefuseNode(e, s) PROVE Goal
  BY <1>10, TracksWhenAdvancing DEF RefuseNode
<1>11. ASSUME NEW e \in Executors, NEW s \in Steps, NEW o \in Outcome, EndNode(e, s, o)
       PROVE  Goal
  <2>1. Advance(e, s, node[e][s], o) /\ node[e][s] # "out" /\ o # "out"
    BY <1>11 DEF EndNode, CanEnd, Outcome
  <2> QED
    BY <2>1, TracksWhenAdvancing
<1>12. ASSUME NEW e \in Executors, NEW s \in Steps, NEW o \in Outcome, EndSerial(e, s, o)
       PROVE  Goal
  <2>1. CASE Rest(e)
    BY <2>1, TracksWhenResting
  <2>2. CASE ~Rest(e)
    <3>1. /\ pc' = [pc EXCEPT ![e] = "round"]
          /\ outputs' = [outputs EXCEPT ![e] = @ \cup {s}]
          /\ node' = [node EXCEPT ![e] = NoNode]
          /\ UNCHANGED <<pending, abandoned, failure>>
      BY <1>12, <2>2 DEF EndSerial, StopWith, Goto
    <3>2. \A f \in Executors \ {e} : SameExecutor(f)
      BY <3>1 DEF SameExecutor, TypeOK
    <3>3. pc[e] = "serial" /\ s \in Reported(e)
      BY <1>12 DEF EndSerial, CanEnd, Reported, In
    <3>4. Reported(e) = {s}
      BY <3>3 DEF TrackInv
    <3>5. Steps = pending[e] \cup outputs[e] \cup abandoned[e] \cup {s}
      BY <3>3, <3>4 DEF TrackInv, Working
    <3>6. /\ pc'[e] = "round" /\ node'[e] = NoNode /\ outputs'[e] = outputs[e] \cup {s}
          /\ pending'[e] = pending[e] /\ abandoned'[e] = abandoned[e]
          /\ failure'[e] = failure[e]
      BY <3>1 DEF TypeOK
    <3>7. Reported(e)' = {}
      BY <3>6 DEF Reported, In, NoNode
    <3>8. failure[e] \/ abandoned[e] = {}
      BY DEF TrackInv
    <3>9. Tracks(e)'
      BY <3>5, <3>6, <3>7, <3>8 DEF Tracks, NoNode
    <3> QED
      BY <3>2, <3>9, TracksFrom
  <2> QED
    BY <2>1, <2>2
<1>13. ASSUME NEW e \in Executors, ApplyReports(e) PROVE Goal
  <2>1. CASE Rest(e)
    BY <2>1, TracksWhenResting
  <2>2. CASE ~Rest(e)
    <3> DEFINE failing == FailureSeen(e)
    <3>1. /\ pc[e] = "wave"
          /\ PausedIn(e) = {}
          /\ Reported(e) = In(e, Outcome \cup {"declined"})
          /\ pc' = [pc EXCEPT ![e] = "round"]
          /\ outputs' = [outputs EXCEPT ![e] = @ \cup In(e, {"succeeded"})]
          /\ pending' = [pending EXCEPT ![e] = @ \ Reported(e)]
          /\ abandoned' = [abandoned EXCEPT ![e] = @ \cup In(e, {"failed"})]
          /\ failure' = [failure EXCEPT ![e] = failing]
          /\ node' = [node EXCEPT ![e] = NoNode]
      BY <1>13, <2>2 DEF ApplyReports, StopWith, Goto
    <3>2. failing \in BOOLEAN /\ (~failing => ~failure[e] /\ In(e, {"failed"}) = {})
      BY DEF FailureSeen
    <3> HIDE DEF failing
    <3>3. \A f \in Executors \ {e} : SameExecutor(f)
      BY <3>1 DEF SameExecutor, TypeOK
    <3>4. /\ pc'[e] = "round" /\ node'[e] = NoNode
          /\ outputs'[e] = outputs[e] \cup In(e, {"succeeded"})
          /\ pending'[e] = pending[e] \ Reported(e)
          /\ abandoned'[e] = abandoned[e] \cup In(e, {"failed"})
          /\ failure'[e] = failing
      BY <3>1 DEF TypeOK
    <3>5. Reported(e) = In(e, {"succeeded"}) \cup In(e, {"failed"})
      BY <3>1 DEF PausedIn, In, Outcome, Paused
    <3>6. Steps = pending[e] \cup outputs[e] \cup abandoned[e] \cup Reported(e)
      BY <3>1 DEF TrackInv, Working
    <3>7. Reported(e)' = {}
      BY <3>4 DEF Reported, In, NoNode
    <3>8. failing \/ abandoned'[e] = {}
      BY <3>2, <3>4 DEF TrackInv
    <3>9. Steps = pending'[e] \cup outputs'[e] \cup abandoned'[e] \cup Reported(e)'
      BY <3>4, <3>5, <3>6, <3>7
    <3>10. Tracks(e)'
      BY <3>4, <3>8, <3>9 DEF Tracks, NoNode
    <3> QED
      BY <3>3, <3>10, TracksFrom
  <2> QED
    BY <2>1, <2>2
<1>14. WebProcess => Goal
  BY <1>still DEF WebProcess, StartAgain, Decide, ReadForCancel, RequestCancellation,
         ReadForResume, ResumeRun
<1>15. Goal
  <2>1. CASE Next
    <3> HIDE DEF Goal
    <3> QED
      BY <1>2, <1>3, <1>4, <1>5, <1>6, <1>7, <1>8, <1>9, <1>10, <1>11, <1>12, <1>13, <1>14,
         <2>1, NextCases
  <2> QED
    BY <1>1, <2>1
<1> QED
  BY <1>15 DEF TrackInv, Tracks

-----------------------------------------------------------------------------
(* What jobs.status says of the run.                                       *)

(* Work left over without a failure always has a step that is ready.       *)
LEMMA SomethingIsReady ==
  ASSUME TypeOK, TrackInv, NEW e \in Executors, pc[e] = "round",
         ~failure[e], pending[e] # {}
  PROVE  Ready(e) # {}
<1>1. PICK s \in pending[e] : Needs[s] \cap pending[e] = {}
  BY StepsAssumption DEF TypeOK
<1>2. Reported(e) = {} /\ abandoned[e] = {}
  BY DEF TrackInv, Reported, In, NoNode
<1>3. Steps = pending[e] \cup outputs[e]
  BY <1>2 DEF TrackInv, Working
<1>4. s \in Steps /\ Needs[s] \subseteq Steps
  BY <1>1, StepsAssumption DEF TypeOK
<1>5. Needs[s] \subseteq outputs[e]
  BY <1>1, <1>3, <1>4
<1> QED
  BY <1>1, <1>2, <1>5 DEF Ready, Remaining, Blocked

(* The closing step waits for everything.                                  *)
LEMMA ClosingComesLast ==
  ASSUME TypeOK, DoneInv, Closing \in done
  PROVE  done = Steps
  BY StepsAssumption DEF TypeOK, DoneInv

LEMMA SuccessStep ==
  ASSUME TypeOK, HeldInv, DoneInv, TrackInv, SuccessMeansAllDone, [Next]_vars
  PROVE  SuccessMeansAllDone'
<1> DEFINE Goal == jobStatus' = "SUCCEEDED" => done' = Steps
<1>0. TypeOK' /\ DoneInv' /\ done \subseteq done'
  BY TypeStep, DoneStep, DoneGrows
<1>same. ASSUME jobStatus' = jobStatus PROVE Goal
  BY <1>0, <1>same DEF SuccessMeansAllDone, TypeOK
<1>1. ASSUME UNCHANGED vars PROVE Goal
  BY <1>1, <1>same DEF vars
<1>2. ASSUME NEW e \in Executors,
             \/ Execute(e) \/ Skip(e) \/ TakeOne(e) \/ TakeWave(e) \/ Crash(e) \/ Cancel(e)
             \/ \E s \in Steps : StartStep(e, s) \/ ReadGate(e, s) \/ RefuseNode(e, s)
             \/ \E s \in Steps, o \in Outcome : EndNode(e, s, o)
      PROVE  Goal
  BY <1>2, <1>same DEF Execute, Skip, TakeOne, TakeWave, Crash, Cancel, StopWith, StartStep,
              ReadGate, RefuseNode, EndNode, db
<1>3. ASSUME NEW e \in Executors, Finish(e) PROVE Goal
  <2>1. CASE jobStatus' = jobStatus
    BY <2>1, <1>same
  <2>2. CASE jobStatus' = "FAILED"
    BY <2>2
  <2>3. CASE jobStatus' # jobStatus /\ jobStatus' # "FAILED"
    <3>1. ~failure[e] /\ pc[e] = "round" /\ (pending[e] = {} \/ Ready(e) = {})
      BY <1>3, <2>3 DEF Finish, NothingLeft, StopWith
    <3>2. pending[e] = {}
      BY <3>1, SomethingIsReady
    <3>3. Steps = outputs[e]
      <4>1. Steps = pending[e] \cup outputs[e] \cup abandoned[e] \cup Reported(e)
        BY <3>1 DEF TrackInv, Working
      <4>2. abandoned[e] = {} /\ node[e] = NoNode
        BY <3>1 DEF TrackInv
      <4>3. Reported(e) = {}
        BY <4>2 DEF Reported, In, NoNode
      <4> QED
        BY <3>2, <4>1, <4>2, <4>3
    <3> QED
      BY <1>0, <3>3 DEF HeldInv, TypeOK
  <2> QED
    BY <2>1, <2>2, <2>3
<1>4. ASSUME NEW e \in Executors, NEW s \in Steps, NEW o \in Outcome, EndSerial(e, s, o)
      PROVE  Goal
  <2>1. jobStatus' = "SUCCEEDED" /\ jobStatus # "SUCCEEDED" => o = "succeeded" /\ s = Closing
    BY <1>4, RowAfterType DEF EndSerial, StopWith, Stopped
  <2>2. o = "succeeded" => s \in done'
    BY <1>4 DEF EndSerial, Record
  <2>3. Closing \in done' => done' = Steps
    BY <1>0, StepsAssumption DEF TypeOK, DoneInv
  <2> QED
    BY <1>same, <2>1, <2>2, <2>3
<1>5. ASSUME NEW e \in Executors, ApplyReports(e) PROVE Goal
  <2>1. \A s \in Steps : LastPaused(e, s) => RowAfter[node[e][s]] \in Stopped
    BY RowAfterType DEF LastPaused, PausedIn, In, Paused, Outcome
  <2> QED
    BY <1>5, <1>same, <2>1 DEF ApplyReports, StopWith, Stopped
<1>6. (\A w \in Workers : Dequeue(w) => Goal) /\ (\A c \in Shells : StepOnce(c) => Goal)
  BY <1>same DEF Dequeue, StepOnce, db
<1>7. WebProcess => Goal
  BY <1>same DEF WebProcess, StartAgain, Decide, ReadForCancel, RequestCancellation,
         ReadForResume, ResumeRun, db
<1>8. Goal
  <2>1. CASE Next
    <3> HIDE DEF Goal
    <3> QED
      BY <1>2, <1>3, <1>4, <1>5, <1>6, <1>7, <2>1, NextCases
  <2> QED
    BY <1>1, <2>1, <1>same DEF vars
<1> QED
  BY <1>8 DEF SuccessMeansAllDone

(* The executor that runs the job stays in place, or takes the status with *)
(* it when it leaves.                                                      *)
LEMMA RunStep ==
  ASSUME TypeOK, RunInv, [Next]_vars
  PROVE  RunInv'
<1> DEFINE Runs(e) == pc[e] \in Working /\ known[e] = "RUNNING"
           Goal == jobStatus' = "RUNNING" => crashes' > 0 \/ \E e \in Executors : Runs(e)'
<1>stay. ASSUME jobStatus' = jobStatus, crashes' = crashes,
                \A e \in Executors : Runs(e) => Runs(e)'
         PROVE  Goal
  BY <1>stay DEF RunInv
<1>still. ASSUME UNCHANGED exec, crashes' = crashes,
                 jobStatus' = jobStatus \/ jobStatus' # "RUNNING"
          PROVE  Goal
  <2>1. UNCHANGED <<pc, known>>
    BY <1>still DEF exec, memory
  <2> QED
    BY <1>still, <2>1 DEF RunInv
<1>rest. ASSUME NEW e \in Executors, Rest(e), ~Runs(e), jobStatus' = jobStatus,
                crashes' = crashes
         PROVE  Goal
  BY <1>rest, <1>stay DEF Rest, Goto, TypeOK
<1>1. ASSUME UNCHANGED vars PROVE Goal
  BY <1>1, <1>still DEF vars, exec, memory, graph
<1>2. ASSUME NEW e \in Executors, NEW status, NEW mode, Load(e, status, mode), pc[e] = "idle",
             crashes' = crashes, jobStatus' = jobStatus \/ jobStatus' = "QUEUED"
      PROVE  Goal
  BY <1>2, <1>stay DEF Load, Goto, TypeOK, Working
<1>3. (\A w \in Workers : Dequeue(w) => Goal) /\ (\A c \in Shells : StepOnce(c) => Goal)
  BY <1>2, Constants DEF Dequeue, StepOnce, db, history
<1>4. ASSUME NEW e \in Executors, Execute(e) PROVE Goal
  <2>1. CASE known[e] = "RUNNING"
    BY <1>4, <2>1, <1>rest DEF Execute, InProgress, Working, history
  <2>2. CASE known[e] # "RUNNING"
    <3>1. pc' = [pc EXCEPT ![e] = "round"] /\ known' = [known EXCEPT ![e] = "RUNNING"]
      BY <1>4, <2>2 DEF Execute, InProgress, Goto
    <3>2. Runs(e)'
      BY <3>1 DEF Working, TypeOK
    <3> QED
      BY <3>2
  <2> QED
    BY <2>1, <2>2
<1>5. ASSUME NEW e \in Executors, Cancel(e) PROVE Goal
  BY <1>5 DEF Cancel, StopWith
<1>6. ASSUME NEW e \in Executors, NEW label \in Working, pc' = [pc EXCEPT ![e] = label],
             UNCHANGED memory, jobStatus' = jobStatus, crashes' = crashes
      PROVE  Goal
  BY <1>6, <1>stay DEF memory, TypeOK
<1>7. ASSUME NEW e \in Executors, Skip(e) PROVE Goal
  BY <1>7, <1>stay DEF Skip, TakeStock, memory, db, history
<1>8. ASSUME NEW e \in Executors, TakeOne(e) PROVE Goal
  <2>1. pc' = [pc EXCEPT ![e] = "serial"] /\ "serial" \in Working
    BY <1>8 DEF TakeOne, Goto, Working
  <2>2. UNCHANGED memory /\ jobStatus' = jobStatus /\ crashes' = crashes
    BY <1>8 DEF TakeOne, TakeStock, db, history
  <2> QED
    BY <1>6, <2>1, <2>2
<1>9. ASSUME NEW e \in Executors, TakeWave(e) PROVE Goal
  <2>1. pc' = [pc EXCEPT ![e] = "wave"] /\ "wave" \in Working
    BY <1>9 DEF TakeWave, Goto, Working
  <2>2. UNCHANGED memory /\ jobStatus' = jobStatus /\ crashes' = crashes
    BY <1>9 DEF TakeWave, TakeStock, db, history
  <2> QED
    BY <1>6, <2>1, <2>2
<1>10. ASSUME NEW e \in Executors, Finish(e) PROVE Goal
  <2>1. CASE jobStatus' = jobStatus /\ known[e] # "RUNNING"
    BY <1>10, <2>1, <1>rest DEF Finish, StopWith, history
  <2>2. CASE ~(jobStatus' = jobStatus /\ known[e] # "RUNNING")
    BY <1>10, <2>2 DEF Finish, StopWith
  <2> QED
    BY <2>1, <2>2
<1>11. ASSUME NEW e \in Executors, NEW s \in Steps,
              \/ StartStep(e, s) \/ ReadGate(e, s) \/ RefuseNode(e, s)
              \/ \E o \in Outcome : EndNode(e, s, o)
       PROVE  Goal
  BY <1>11, <1>stay DEF StartStep, ReadGate, RefuseNode, EndNode, Advance, memory, db, history
<1>12. ASSUME NEW e \in Executors, NEW s \in Steps, NEW o \in Outcome, EndSerial(e, s, o)
       PROVE  Goal
  <2>1. CASE jobStatus' = "RUNNING"
    <3>1. /\ pc' = [pc EXCEPT ![e] = "round"] /\ UNCHANGED memory
          /\ jobStatus' = jobStatus /\ crashes' = crashes
      BY <1>12, <2>1, RowAfterType DEF EndSerial, StopWith, Stopped, memory, Goto
    <3> QED
      BY <1>6, <3>1 DEF Working
  <2>2. CASE jobStatus' # "RUNNING"
    BY <2>2
  <2> QED
    BY <2>1, <2>2
<1>13. ASSUME NEW e \in Executors, ApplyReports(e) PROVE Goal
  <2>1. \A s \in Steps : LastPaused(e, s) => RowAfter[node[e][s]] \in Stopped
    BY RowAfterType DEF LastPaused, PausedIn, In, Paused, Outcome
  <2>2. CASE jobStatus' = "RUNNING"
    <3>1. /\ pc' = [pc EXCEPT ![e] = "round"] /\ UNCHANGED memory
          /\ jobStatus' = jobStatus /\ crashes' = crashes
      BY <1>13, <2>1, <2>2 DEF ApplyReports, StopWith, Stopped, Goto, history
    <3> QED
      BY <1>6, <3>1 DEF Working
  <2>3. CASE jobStatus' # "RUNNING"
    BY <2>3
  <2> QED
    BY <2>2, <2>3
<1>14. ASSUME NEW e \in Executors, Crash(e) PROVE Goal
  BY <1>14 DEF Crash, TypeOK
<1>15. WebProcess => Goal
  BY <1>still DEF WebProcess, StartAgain, Decide, ReadForCancel, RequestCancellation,
         ReadForResume, ResumeRun, db, history
<1>16. Goal
  <2>1. CASE Next
    <3> HIDE DEF Goal
    <3> QED
      BY <1>3, <1>4, <1>5, <1>7, <1>8, <1>9, <1>10, <1>11, <1>12, <1>13, <1>14, <1>15,
         <2>1, NextCases
  <2> QED
    BY <1>1, <2>1, <1>still DEF vars, exec, memory, graph
<1> QED
  BY <1>16 DEF RunInv

-----------------------------------------------------------------------------
(* The invariant and what follows from it.                                 *)

LEMMA EngineInvInit == Init => EngineInv
<1> SUFFICES ASSUME Init PROVE EngineInv
  OBVIOUS
<1>1. TypeOK
  BY TypeInit
<1>2. RowsInv /\ DoneInv /\ SuccessMeansAllDone /\ RunInv
  BY DEF Init, RowsInv, Begun, DoneInv, SuccessMeansAllDone, RunInv
<1>3. HeldInv
  BY DEF Init, HeldInv, NoNode
<1>4. TrackInv
  BY DEF Init, TrackInv, Working
<1> QED
  BY <1>1, <1>2, <1>3, <1>4 DEF EngineInv

LEMMA EngineInvStep == EngineInv /\ [Next]_vars => EngineInv'
  BY TypeStep, RowsStep, DoneStep, HeldStep, TrackStep, SuccessStep, RunStep DEF EngineInv

(* However many executors share a run, and whatever is decided, cancelled, *)
(* resumed, enqueued twice or lost, what is recorded stays in plan order   *)
(* behind approved gates, and no executor loses track of a step.           *)
THEOREM EngineInvariant == Spec => []EngineInv
  BY EngineInvInit, EngineInvStep, PTL DEF Spec

(* Nothing begins past a gate that was not approved, directly or further   *)
(* up the plan.                                                            *)
THEOREM NoGateIsBypassed == Spec => []NothingPastAnUndecidedGate
<1>1. EngineInv => NothingPastAnUndecidedGate
  <2> SUFFICES ASSUME EngineInv, NEW s \in Steps, Begun(s), NEW g \in (Gates \ Waived) \cap Upstream(s)
               PROVE  decision[g] = "APPROVED"
    BY DEF NothingPastAnUndecidedGate
  <2>1. Needs[s] \subseteq done /\ \A c \in done : Needs[c] \subseteq done
    BY DEF EngineInv, RowsInv, DoneInv
  <2>2. g \in done
    BY <2>1 DEF Upstream, EngineInv, TypeOK
  <2> QED
    BY <2>2 DEF EngineInv, DoneInv
<1> QED
  BY <1>1, EngineInvariant, PTL

(* A run is never reported successful with a step that has not succeeded.  *)
THEOREM SuccessIsWhole == Spec => []SuccessMeansAllDone
<1>1. EngineInv => SuccessMeansAllDone
  BY DEF EngineInv
<1> QED
  BY <1>1, EngineInvariant, PTL

(* Unless a process was lost, a run that reads RUNNING is being run.       *)
THEOREM RunningIsRun == Spec => []RunningMeansSomeoneRuns
<1>1. EngineInv => RunningMeansSomeoneRuns
  BY DEF EngineInv, RunInv, RunningMeansSomeoneRuns
<1> QED
  BY <1>1, EngineInvariant, PTL

-----------------------------------------------------------------------------
(* What a job waits for is on a row, as long as one executor runs it at    *)
(* most: a second one may overwrite the row a first one stopped on.        *)

Waiting == {"AWAITING_APPROVAL", "BUDGET_EXCEEDED"}
Halted  == Paused \cup {"declined"}

(* A working executor holds the job RUNNING (or done), and what its wave   *)
(* has reported is on the rows.                                            *)
ShownInv(e) ==
  /\ WaitingJobsShowWhy
  /\ pc[e] \in Working => jobStatus \notin Waiting
  /\ pc[e] = "wave" =>
       \A s \in Steps : node[e][s] \in Halted => row[s] = RowAfter[node[e][s]]

LEMMA ShownWhenStopping ==
  ASSUME NEW e \in Executors, TypeOK, Rest(e),
         \/ jobStatus' \notin Waiting
         \/ ShownInv(e) /\ UNCHANGED <<jobStatus, row>>
         \/ \E s \in Steps : row'[s] = jobStatus'
  PROVE  ShownInv(e)'
<1>1. pc'[e] = "idle"
  BY DEF Rest, Goto, TypeOK
<1>2. WaitingJobsShowWhy'
  BY DEF WaitingJobsShowWhy, ShownInv, Waiting
<1> QED
  BY <1>1, <1>2 DEF ShownInv, Working

LEMMA ShownWhenAdvancing ==
  ASSUME NEW e \in Executors, TypeOK, ShownInv(e), pc[e] \in Working,
         NEW s \in Steps, NEW from, NEW to, Advance(e, s, from, to),
         UNCHANGED jobStatus,
         \/ row' = row /\ to \notin Halted
         \/ \E status \in RowStatus :
              /\ row' = [row EXCEPT ![s] = status]
              /\ to \in Halted => status = RowAfter[to]
  PROVE  ShownInv(e)'
<1>1. jobStatus' \notin Waiting /\ pc' = pc
  BY DEF ShownInv, Advance
<1>2. WaitingJobsShowWhy'
  BY <1>1 DEF WaitingJobsShowWhy, Waiting
<1>3. ASSUME NEW t \in Steps, pc'[e] = "wave", node'[e][t] \in Halted
      PROVE  row'[t] = RowAfter[node'[e][t]]
  <2>1. CASE t = s
    <3>1. node'[e][s] = to
      BY DEF Advance, TypeOK
    <3> QED
      BY <1>3, <2>1, <3>1 DEF TypeOK
  <2>2. CASE t # s
    <3>1. node'[e][t] = node[e][t] /\ row'[t] = row[t]
      BY <2>2 DEF Advance, TypeOK
    <3> QED
      BY <1>1, <1>3, <3>1 DEF ShownInv
  <2> QED
    BY <2>1, <2>2
<1> QED
  BY <1>1, <1>2, <1>3 DEF ShownInv

LEMMA ShownStep ==
  ASSUME NEW e, Executors = {e}, EngineInv, ShownInv(e), [Next]_vars
  PROVE  ShownInv(e)'
<1> DEFINE Goal == ShownInv(e)'
<1>0. TypeOK /\ TrackInv /\ e \in Executors
  BY DEF EngineInv
<1>a. ASSUME NEW s \in Steps, node[e][s] # "out" PROVE pc[e] \in {"serial", "wave"}
  BY <1>0, <1>a DEF TrackInv, NoNode
<1>b. \A w \in Workers \cup Shells : w = e
  BY DEF Executors
<1>1. ASSUME NEW w \in Workers, Dequeue(w) PROVE Goal
  BY <1>0, <1>1, <1>b DEF Dequeue, Load, Goto, db, ShownInv, WaitingJobsShowWhy, Working, TypeOK
<1>2. ASSUME NEW c \in Shells, StepOnce(c) PROVE Goal
  BY <1>0, <1>2, <1>b DEF StepOnce, Load, Goto, ShownInv, WaitingJobsShowWhy, Working, TypeOK
<1>3. ASSUME Execute(e) PROVE Goal
  <2>1. CASE Rest(e) /\ UNCHANGED jobStatus
    BY <1>0, <1>3, <2>1, ShownWhenStopping DEF Execute
  <2>2. CASE jobStatus' = "RUNNING" /\ Goto(e, "round")
    BY <1>0, <2>2 DEF Goto, ShownInv, WaitingJobsShowWhy, Waiting, TypeOK
  <2> QED
    BY <1>3, <2>1, <2>2 DEF Execute
<1>4. ASSUME Cancel(e) \/ Finish(e) PROVE Goal
  BY <1>0, <1>4, ShownWhenStopping DEF Cancel, Finish, StopWith, Waiting
<1>5. ASSUME Skip(e) \/ TakeOne(e) PROVE Goal
  BY <1>0, <1>5 DEF Skip, TakeOne, GoesOn, TakeStock, Goto, db, ShownInv, WaitingJobsShowWhy,
                    Working, TypeOK
<1>6. ASSUME TakeWave(e) PROVE Goal
  <2>1. pc'[e] = "wave" /\ UNCHANGED <<jobStatus, row>> /\ jobStatus \notin Waiting
    BY <1>0, <1>6 DEF TakeWave, GoesOn, Goto, db, ShownInv, Working, TypeOK
  <2>2. \A s \in Steps : node'[e][s] \notin Halted
    BY <1>0, <1>6 DEF TakeWave, Admission, Halted, Paused, TypeOK
  <2> QED
    BY <2>1, <2>2 DEF ShownInv, WaitingJobsShowWhy
<1>7. ASSUME NEW s \in Steps, StartStep(e, s) PROVE Goal
  <2>1. pc[e] \in Working /\ "running" \notin Halted /\ "RUNNING" \in RowStatus
    BY <1>7, <1>a DEF StartStep, Advance, Working, Halted, Paused, RowStatus
  <2> QED
    BY <1>0, <1>7, <2>1, ShownWhenAdvancing DEF StartStep
<1>8. ASSUME NEW s \in Steps, ReadGate(e, s) PROVE Goal
  <2>1. pc[e] \in Working /\ "open" \notin Halted /\ "shut" \notin Halted
    BY <1>8, <1>a DEF ReadGate, Advance, Working, Halted, Paused
  <2> QED
    BY <1>0, <1>8, <2>1, ShownWhenAdvancing DEF ReadGate, db
<1>9. ASSUME NEW s \in Steps, RefuseNode(e, s) PROVE Goal
  <2>1. pc[e] \in Working /\ RowAfter["declined"] \in RowStatus
    BY <1>9, <1>a, RowAfterType DEF RefuseNode, Advance, Working
  <2> QED
    BY <1>0, <1>9, <2>1, ShownWhenAdvancing DEF RefuseNode
<1>10. ASSUME NEW s \in Steps, NEW o \in Outcome, EndSerial(e, s, o) PROVE Goal
  <2>0. row' = [row EXCEPT ![s] = RowAfter[o]] /\ pc[e] = "serial" /\ jobStatus \notin Waiting
    BY <1>10 DEF EndSerial, Record, ShownInv, Working
  <2>1. row'[s] = RowAfter[o]
    BY <1>0, <2>0 DEF TypeOK
  <2>2. CASE \E verdict \in {"FAILED", "PAUSED", RowAfter[o]} : StopWith(e, verdict)
    BY <1>0, <2>1, <2>2, ShownWhenStopping DEF StopWith, Waiting
  <2>3. CASE jobStatus' \in {"SUCCEEDED", jobStatus} /\ Goto(e, "round")
    BY <1>0, <2>0, <2>3 DEF Goto, ShownInv, WaitingJobsShowWhy, Waiting, TypeOK
  <2> QED
    BY <1>10, <2>2, <2>3 DEF EndSerial
<1>11. ASSUME NEW s \in Steps, NEW o \in Outcome, EndNode(e, s, o) PROVE Goal
  <2>1. pc[e] \in Working /\ RowAfter[o] \in RowStatus
    BY <1>11, RowAfterType DEF EndNode, Working
  <2> QED
    BY <1>0, <1>11, <2>1, ShownWhenAdvancing DEF EndNode, Record
<1>12. ASSUME ApplyReports(e) PROVE Goal
  <2>0. pc[e] = "wave" /\ row' = row /\ jobStatus \notin Waiting
    BY <1>12 DEF ApplyReports, ShownInv, Working
  <2>1. CASE StopWith(e, "FAILED")
    BY <1>0, <2>1, ShownWhenStopping DEF StopWith, Waiting
  <2>2. ASSUME NEW s \in Steps, LastPaused(e, s), StopWith(e, RowAfter[node[e][s]]) PROVE Goal
    <3>1. node[e][s] \in Halted
      BY <2>2 DEF LastPaused, PausedIn, In, Halted
    <3>2. row'[s] = jobStatus'
      BY <2>0, <2>2, <3>1 DEF StopWith, ShownInv
    <3> QED
      BY <1>0, <2>2, <3>2, ShownWhenStopping DEF StopWith
  <2>3. CASE Goto(e, "round") /\ UNCHANGED jobStatus
    BY <1>0, <2>0, <2>3 DEF Goto, ShownInv, WaitingJobsShowWhy, Waiting, TypeOK
  <2> QED
    BY <1>12, <2>1, <2>2, <2>3 DEF ApplyReports
<1>13. ASSUME Crash(e) PROVE Goal
  BY <1>0, <1>13, ShownWhenStopping DEF Crash, db
<1>14. ASSUME WebProcess PROVE Goal
  <2>1. UNCHANGED <<row, pc, node>> /\ jobStatus' \in {jobStatus, "QUEUED", "CANCELLED"}
    BY <1>14 DEF WebProcess, StartAgain, Decide, ReadForCancel, RequestCancellation,
                 ReadForResume, ResumeRun, db, exec
  <2> QED
    BY <2>1 DEF ShownInv, WaitingJobsShowWhy, Waiting
<1>15. CASE UNCHANGED vars
  BY <1>15 DEF vars, ShownInv, WaitingJobsShowWhy
<1>16. CASE Next
  <2> HIDE DEF Goal
  <2>1. Goal
    BY <1>0, <1>1, <1>2, <1>3, <1>4, <1>5, <1>6, <1>7, <1>8, <1>9, <1>10, <1>11, <1>12,
       <1>13, <1>14, <1>16, NextCases
  <2> QED
    BY <2>1 DEF Goal
<1> QED
  BY <1>15, <1>16

(* Run by one executor at most, a job that waits has a row that says what  *)
(* for: whatever fails, stops or dies on the way, the console never shows  *)
(* a wait without its reason.                                              *)
THEOREM OneExecutorShowsWhy ==
  ASSUME NEW e, Executors = {e} PROVE Spec => []WaitingJobsShowWhy
<1>1. Init => ShownInv(e)
  BY DEF Init, ShownInv, WaitingJobsShowWhy, Waiting, Working
<1>2. EngineInv /\ ShownInv(e) /\ [Next]_vars => ShownInv(e)'
  BY ShownStep
<1>3. ShownInv(e) => WaitingJobsShowWhy
  BY DEF ShownInv
<1> QED
  BY <1>1, <1>2, <1>3, EngineInvariant, PTL DEF Spec

-----------------------------------------------------------------------------
(* What stands once it is said: a cancellation, a failure, a completed     *)
(* step.                                                                   *)

LEMMA NothingIsScheduled ==
  ASSUME TypeOK, [Next]_vars, cancelled, NothingScheduled PROVE NothingScheduled'
<1> DEFINE Goal == NothingScheduled'
<1>1. ASSUME NEW e \in Executors, NEW label \in {"idle", "loaded", "round"}, Goto(e, label)
      PROVE  Goal
  BY <1>1 DEF Goto, NothingScheduled, TypeOK
<1>2. UNCHANGED pc => Goal
  BY DEF NothingScheduled
<1>3. ASSUME NEW e \in Executors, Rest(e) PROVE Goal
  BY <1>1, <1>3 DEF Rest
<1>4. ASSUME NEW e \in Executors,
             \/ Execute(e) \/ Cancel(e) \/ Finish(e) \/ Crash(e)
      PROVE  Goal
  BY <1>1, <1>3, <1>4 DEF Execute, Cancel, Finish, Crash, StopWith
<1>5. ASSUME NEW e \in Executors, TakeOne(e) \/ TakeWave(e) \/ ApplyReports(e) PROVE Goal
  BY <1>5 DEF TakeOne, TakeWave, ApplyReports, GoesOn, NothingScheduled
<1>6. ASSUME NEW e \in Executors, NEW s \in Steps, NEW o \in Outcome,
             EndSerial(e, s, o) \/ EndNode(e, s, o)
      PROVE  Goal
  BY <1>6 DEF EndSerial, EndNode, NothingScheduled
<1>7. ASSUME NEW e \in Executors, NEW s \in Steps,
             StartStep(e, s) \/ ReadGate(e, s) \/ RefuseNode(e, s)
      PROVE  Goal
  BY <1>2, <1>7 DEF StartStep, ReadGate, RefuseNode, Advance
<1>8. ASSUME NEW e \in Executors, Skip(e) PROVE Goal
  BY <1>2, <1>8 DEF Skip
<1>9. WebProcess => Goal
  BY <1>2 DEF WebProcess, StartAgain, Decide, ReadForCancel, RequestCancellation,
              ReadForResume, ResumeRun, exec
<1>10. /\ \A w \in Workers : Dequeue(w) => Goal
       /\ \A c \in Shells : StepOnce(c) => Goal
  BY <1>1, Constants DEF Dequeue, StepOnce, Load
<1>11. Next => Goal
  <2> HIDE DEF Goal
  <2> QED
    BY <1>4, <1>5, <1>6, <1>7, <1>8, <1>9, <1>10, NextCases
<1>12. UNCHANGED vars => Goal
  BY <1>2 DEF vars
<1> QED
  BY <1>11, <1>12

(* Once cancelled and at rest a run stays at rest, whoever resumes it,     *)
(* approves its gates or takes its entries, with any number of executors.  *)
THEOREM CancellationStands == Spec => CancelledRunsStartNothing
<1>1. TypeOK /\ [Next]_vars => [cancelled /\ NothingScheduled => NothingScheduled']_vars
  BY NothingIsScheduled
<1> QED
  BY <1>1, TypeCorrect, PTL DEF Spec, CancelledRunsStartNothing

(* An executor remembers a failure only while it works.                    *)
FailureInv == \A e \in Executors : failure[e] => pc[e] \in Working

Told(e) == /\ failure'[e] => pc'[e] \in Working
           /\ failure[e] /\ pc'[e] = "idle" /\ crashes' = crashes
                => jobStatus' \in {"FAILED", "CANCELLED"}

LEMMA ToldWhenSame ==
  ASSUME FailureInv, NEW e \in Executors, pc'[e] = pc[e], failure'[e] = failure[e]
  PROVE  Told(e)
  BY DEF FailureInv, Told, Working

LEMMA ToldWhenResting ==
  ASSUME TypeOK, FailureInv, NEW e \in Executors, Rest(e),
         failure[e] => crashes' # crashes \/ jobStatus' \in {"FAILED", "CANCELLED"},
         NEW f \in Executors
  PROVE  Told(f)
<1>1. CASE f = e
  <2>1. ~failure'[f]
    BY <1>1 DEF Rest, TypeOK
  <2> QED
    BY <1>1, <2>1 DEF Told
<1>2. CASE f # e
  BY <1>2, ToldWhenSame DEF Rest, Goto, TypeOK
<1> QED
  BY <1>1, <1>2

LEMMA ToldWhenGoing ==
  ASSUME TypeOK, FailureInv, NEW e \in Executors, NEW label \in Working, Goto(e, label),
         NEW f \in Executors, f # e => failure'[f] = failure[f]
  PROVE  Told(f)
<1>1. CASE f = e
  BY <1>1 DEF Goto, Told, TypeOK, Working
<1>2. CASE f # e
  BY <1>2, ToldWhenSame DEF Goto, TypeOK
<1> QED
  BY <1>1, <1>2

LEMMA FailureStep ==
  ASSUME TypeOK, FailureInv, [Next]_vars PROVE \A f \in Executors : Told(f)
<1> SUFFICES ASSUME NEW f \in Executors PROVE Told(f)
  OBVIOUS
<1> USE DEF StopWith
<1>w. "round" \in Working /\ "serial" \in Working /\ "wave" \in Working
  BY DEF Working
<1>1. UNCHANGED <<pc, failure>> => Told(f)
  BY ToldWhenSame
<1>2. ASSUME NEW e \in Executors, pc[e] = "idle", Goto(e, "loaded"), UNCHANGED failure
      PROVE  Told(f)
  <2>1. ~failure[e]
    BY <1>2 DEF FailureInv, Working
  <2>2. f # e => pc'[f] = pc[f]
    BY <1>2 DEF Goto, TypeOK
  <2> QED
    BY <1>2, <2>1, <2>2, ToldWhenSame DEF Told
<1>3. \A w \in Workers : Dequeue(w) => Told(f)
  BY <1>2, Constants DEF Dequeue, Load, graph
<1>4. \A c \in Shells : StepOnce(c) => Told(f)
  BY <1>2, Constants DEF StepOnce, Load, graph
<1>5. ASSUME NEW e \in Executors, Execute(e) PROVE Told(f)
  <2>1. ~failure[e]
    BY <1>5 DEF Execute, FailureInv, Working
  <2> QED
    BY <1>5, <1>w, <2>1, ToldWhenResting, ToldWhenGoing DEF Execute
<1>6. ASSUME NEW e \in Executors, Cancel(e) \/ Finish(e) PROVE Told(f)
  BY <1>6, ToldWhenResting DEF Cancel, Finish
<1>7. ASSUME NEW e \in Executors, Skip(e) PROVE Told(f)
  BY <1>1, <1>7 DEF Skip, TakeStock
<1>8. ASSUME NEW e \in Executors, TakeOne(e) \/ TakeWave(e) PROVE Told(f)
  <2>1. UNCHANGED failure /\ (Goto(e, "serial") \/ Goto(e, "wave"))
    BY <1>8 DEF TakeOne, TakeWave, TakeStock
  <2> QED
    BY <1>w, <2>1, ToldWhenGoing
<1>9. ASSUME NEW e \in Executors, NEW s \in Steps,
             StartStep(e, s) \/ ReadGate(e, s) \/ RefuseNode(e, s)
      PROVE  Told(f)
  BY <1>1, <1>9 DEF StartStep, ReadGate, RefuseNode, Advance, graph
<1>10. ASSUME NEW e \in Executors, NEW s \in Steps, NEW o \in Outcome, EndNode(e, s, o)
       PROVE  Told(f)
  BY <1>1, <1>10 DEF EndNode, Advance, graph
<1>11. ASSUME NEW e \in Executors, NEW s \in Steps, NEW o \in Outcome, EndSerial(e, s, o)
       PROVE  Told(f)
  <2>1. \/ Rest(e) /\ (failure[e] => jobStatus' = "FAILED")
        \/ Goto(e, "round") /\ UNCHANGED failure
    BY <1>11 DEF EndSerial
  <2> QED
    BY <1>w, <2>1, ToldWhenResting, ToldWhenGoing
<1>12. ASSUME NEW e \in Executors, ApplyReports(e) PROVE Told(f)
  <2>1. \/ Rest(e) /\ (failure[e] => jobStatus' = "FAILED")
        \/ Goto(e, "round") /\ failure' = [failure EXCEPT ![e] = FailureSeen(e)]
    BY <1>12 DEF ApplyReports, FailureSeen
  <2>2. Goto(e, "round") /\ failure' = [failure EXCEPT ![e] = FailureSeen(e)] => Told(f)
    BY <1>w, ToldWhenGoing DEF TypeOK
  <2> QED
    BY <2>1, <2>2, ToldWhenResting
<1>13. ASSUME NEW e \in Executors, Crash(e) PROVE Told(f)
  <2>1. crashes' # crashes
    BY <1>13 DEF Crash, TypeOK
  <2> QED
    BY <1>13, <2>1, ToldWhenResting DEF Crash
<1>14. WebProcess => Told(f)
  BY <1>1 DEF WebProcess, StartAgain, Decide, ReadForCancel, RequestCancellation,
              ReadForResume, ResumeRun, exec, graph
<1>15. Next => Told(f)
  BY <1>3, <1>4, <1>5, <1>6, <1>7, <1>8, <1>9, <1>10, <1>11, <1>12, <1>13, <1>14, NextCases
<1> QED
  BY <1>1, <1>15 DEF vars

(* However many executors share a run, none that has seen a step fail      *)
(* leaves it with anything but FAILED, or CANCELLED, unless it dies.       *)
THEOREM FailuresAreTold == Spec => FailureIsNotForgotten
<1> DEFINE Tells == \A e \in Executors :
                      failure[e] /\ pc'[e] = "idle" /\ crashes' = crashes
                        => jobStatus' \in {"FAILED", "CANCELLED"}
<1>1. Init => FailureInv
  BY DEF Init, FailureInv
<1>2. TypeOK /\ FailureInv /\ [Next]_vars => FailureInv' /\ [Tells]_vars
  BY FailureStep DEF Told, FailureInv
<1> QED
  BY <1>1, <1>2, TypeCorrect, PTL DEF Spec, FailureIsNotForgotten

(* What an executor has in hand, or is about to take up, has not succeeded. *)
InHand == {"admitted", "refused", "running", "open", "shut"}

KeptInv(e) == \A s \in Steps : node[e][s] \in InHand => row[s] # "SUCCEEDED"

LEMMA RowsStay ==
  ASSUME NEW e, Executors = {e}, TypeOK, KeptInv(e), [Next]_vars, NEW s \in Steps
  PROVE  row[s] = "SUCCEEDED" => row'[s] = "SUCCEEDED"
<1> DEFINE Goal == row[s] = "SUCCEEDED" => row'[s] = "SUCCEEDED"
<1>1. UNCHANGED row => Goal
  OBVIOUS
<1>2. ASSUME NEW t \in Steps, node[e][t] \in InHand,
             \E status : row' = [row EXCEPT ![t] = status]
      PROVE  Goal
  BY <1>2 DEF KeptInv, TypeOK
<1>3. ASSUME NEW t \in Steps, StartStep(e, t) \/ RefuseNode(e, t) PROVE Goal
  BY <1>2, <1>3 DEF StartStep, RefuseNode, Advance, InHand
<1>4. ASSUME NEW t \in Steps, NEW o \in Outcome, EndSerial(e, t, o) \/ EndNode(e, t, o)
      PROVE  Goal
  <2>1. Record(t, o) /\ CanEnd(node[e][t], t, o)
    BY <1>4 DEF EndSerial, EndNode
  <2>2. node[e][t] \in InHand
    BY <2>1 DEF CanEnd, InHand
  <2> QED
    BY <1>2, <2>1, <2>2 DEF Record
<1>5. ASSUME \/ Execute(e) \/ Cancel(e) \/ Skip(e) \/ TakeOne(e) \/ TakeWave(e)
             \/ Finish(e) \/ ApplyReports(e) \/ Crash(e)
             \/ \E t \in Steps : ReadGate(e, t)
      PROVE  Goal
  BY <1>1, <1>5 DEF Execute, Cancel, Skip, TakeOne, TakeWave, Finish, ApplyReports, Crash,
                    ReadGate, db
<1>6. WebProcess => Goal
  BY <1>1 DEF WebProcess, StartAgain, Decide, ReadForCancel, RequestCancellation,
              ReadForResume, ResumeRun, db
<1>7. (\A w \in Workers : Dequeue(w) => Goal) /\ (\A c \in Shells : StepOnce(c) => Goal)
  BY <1>1 DEF Dequeue, StepOnce, db
<1>8. Next => Goal
  <2> HIDE DEF Goal
  <2> QED
    BY <1>3, <1>4, <1>5, <1>6, <1>7, NextCases
<1> QED
  BY <1>1, <1>8 DEF vars

LEMMA KeptStep ==
  ASSUME NEW e, Executors = {e}, TypeOK, TrackInv, KeptInv(e), [Next]_vars
  PROVE  KeptInv(e)'
<1> DEFINE Goal == KeptInv(e)'
<1>0. e \in Executors
  OBVIOUS
<1>1. UNCHANGED <<row, node>> => Goal
  BY DEF KeptInv
<1>2. node'[e] = NoNode => Goal
  BY DEF KeptInv, NoNode, InHand
<1>3. Rest(e) => Goal
  BY <1>0, <1>2 DEF Rest, TypeOK
<1>4. ASSUME Execute(e) \/ Cancel(e) \/ Finish(e) \/ Crash(e) PROVE Goal
  BY <1>1, <1>3, <1>4 DEF Execute, Cancel, Finish, Crash, StopWith
<1>5. Skip(e) => Goal
  BY <1>1 DEF Skip, db
<1>6. \A t \in Fresh(e) : row[t] # "SUCCEEDED"
  BY DEF Fresh, Stored
<1>7. ASSUME TakeOne(e) PROVE Goal
  <2>1. PICK t \in Fresh(e) : node' = [node EXCEPT ![e] = [NoNode EXCEPT ![t] = "admitted"]]
    BY <1>7 DEF TakeOne
  <2>2. \A u \in Steps : u # t => node'[e][u] = "out"
    BY <1>0, <2>1 DEF NoNode, TypeOK
  <2> QED
    BY <1>6, <1>7, <2>1, <2>2 DEF TakeOne, db, KeptInv, InHand
<1>8. ASSUME TakeWave(e) PROVE Goal
  <2>1. PICK refused \in {{}} \cup {{s} : s \in {t \in Paid : InWave(e, t)}} :
          node' = [node EXCEPT ![e] = Admission(e, refused)]
    BY <1>8 DEF TakeWave
  <2>2. \A t \in refused : InWave(e, t)
    BY <2>1
  <2>3. ASSUME NEW t \in Steps, node'[e][t] \in InHand PROVE t \in Fresh(e)
    <3>1. node'[e][t] = Admission(e, refused)[t]
      BY <1>0, <2>1 DEF TypeOK
    <3>2. t \in refused \/ InWave(e, t)
      BY <2>3, <3>1 DEF Admission, InHand
    <3> QED
      BY <2>2, <3>2 DEF InWave
  <2> QED
    BY <1>6, <1>8, <2>3 DEF TakeWave, db, KeptInv
<1>9. ASSUME NEW s \in Steps, NEW from, NEW to, Advance(e, s, from, to),
             \/ UNCHANGED row /\ from \in InHand
             \/ \E status : row' = [row EXCEPT ![s] = status]
                            /\ (to \in InHand => status # "SUCCEEDED")
      PROVE  Goal
  <2>1. ASSUME NEW t \in Steps, node'[e][t] \in InHand PROVE row'[t] # "SUCCEEDED"
    <3>1. CASE t = s
      <4>1. node'[e][s] = to /\ node[e][s] = from
        BY <1>0, <1>9 DEF Advance, TypeOK
      <4> QED
        BY <1>9, <2>1, <3>1, <4>1 DEF KeptInv, TypeOK
    <3>2. CASE t # s
      <4>1. node'[e][t] = node[e][t] /\ row'[t] = row[t]
        BY <1>0, <1>9, <3>2 DEF Advance, TypeOK
      <4> QED
        BY <2>1, <4>1 DEF KeptInv
    <3> QED
      BY <3>1, <3>2
  <2> QED
    BY <2>1 DEF KeptInv
<1>10. ASSUME NEW s \in Steps, StartStep(e, s) \/ ReadGate(e, s) \/ RefuseNode(e, s)
       PROVE  Goal
  BY <1>9, <1>10 DEF StartStep, ReadGate, RefuseNode, InHand, db
<1>11. ASSUME NEW s \in Steps, NEW o \in Outcome, EndNode(e, s, o) PROVE Goal
  <2>1. o \notin InHand
    BY DEF Outcome, InHand
  <2> QED
    BY <1>9, <1>11, <2>1 DEF EndNode, Record
<1>12. ASSUME NEW s \in Steps, NEW o \in Outcome, EndSerial(e, s, o) PROVE Goal
  BY <1>0, <1>2, <1>3, <1>12 DEF EndSerial, StopWith, TypeOK
<1>13. ApplyReports(e) => Goal
  BY <1>0, <1>2, <1>3 DEF ApplyReports, StopWith, TypeOK
<1>14. WebProcess => Goal
  BY <1>1 DEF WebProcess, StartAgain, Decide, ReadForCancel, RequestCancellation,
              ReadForResume, ResumeRun, db, exec
<1>15. (\A w \in Workers : Dequeue(w) => Goal) /\ (\A c \in Shells : StepOnce(c) => Goal)
  BY <1>1 DEF Dequeue, StepOnce, Load, db
<1>16. Next => Goal
  <2> HIDE DEF Goal
  <2> QED
    BY <1>4, <1>5, <1>7, <1>8, <1>10, <1>11, <1>12, <1>13, <1>14, <1>15, NextCases
<1> QED
  BY <1>1, <1>16 DEF vars

(* Run by one executor at most, a step recorded SUCCEEDED is never run, or *)
(* paid for, again: no resume, duplicate entry or death brings it back.    *)
THEOREM CompletedStepsStand ==
  ASSUME NEW e, Executors = {e} PROVE Spec => CompletedStepsAreKept
<1>1. Init => KeptInv(e)
  BY DEF Init, KeptInv
<1>2. EngineInv /\ KeptInv(e) /\ [Next]_vars => KeptInv(e)'
  BY KeptStep DEF EngineInv
<1>3. EngineInv /\ KeptInv(e) /\ [Next]_vars
        => [\A s \in Steps : row[s] = "SUCCEEDED" => row'[s] = "SUCCEEDED"]_vars
  BY RowsStay DEF EngineInv
<1> QED
  BY <1>1, <1>2, <1>3, EngineInvariant, PTL DEF Spec, CompletedStepsAreKept

-----------------------------------------------------------------------------
(* The engine implements the plan.                                         *)

LEMMA DecisionMoves ==
  ASSUME TypeOK, [Next]_vars
  PROVE  UNCHANGED decision \/ \E g \in Gates : Decide(g)
<1> DEFINE Goal == UNCHANGED decision \/ \E g \in Gates : Decide(g)
<1>1. WebProcess => Goal
  BY DEF WebProcess, StartAgain, ReadForCancel, RequestCancellation, ReadForResume,
         ResumeRun, db
<1>2. ASSUME NEW e \in Executors,
             \/ Execute(e) \/ Cancel(e) \/ Skip(e) \/ TakeOne(e) \/ TakeWave(e)
             \/ Finish(e) \/ ApplyReports(e) \/ Crash(e)
             \/ \E s \in Steps : StartStep(e, s) \/ ReadGate(e, s) \/ RefuseNode(e, s)
             \/ \E s \in Steps, o \in Outcome : EndSerial(e, s, o) \/ EndNode(e, s, o)
      PROVE  Goal
  BY <1>2 DEF Execute, Cancel, Skip, TakeOne, TakeWave, Finish, ApplyReports, Crash,
              StartStep, ReadGate, RefuseNode, EndSerial, EndNode, db
<1>3. (\A w \in Workers : Dequeue(w) => Goal) /\ (\A c \in Shells : StepOnce(c) => Goal)
  BY DEF Dequeue, StepOnce, db
<1>4. CASE Next
  <2> HIDE DEF Goal
  <2>1. Goal
    BY <1>1, <1>2, <1>3, <1>4, NextCases
  <2> QED
    BY <2>1 DEF Goal
<1> QED
  BY <1>4 DEF vars

LEMMA PlanStep ==
  ASSUME EngineInv, [Next]_vars
  PROVE  Plan!Next \/ UNCHANGED <<done, decision>>
<1>0. TypeOK /\ HeldInv
  BY DEF EngineInv
<1>1. CASE \E g \in Gates : Decide(g)
  <2>1. PICK g \in Gates : Decide(g)
    BY <1>1
  <2>2. decision[g] = "NONE" /\ done' = done
    BY <2>1 DEF Decide, MayDecide
  <2>3. \E verdict \in {"APPROVED", "MISMATCHED", "REJECTED"} :
          decision' = [decision EXCEPT ![g] = verdict]
    BY <2>1 DEF Decide, MayDecide, Verdict
  <2>4. Plan!Decide(g)
    BY <2>2, <2>3 DEF Plan!Decide
  <2> QED
    BY <2>4 DEF Plan!Next
<1>2. CASE UNCHANGED decision /\ done' # done
  <2>1. PICK s \in done' : s \notin done
    BY <1>0, <1>2, DoneGrows
  <2>2. Plan!Complete(s) /\ s \in Steps
    BY <1>0, <1>2, <2>1, CompletesInOrder DEF Plan!Complete
  <2> QED
    BY <2>2 DEF Plan!Next
<1>3. CASE UNCHANGED decision /\ done' = done
  BY <1>3
<1> QED
  BY <1>0, <1>1, <1>2, <1>3, DecisionMoves

(* Whatever the executors do, the operator sees the gated plan of          *)
(* GatedPlan: steps complete in order, gates only once approved, and       *)
(* neither a decision nor a completed step is ever taken back.             *)
THEOREM EngineKeepsThePlan == Spec => KeepsThePlan
<1>1. Init => Plan!Init
  BY DEF Init, Plan!Init
<1>2. EngineInv /\ [Next]_vars => [Plan!Next]_<<done, decision>>
  BY PlanStep
<1> QED
  BY <1>1, <1>2, EngineInvariant, PTL DEF Spec, KeepsThePlan, Plan!Spec

-----------------------------------------------------------------------------
(* Progress.  First that an executor always has something in hand.         *)

Hand(e) ==
  /\ \A s \in Steps : node[e][s] \in {"open", "shut"} => s \in Gates
  /\ pc[e] \in {"serial", "wave"} => Reported(e) # {}
  /\ pc[e] = "serial" =>
       \A s \in Reported(e) : /\ node[e][s] \in {"admitted", "running", "open", "shut"}
                              /\ s \notin pending[e]

LEMMA HandWhenSame ==
  ASSUME NEW e \in Executors, Hand(e), SameExecutor(e)
  PROVE  Hand(e)'
  BY DEF Hand, SameExecutor, Reported, In

LEMMA HandWhenEmpty ==
  ASSUME NEW e \in Executors, node'[e] = NoNode, pc'[e] \notin {"serial", "wave"}
  PROVE  Hand(e)'
  BY DEF Hand, NoNode

(* Only the executor that acts has to be looked at.                        *)
LEMMA HandFrom ==
  ASSUME HandInv, NEW e \in Executors, Hand(e)',
         \A f \in Executors \ {e} : SameExecutor(f)
  PROVE  \A f \in Executors : Hand(f)'
<1> SUFFICES ASSUME NEW f \in Executors PROVE Hand(f)'
  OBVIOUS
<1>1. CASE f = e
  BY <1>1
<1>2. CASE f # e
  <2>1. Hand(f)
    BY DEF HandInv, Hand
  <2> QED
    BY <1>2, <2>1, HandWhenSame
<1> QED
  BY <1>1, <1>2

LEMMA OthersWhenResting ==
  ASSUME TypeOK, NEW e \in Executors, Rest(e)
  PROVE  /\ \A f \in Executors \ {e} : SameExecutor(f)
         /\ pc'[e] = "idle" /\ node'[e] = NoNode /\ pending'[e] = {}
  BY DEF Rest, Goto, SameExecutor, TypeOK

LEMMA OthersWhenAdvancing ==
  ASSUME TypeOK, NEW e \in Executors, NEW s \in Steps, NEW from, NEW to,
         Advance(e, s, from, to)
  PROVE  /\ \A f \in Executors \ {e} : SameExecutor(f)
         /\ \A t \in Steps : node'[e][t] = IF t = s THEN to ELSE node[e][t]
         /\ pc'[e] = pc[e] /\ pending'[e] = pending[e]
  BY DEF Advance, graph, SameExecutor, TypeOK

LEMMA HandWhenAdvancing ==
  ASSUME TypeOK, HandInv, NEW e \in Executors, NEW s \in Steps, NEW from, NEW to,
         Advance(e, s, from, to), from # "out", to # "out",
         to \in {"open", "shut"} => s \in Gates,
         pc[e] = "serial" => to \in {"admitted", "running", "open", "shut"}
  PROVE  \A f \in Executors : Hand(f)'
<1>1. Hand(e)
  BY DEF HandInv, Hand
<1>2. node[e][s] = from
  BY DEF Advance
<1>3. /\ \A t \in Steps : node'[e][t] = IF t = s THEN to ELSE node[e][t]
      /\ pc'[e] = pc[e] /\ pending'[e] = pending[e]
  BY OthersWhenAdvancing
<1>4. Reported(e)' = Reported(e) /\ s \in Reported(e) /\ Reported(e) \subseteq Steps
  BY <1>2, <1>3 DEF Reported, In
<1>5. Hand(e)'
  BY <1>1, <1>3, <1>4 DEF Hand
<1> QED
  BY <1>5, OthersWhenAdvancing, HandFrom

(* Of any steps, one was declared before the others.                       *)
LEMMA OneIsFirst ==
  ASSUME NEW S \in SUBSET Steps, S # {}
  PROVE  \E m \in S : \A t \in S : ~Before(t, m)
<1> DEFINE places == {Sequence[s] : s \in S}
<1>1. places \in SUBSET Nat /\ places # {}
  BY StepsAssumption
<1>2. PICK n \in places : \A k \in places : n <= k
  <2> HIDE DEF places
  <2> QED
    BY <1>1, Least
<1>3. PICK m \in S : Sequence[m] = n
  OBVIOUS
<1>4. \A t \in S : Sequence[m] <= Sequence[t] /\ Sequence[t] \in Nat /\ Sequence[m] \in Nat
  BY <1>2, <1>3, StepsAssumption
<1> QED
  BY <1>4 DEF Before

(* What a wave takes up was ready, and it takes up something.              *)
LEMMA WaveIsNotEmpty ==
  ASSUME TypeOK, NEW e \in Executors, Fresh(e) # {},
         NEW refused \in {{}} \cup {{s} : s \in {t \in Paid : InWave(e, t)}}
  PROVE  /\ Admission(e, refused) \in [Steps -> {"out", "admitted", "refused"}]
         /\ \A s \in Steps : Admission(e, refused)[s] # "out" => s \in Fresh(e)
         /\ \E s \in Steps : Admission(e, refused)[s] # "out"
<1>1. Fresh(e) \subseteq Steps
  BY DEF Fresh, Ready, Remaining, TypeOK
<1>2. \A s \in refused : s \in Fresh(e)
  BY DEF InWave
<1>3. Admission(e, refused) \in [Steps -> {"out", "admitted", "refused"}]
  BY DEF Admission
<1>4. \A s \in Steps : Admission(e, refused)[s] # "out" => s \in Fresh(e)
  BY <1>2 DEF Admission, InWave
<1>5. \E s \in Steps : Admission(e, refused)[s] # "out"
  <2>1. CASE refused # {}
    BY <1>1, <1>2, <2>1 DEF Admission
  <2>2. CASE refused = {}
    <3>1. PICK m \in Fresh(e) : \A t \in Fresh(e) : ~Before(t, m)
      BY <1>1, OneIsFirst
    <3>2. {t \in Fresh(e) : Before(t, m)} = {}
      BY <3>1
    <3>3. Cardinality({t \in Fresh(e) : Before(t, m)}) = 0
      BY <3>2, FS_EmptySet
    <3>4. InWave(e, m)
      BY <3>1, <3>3, BoundsAssumption DEF InWave
    <3> QED
      BY <1>1, <2>2, <3>1, <3>4 DEF Admission
  <2> QED
    BY <2>1, <2>2
<1> QED
  BY <1>3, <1>4, <1>5

(* What scheduling does, on any of its ways: nothing is added to what is   *)
(* pending, what is taken up was pending, and something is taken up or     *)
(* taken from its row.                                                     *)
Scheduled(e) ==
  /\ \A f \in Executors \ {e} : SameExecutor(f)
  /\ pc[e] = "round" /\ node[e] = NoNode
  /\ pending'[e] \subseteq pending[e]
  /\ node'[e] \in [Steps -> {"out", "admitted", "refused"}]
  /\ \A s \in Steps : node'[e][s] # "out" => s \in pending[e]
  /\ \/ /\ pc'[e] = "round" /\ node'[e] = NoNode
        /\ \E s \in pending[e] : s \notin pending'[e]
     \/ /\ pc'[e] = "wave"
        /\ \E s \in Steps : node'[e][s] # "out"
     \/ /\ pc'[e] = "serial"
        /\ \E s \in Steps : /\ s \notin pending'[e]
                            /\ node'[e] = [NoNode EXCEPT ![s] = "admitted"]

LEMMA TakingStock ==
  ASSUME TypeOK, NEW e \in Executors, NEW chosen, TakeStock(e, chosen), NEW label,
         NEW given, pc' = [pc EXCEPT ![e] = label], node' = [node EXCEPT ![e] = given]
  PROVE  /\ \A f \in Executors \ {e} : SameExecutor(f)
         /\ pc'[e] = label /\ node'[e] = given
         /\ pending'[e] = (Remaining(e) \ Stored(e)) \ chosen
         /\ pending'[e] \subseteq pending[e]
         /\ Stored(e) \subseteq pending[e] /\ Fresh(e) \subseteq pending[e]
         /\ pending[e] \subseteq Steps
  BY DEF TakeStock, SameExecutor, TypeOK, Remaining, Stored, Fresh, Ready

LEMMA ScheduledWhenTaking ==
  ASSUME TypeOK, TrackInv, NEW e \in Executors, Skip(e) \/ TakeOne(e) \/ TakeWave(e)
  PROVE  Scheduled(e)
<1>1. pc[e] = "round" /\ node[e] = NoNode
  BY DEF Skip, TakeOne, TakeWave, GoesOn, TrackInv
<1>2. ASSUME Skip(e) PROVE Scheduled(e)
  <2>1. /\ TakeStock(e, {}) /\ Stored(e) # {}
        /\ pc' = [pc EXCEPT ![e] = "round"] /\ node' = [node EXCEPT ![e] = NoNode]
    BY <1>1, <1>2 DEF Skip, TypeOK
  <2>2. /\ \A f \in Executors \ {e} : SameExecutor(f)
        /\ pc'[e] = "round" /\ node'[e] = NoNode
        /\ pending'[e] = (Remaining(e) \ Stored(e)) \ {}
        /\ pending'[e] \subseteq pending[e]
        /\ Stored(e) \subseteq pending[e]
    BY <2>1, TakingStock
  <2>3. \E s \in pending[e] : s \notin pending'[e]
    BY <2>1, <2>2
  <2>4. NoNode \in [Steps -> {"out", "admitted", "refused"}] /\ \A s \in Steps : NoNode[s] = "out"
    BY DEF NoNode
  <2> QED
    BY <1>1, <2>2, <2>3, <2>4 DEF Scheduled
<1>3. ASSUME TakeOne(e) PROVE Scheduled(e)
  <2>1. PICK s \in Fresh(e) :
          TakeStock(e, {s}) /\ node' = [node EXCEPT ![e] = [NoNode EXCEPT ![s] = "admitted"]]
    BY <1>3 DEF TakeOne
  <2>2. pc' = [pc EXCEPT ![e] = "serial"]
    BY <1>3 DEF TakeOne, Goto
  <2>3. /\ \A f \in Executors \ {e} : SameExecutor(f)
        /\ pc'[e] = "serial" /\ node'[e] = [NoNode EXCEPT ![s] = "admitted"]
        /\ pending'[e] = (Remaining(e) \ Stored(e)) \ {s}
        /\ pending'[e] \subseteq pending[e]
        /\ s \in pending[e] /\ s \in Steps
    BY <2>1, <2>2, TakingStock
  <2>4. /\ node'[e] \in [Steps -> {"out", "admitted", "refused"}]
        /\ \A t \in Steps : node'[e][t] # "out" => t = s
    BY <2>3 DEF NoNode
  <2> QED
    BY <1>1, <2>3, <2>4 DEF Scheduled
<1>4. ASSUME TakeWave(e) PROVE Scheduled(e)
  <2>1. PICK refused \in {{}} \cup {{s} : s \in {t \in Paid : InWave(e, t)}} :
          node' = [node EXCEPT ![e] = Admission(e, refused)]
    BY <1>4 DEF TakeWave
  <2>2. /\ TakeStock(e, {}) /\ pc' = [pc EXCEPT ![e] = "wave"]
        /\ Fresh(e) # {}
    BY <1>4 DEF TakeWave, GoesOn, Goto
  <2> DEFINE given == Admission(e, refused)
  <2>3. /\ given \in [Steps -> {"out", "admitted", "refused"}]
        /\ \A s \in Steps : given[s] # "out" => s \in Fresh(e)
        /\ \E s \in Steps : given[s] # "out"
    BY <2>1, <2>2, WaveIsNotEmpty
  <2>4. node' = [node EXCEPT ![e] = given]
    BY <2>1
  <2> HIDE DEF given
  <2>5. /\ \A f \in Executors \ {e} : SameExecutor(f)
        /\ pc'[e] = "wave" /\ node'[e] = given
        /\ pending'[e] \subseteq pending[e]
        /\ Fresh(e) \subseteq pending[e]
    BY <2>2, <2>4, TakingStock
  <2> QED
    BY <1>1, <2>3, <2>5 DEF Scheduled
<1> QED
  BY <1>2, <1>3, <1>4

(* A round that takes its outcome in and goes on has nothing in hand.      *)
GoneOn(e) ==
  /\ \A f \in Executors \ {e} : SameExecutor(f)
  /\ pc'[e] = "round" /\ node'[e] = NoNode

LEMMA GoneOnSerially ==
  ASSUME TypeOK, NEW e \in Executors, NEW s \in Steps, NEW o \in Outcome,
         EndSerial(e, s, o), ~Rest(e)
  PROVE  /\ GoneOn(e) /\ pending'[e] = pending[e]
         /\ pc[e] = "serial" /\ node[e][s] \in {"open", "shut", "running"}
<1>1. /\ pc' = [pc EXCEPT ![e] = "round"]
      /\ outputs' = [outputs EXCEPT ![e] = @ \cup {s}]
      /\ node' = [node EXCEPT ![e] = NoNode]
      /\ UNCHANGED <<pending, abandoned, failure>>
  BY DEF EndSerial, StopWith, Goto
<1>2. pc[e] = "serial" /\ node[e][s] \in {"open", "shut", "running"}
  BY DEF EndSerial, CanEnd
<1> QED
  BY <1>1, <1>2 DEF GoneOn, SameExecutor, TypeOK

LEMMA GoneOnInAWave ==
  ASSUME TypeOK, NEW e \in Executors, ApplyReports(e), ~Rest(e)
  PROVE  /\ GoneOn(e) /\ pending'[e] = pending[e] \ Reported(e)
         /\ pc[e] = "wave" /\ Reported(e) = In(e, Outcome \cup {"declined"})
<1>1. /\ pc[e] = "wave"
      /\ Reported(e) = In(e, Outcome \cup {"declined"})
      /\ pc' = [pc EXCEPT ![e] = "round"]
      /\ outputs' = [outputs EXCEPT ![e] = @ \cup In(e, {"succeeded"})]
      /\ pending' = [pending EXCEPT ![e] = @ \ Reported(e)]
      /\ abandoned' = [abandoned EXCEPT ![e] = @ \cup In(e, {"failed"})]
      /\ failure' = [failure EXCEPT ![e] = FailureSeen(e)]
      /\ node' = [node EXCEPT ![e] = NoNode]
  BY DEF ApplyReports, StopWith, Goto
<1> QED
  BY <1>1 DEF GoneOn, SameExecutor, TypeOK

LEMMA Executing ==
  ASSUME TypeOK, TrackInv, NEW e \in Executors, Execute(e), ~Rest(e)
  PROVE  GoneOn(e) /\ pc[e] = "loaded" /\ node[e] = NoNode
<1>1. /\ pc[e] = "loaded"
      /\ pc' = [pc EXCEPT ![e] = "round"]
      /\ pending' = [pending EXCEPT ![e] = Steps]
      /\ UNCHANGED <<outputs, abandoned, failure, node>>
  BY DEF Execute, Goto
<1>2. node[e] = NoNode
  BY <1>1 DEF TrackInv
<1> QED
  BY <1>1, <1>2 DEF GoneOn, SameExecutor, TypeOK

LEMMA Loading ==
  ASSUME TypeOK, TrackInv, NEW e \in Executors, NEW status, NEW mode,
         Load(e, status, mode), pc[e] = "idle"
  PROVE  /\ \A f \in Executors \ {e} : SameExecutor(f)
         /\ pc'[e] = "loaded" /\ node'[e] = NoNode
  BY DEF Load, Goto, graph, SameExecutor, TypeOK, TrackInv

LEMMA HandStep == TypeOK /\ TrackInv /\ HandInv /\ [Next]_vars => HandInv'
<1> SUFFICES ASSUME TypeOK, TrackInv, HandInv, [Next]_vars PROVE HandInv'
  OBVIOUS
<1> DEFINE Goal == \A f \in Executors : Hand(f)'
<1>still. ASSUME UNCHANGED exec PROVE Goal
  <2> SUFFICES ASSUME NEW f \in Executors PROVE Hand(f)'
    OBVIOUS
  <2>1. Hand(f) /\ SameExecutor(f)
    BY <1>still DEF exec, graph, SameExecutor, HandInv, Hand
  <2> QED
    BY <2>1, HandWhenSame
<1>rest. ASSUME NEW e \in Executors, Rest(e) PROVE Goal
  BY <1>rest, OthersWhenResting, HandWhenEmpty, HandFrom
<1>on. ASSUME NEW e \in Executors, GoneOn(e) PROVE Goal
  BY <1>on, HandWhenEmpty, HandFrom DEF GoneOn
<1>1. ASSUME UNCHANGED vars PROVE Goal
  BY <1>1, <1>still DEF vars, exec, memory, graph
<1>load. ASSUME NEW e \in Executors, NEW status, NEW mode, Load(e, status, mode), pc[e] = "idle"
         PROVE  Goal
  BY <1>load, Loading, HandWhenEmpty, HandFrom
<1>2. (\A w \in Workers : Dequeue(w) => Goal) /\ (\A c \in Shells : StepOnce(c) => Goal)
  BY <1>load, Constants DEF Dequeue, StepOnce
<1>3. ASSUME NEW e \in Executors, Cancel(e) \/ Finish(e) \/ Crash(e) PROVE Goal
  BY <1>3, <1>rest DEF Cancel, Finish, Crash, StopWith
<1>4. ASSUME NEW e \in Executors, Execute(e) PROVE Goal
  BY <1>4, <1>rest, <1>on, Executing
<1>5. ASSUME NEW e \in Executors, Skip(e) \/ TakeOne(e) \/ TakeWave(e) PROVE Goal
  <2>1. Scheduled(e)
    BY <1>5, ScheduledWhenTaking
  <2>2. CASE pc'[e] = "round"
    BY <2>1, <2>2, HandWhenEmpty, HandFrom DEF Scheduled
  <2>3. CASE pc'[e] = "wave"
    <3>1. Hand(e)'
      BY <2>1, <2>3 DEF Scheduled, Hand, Reported, In
    <3> QED
      BY <2>1, <3>1, HandFrom DEF Scheduled
  <2>4. CASE pc'[e] = "serial"
    <3>1. PICK s \in Steps : /\ s \notin pending'[e]
                             /\ node'[e] = [NoNode EXCEPT ![s] = "admitted"]
      BY <2>1, <2>4 DEF Scheduled
    <3>2. \A t \in Steps : node'[e][t] = IF t = s THEN "admitted" ELSE "out"
      BY <3>1 DEF NoNode
    <3>3. Reported(e)' = {s}
      BY <3>2 DEF Reported, In
    <3>4. Hand(e)'
      BY <2>4, <3>1, <3>2, <3>3 DEF Hand
    <3> QED
      BY <2>1, <3>4, HandFrom DEF Scheduled
  <2> QED
    BY <2>1, <2>2, <2>3, <2>4 DEF Scheduled
<1>8. ASSUME NEW e \in Executors, NEW s \in Steps, StartStep(e, s) PROVE Goal
  BY <1>8, HandWhenAdvancing DEF StartStep
<1>9. ASSUME NEW e \in Executors, NEW s \in Steps, ReadGate(e, s) PROVE Goal
  BY <1>9, HandWhenAdvancing DEF ReadGate
<1>10. ASSUME NEW e \in Executors, NEW s \in Steps, RefuseNode(e, s) PROVE Goal
  <2>1. Advance(e, s, "refused", "declined") /\ node[e][s] = "refused"
    BY <1>10 DEF RefuseNode, Advance
  <2>2. pc[e] # "serial"
    BY <2>1 DEF HandInv, Reported, In
  <2> QED
    BY <2>1, <2>2, HandWhenAdvancing
<1>11. ASSUME NEW e \in Executors, NEW s \in Steps, NEW o \in Outcome, EndNode(e, s, o)
       PROVE  Goal
  <2>1. /\ Advance(e, s, node[e][s], o) /\ node[e][s] # "out" /\ pc[e] = "wave"
        /\ o \notin {"out", "open", "shut"}
    BY <1>11 DEF EndNode, CanEnd, Outcome
  <2> QED
    BY <2>1, HandWhenAdvancing
<1>12. ASSUME NEW e \in Executors, NEW s \in Steps, NEW o \in Outcome, EndSerial(e, s, o)
       PROVE  Goal
  BY <1>12, <1>rest, <1>on, GoneOnSerially
<1>13. ASSUME NEW e \in Executors, ApplyReports(e) PROVE Goal
  BY <1>13, <1>rest, <1>on, GoneOnInAWave
<1>14. WebProcess => Goal
  BY <1>still DEF WebProcess, StartAgain, Decide, ReadForCancel, RequestCancellation,
         ReadForResume, ResumeRun
<1>15. Goal
  <2>1. CASE Next
    <3> HIDE DEF Goal
    <3> QED
      BY <1>2, <1>3, <1>4, <1>5, <1>8, <1>9, <1>10, <1>11, <1>12, <1>13, <1>14,
         <2>1, NextCases
  <2> QED
    BY <1>1, <2>1
<1> QED
  BY <1>15 DEF HandInv, Hand

LEMMA HandHolds == Spec => [](TypeOK /\ TrackInv /\ HandInv)
<1>1. Init => HandInv
  BY DEF Init, HandInv, NoNode
<1>2. EngineInv => TypeOK /\ TrackInv
  BY DEF EngineInv
<1> QED
  BY <1>1, <1>2, HandStep, EngineInvariant, PTL DEF Spec

(* Of the pauses of a wave, one was the last reported.                     *)
LEMMA OneIsLast ==
  ASSUME TypeOK, NEW e \in Executors, PausedIn(e) # {}
  PROVE  \E s \in Steps : LastPaused(e, s)
<1> DEFINE ran == {s \in PausedIn(e) : node[e][s] # "declined"}
<1>1. PausedIn(e) \subseteq Steps /\ IsFiniteSet(Steps)
  BY StepsAssumption DEF PausedIn, In
<1>2. CASE ran = {}
  BY <1>1, <1>2 DEF LastPaused
<1>3. CASE ran # {}
  <2>1. /\ IsFiniteSet(ran)
        /\ \A s \in ran : Sequence[s] \in Int
    BY <1>1, FS_Subset, StepsAssumption
  <2>2. PICK x \in ran : \A y \in ran : Sequence[y] <= Sequence[x]
    <3> HIDE DEF ran
    <3> QED
      BY <1>3, <2>1, Greatest
  <2>3. \A y \in ran \ {x} : Before(y, x)
    BY <1>1, <2>2, StepsAssumption DEF Before
  <2>4. LastPaused(e, x)
    BY <2>2, <2>3 DEF LastPaused
  <2> QED
    BY <1>1, <2>2, <2>4
<1> QED
  BY <1>2, <1>3

(* Every executor at work has a next step of its own, in every state the   *)
(* run can come to: the loop never waits for anybody.                      *)
THEOREM NobodyIsEverStuck == Spec => []NobodyIsStuck
<1>1. TypeOK /\ TrackInv /\ HandInv => NobodyIsStuck
  <2> SUFFICES ASSUME TypeOK, TrackInv, HandInv, NEW e \in Executors, pc[e] # "idle"
               PROVE  CanGoOn(e)
    BY DEF NobodyIsStuck
  <2>1. CASE pc[e] = "round"
    <3>1. SUFFICES ASSUME ~NothingLeft(e), ~cancelled PROVE CanSchedule(e)
      BY <2>1 DEF CanGoOn, CanSchedule, NothingLeft
    <3>2. Ready(e) # {} /\ Fresh(e) \in SUBSET Steps
      BY <3>1 DEF NothingLeft, Fresh, Ready, Remaining, TypeOK
    <3>3. CASE Fresh(e) = {}
      BY <3>1, <3>2, <3>3 DEF CanSchedule, Fresh
    <3>4. CASE Fresh(e) # {}
      BY <3>1, <3>2, <3>4, OneIsFirst DEF CanSchedule
    <3> QED
      BY <3>3, <3>4
  <2>2. CASE pc[e] \in {"serial", "wave"}
    <3>1. CASE \E s \in Steps : node[e][s] \in InHand
      <4>1. PICK s \in Steps : node[e][s] \in InHand
        BY <3>1
      <4>2. CASE node[e][s] \in {"admitted", "refused"}
        BY <2>2, <4>2 DEF CanGoOn, CanWork
      <4>3. CASE node[e][s] = "running"
        <5>1. CanEnd(node[e][s], s, "failed") /\ "failed" \in Outcome
          BY <4>3 DEF CanEnd, Outcome
        <5> QED
          BY <2>2, <5>1 DEF CanGoOn, CanWork
      <4>4. CASE node[e][s] \in {"open", "shut"}
        <5>1. s \in Gates
          BY <4>4 DEF HandInv
        <5>2. \E o \in Outcome : CanEnd(node[e][s], s, o)
          BY <4>4, <5>1 DEF CanEnd, Outcome
        <5> QED
          BY <2>2, <5>2 DEF CanGoOn, CanWork
      <4> QED
        BY <4>1, <4>2, <4>3, <4>4 DEF InHand
    <3>2. CASE \A s \in Steps : node[e][s] \notin InHand
      <4>1. pc[e] = "wave"
        BY <2>2, <3>2 DEF HandInv, InHand, Reported
      <4>2. \A s \in Steps : node[e][s] \in {"out"} \cup Outcome \cup {"declined"}
        BY <3>2 DEF TypeOK, Phase, InHand, Outcome
      <4>3. Reported(e) = In(e, Outcome \cup {"declined"})
        BY <4>2 DEF Reported, In, Outcome
      <4>4. CanReport(e)
        BY <4>3, OneIsLast DEF CanReport
      <4> QED
        BY <4>1, <4>4 DEF CanGoOn
    <3> QED
      BY <3>1, <3>2
  <2> QED
    BY <2>1, <2>2 DEF TypeOK, Control, CanGoOn
<1> QED
  BY <1>1, HandHolds, PTL

-----------------------------------------------------------------------------
(* Then that each step of an executor leaves it less to do.                *)

(* The reading of ToDo, before a step and after it.                        *)
LEMMA ToDoReads ==
  ASSUME TypeOK, NEW e \in Executors, NEW s \in Steps
  PROVE  /\ node[e][s] \in Phase
         /\ node[e][s] \in {"admitted", "refused"} => ToDo(e)[s] = 4
         /\ node[e][s] = "running" => ToDo(e)[s] = 3
         /\ node[e][s] \in {"open", "shut"} => ToDo(e)[s] = 2
         /\ node[e][s] \in Outcome \cup {"declined"} => ToDo(e)[s] = 1
         /\ node[e][s] = "out" => ToDo(e)[s] = IF s \in pending[e] THEN 5 ELSE 0
  BY DEF TypeOK, ToDo, Outcome

LEMMA ToDoReadsNext ==
  ASSUME TypeOK', NEW e \in Executors, NEW s \in Steps
  PROVE  /\ node'[e][s] \in Phase
         /\ node'[e][s] \in {"admitted", "refused"} => ToDo(e)'[s] = 4
         /\ node'[e][s] = "running" => ToDo(e)'[s] = 3
         /\ node'[e][s] \in {"open", "shut"} => ToDo(e)'[s] = 2
         /\ node'[e][s] \in Outcome \cup {"declined"} => ToDo(e)'[s] = 1
         /\ node'[e][s] = "out" => ToDo(e)'[s] = IF s \in pending'[e] THEN 5 ELSE 0
  BY DEF TypeOK, ToDo, Outcome

LEMMA ToDoType ==
  ASSUME TypeOK, NEW e \in Executors
  PROVE  /\ \A s \in Steps : ToDo(e)[s] \in 0..5
         /\ SumFunctionOnSet(ToDo(e), Steps) \in Nat
         /\ Cardinality(Steps) \in Nat
         /\ SumFunctionOnSet(ToDo(e), Steps) <= Cardinality(Steps) * 5
<1>2. ASSUME NEW s \in Steps PROVE ToDo(e)[s] \in 0..5
  BY ToDoReads DEF Phase, Outcome
<1>3. \A s \in Steps : ToDo(e)[s] \in Nat /\ ToDo(e)[s] <= 5
  BY <1>2
<1>4. IsFiniteSet(Steps)
  BY StepsAssumption
<1>5. Cardinality(Steps) \in Nat
  BY <1>4, FS_CardinalityType
<1>6. SumFunctionOnSet(ToDo(e), Steps) \in Nat
  BY <1>3, <1>4, SumType
<1>7. SumFunctionOnSet(ToDo(e), Steps) <= Cardinality(Steps) * 5
  BY <1>3, <1>4, SumBound
<1> QED
  BY <1>2, <1>5, <1>6, <1>7

LEMMA ToDoNext ==
  ASSUME TypeOK', NEW e \in Executors
  PROVE  /\ \A s \in Steps : ToDo(e)'[s] \in 0..5
         /\ SumFunctionOnSet(ToDo(e)', Steps) \in Nat
         /\ SumFunctionOnSet(ToDo(e)', Steps) <= Cardinality(Steps) * 5
<1>2. ASSUME NEW s \in Steps PROVE ToDo(e)'[s] \in 0..5
  BY ToDoReadsNext DEF Phase, Outcome
<1>3. \A s \in Steps : ToDo(e)'[s] \in Nat /\ ToDo(e)'[s] <= 5
  BY <1>2
<1>4. IsFiniteSet(Steps)
  BY StepsAssumption
<1>6. SumFunctionOnSet(ToDo(e)', Steps) \in Nat
  BY <1>3, <1>4, SumType
<1>7. SumFunctionOnSet(ToDo(e)', Steps) <= Cardinality(Steps) * 5
  BY <1>3, <1>4, SumBound
<1> QED
  BY <1>2, <1>6, <1>7

LEMMA AheadIs ==
  ASSUME TypeOK, TypeOK', NEW e \in Executors
  PROVE  /\ pc[e] \in Working => Ahead(e) = SumFunctionOnSet(ToDo(e), Steps) + 1
         /\ pc[e] = "loaded" =>
              Ahead(e) = SumFunctionOnSet(ToDo(e), Steps) + 5 * Cardinality(Steps) + 2
         /\ pc'[e] = "idle" => Ahead(e)' = SumFunctionOnSet(ToDo(e)', Steps)
         /\ pc'[e] \in Working => Ahead(e)' = SumFunctionOnSet(ToDo(e)', Steps) + 1
<1>1. /\ SumFunctionOnSet(ToDo(e), Steps) \in Nat
      /\ SumFunctionOnSet(ToDo(e)', Steps) \in Nat
      /\ Cardinality(Steps) \in Nat
  BY ToDoType, ToDoNext
<1> DEFINE before == SumFunctionOnSet(ToDo(e), Steps)
           after == SumFunctionOnSet(ToDo(e)', Steps)
<1>2. Ahead(e) = before + CASE pc[e] = "idle" -> 0
                            [] pc[e] \in {"round", "serial", "wave"} -> 1
                            [] pc[e] = "loaded" -> 5 * Cardinality(Steps) + 2
  BY DEF Ahead
<1>3. Ahead(e)' = after + CASE pc'[e] = "idle" -> 0
                            [] pc'[e] \in {"round", "serial", "wave"} -> 1
                            [] pc'[e] = "loaded" -> 5 * Cardinality(Steps) + 2
  BY DEF Ahead
<1>4. before \in Nat /\ after \in Nat /\ Cardinality(Steps) \in Nat
  BY <1>1
<1> HIDE DEF before, after
<1>5. /\ pc[e] \in Working => Ahead(e) = before + 1
      /\ pc[e] = "loaded" => Ahead(e) = before + 5 * Cardinality(Steps) + 2
      /\ pc'[e] = "idle" => Ahead(e)' = after
      /\ pc'[e] \in Working => Ahead(e)' = after + 1
  BY <1>2, <1>3, <1>4 DEF Working
<1> USE DEF before, after
<1> QED
  BY <1>5

LEMMA LessToDo ==
  ASSUME TypeOK, TypeOK', NEW e \in Executors, pc[e] \in Working, pc'[e] \in Working,
         \A s \in Steps : ToDo(e)'[s] <= ToDo(e)[s],
         NEW x \in Steps, ToDo(e)'[x] < ToDo(e)[x]
  PROVE  Ahead(e)' < Ahead(e)
<1>1. \A s \in Steps : ToDo(e)[s] \in Nat /\ ToDo(e)'[s] \in Nat
  BY ToDoType, ToDoNext
<1>2. SumFunctionOnSet(ToDo(e)', Steps) < SumFunctionOnSet(ToDo(e), Steps)
  BY <1>1, StepsAssumption, SumStrictlyLess
<1>3. /\ SumFunctionOnSet(ToDo(e), Steps) \in Nat
      /\ SumFunctionOnSet(ToDo(e)', Steps) \in Nat
  BY ToDoType, ToDoNext
<1>4. /\ Ahead(e) = SumFunctionOnSet(ToDo(e), Steps) + 1
      /\ Ahead(e)' = SumFunctionOnSet(ToDo(e)', Steps) + 1
  BY AheadIs
<1> QED
  BY <1>2, <1>3, <1>4

(* The executor that acts gets on, and the others are left as they are.    *)
Shortens(e) == pc[e] # "idle" => Ahead(e)' < Ahead(e) \/ SameFor(e)

LEMMA ShortensFrom ==
  ASSUME NEW e \in Executors, pc[e] = "idle" \/ Ahead(e)' < Ahead(e),
         \A f \in Executors \ {e} : SameExecutor(f)
  PROVE  \A f \in Executors : Shortens(f)
  BY DEF Shortens, SameFor, SameExecutor

LEMMA ShorterWhenResting ==
  ASSUME TypeOK, TypeOK', NEW e \in Executors, Rest(e), pc[e] # "idle"
  PROVE  \A f \in Executors : Shortens(f)
<1>1. /\ \A f \in Executors \ {e} : SameExecutor(f)
      /\ pc'[e] = "idle" /\ node'[e] = NoNode /\ pending'[e] = {}
  BY OthersWhenResting
<1>2. \A s \in Steps : ToDo(e)'[s] = 0
  BY <1>1 DEF ToDo, NoNode, Outcome
<1>3. SumFunctionOnSet(ToDo(e)', Steps) = 0
  BY <1>2, StepsAssumption, SumOfNothing
<1>4. /\ SumFunctionOnSet(ToDo(e), Steps) \in Nat /\ Cardinality(Steps) \in Nat
      /\ pc[e] \in Working \/ pc[e] = "loaded"
  BY ToDoType DEF TypeOK, Control, Working
<1>5. Ahead(e)' = 0
  BY <1>1, <1>3, AheadIs
<1>6. \/ Ahead(e) = SumFunctionOnSet(ToDo(e), Steps) + 1
      \/ Ahead(e) = SumFunctionOnSet(ToDo(e), Steps) + 5 * Cardinality(Steps) + 2
  BY <1>4, AheadIs
<1>7. Ahead(e)' < Ahead(e)
  BY <1>4, <1>5, <1>6
<1> QED
  BY <1>1, <1>7, ShortensFrom

(* The way of one step: taken up, running, at its gate, done.              *)
Onward(from, to) ==
  \/ from = "admitted" /\ to = "running"
  \/ from = "refused" /\ to = "declined"
  \/ from = "running" /\ to \in {"open", "shut"} \cup Outcome
  \/ from \in {"open", "shut"} /\ to \in Outcome

LEMMA ShorterWhenAdvancing ==
  ASSUME TypeOK, TypeOK', TrackInv, NEW e \in Executors, NEW s \in Steps, NEW from, NEW to,
         Advance(e, s, from, to), Onward(from, to)
  PROVE  \A f \in Executors : Shortens(f)
<1>0. node[e][s] = from
  BY DEF Advance
<1>1. /\ \A f \in Executors \ {e} : SameExecutor(f)
      /\ \A t \in Steps : node'[e][t] = IF t = s THEN to ELSE node[e][t]
      /\ pc'[e] = pc[e] /\ pending'[e] = pending[e]
  BY OthersWhenAdvancing
<1>2. ASSUME NEW t \in Steps \ {s} PROVE ToDo(e)'[t] = ToDo(e)[t]
  <2>1. node'[e][t] = node[e][t] /\ pending'[e] = pending[e]
    BY <1>1
  <2> QED
    BY <2>1, ToDoReads, ToDoReadsNext DEF Phase, Outcome
<1>3. ToDo(e)'[s] < ToDo(e)[s]
  <2>1. Onward(node[e][s], node'[e][s])
    BY <1>0, <1>1
  <2> QED
    BY <2>1, ToDoReads, ToDoReadsNext DEF Onward, Outcome
<1>4. \A t \in Steps : ToDo(e)'[t] <= ToDo(e)[t]
  BY <1>2, <1>3, ToDoType, ToDoNext
<1>5. pc[e] \in Working /\ pc'[e] \in Working
  BY <1>0, <1>1 DEF TrackInv, NoNode, Onward, Working
<1>6. Ahead(e)' < Ahead(e)
  BY <1>3, <1>4, <1>5, LessToDo
<1> QED
  BY <1>1, <1>6, ShortensFrom

LEMMA ShorterWhenScheduling ==
  ASSUME TypeOK, TypeOK', NEW e \in Executors, Scheduled(e)
  PROVE  \A f \in Executors : Shortens(f)
<1> USE DEF Scheduled
<1>1. \A s \in Steps : node[e][s] = "out"
  BY DEF NoNode
<1>2. \A s \in Steps : ToDo(e)[s] = IF s \in pending[e] THEN 5 ELSE 0
  BY <1>1 DEF ToDo, Outcome
<1>3. \A s \in Steps : ToDo(e)'[s] = IF node'[e][s] # "out" THEN 4
                                     ELSE IF s \in pending'[e] THEN 5 ELSE 0
  BY DEF ToDo, Outcome
<1>4. \A s \in Steps : ToDo(e)'[s] <= ToDo(e)[s]
  BY <1>2, <1>3
<1>5. \E x \in Steps : ToDo(e)'[x] < ToDo(e)[x]
  <2>1. PICK x \in Steps : node'[e][x] # "out" \/ (x \in pending[e] /\ x \notin pending'[e])
    BY DEF NoNode, TypeOK
  <2> QED
    BY <1>2, <1>3, <2>1
<1>6. pc[e] \in Working /\ pc'[e] \in Working
  BY DEF Working
<1>7. Ahead(e)' < Ahead(e)
  BY <1>4, <1>5, <1>6, LessToDo
<1> QED
  BY <1>7, ShortensFrom

LEMMA ShorterStep ==
  TypeOK /\ TypeOK' /\ TrackInv /\ HandInv /\ [Next]_vars => \A f \in Executors : Shortens(f)
<1> SUFFICES ASSUME TypeOK, TypeOK', TrackInv, HandInv, [Next]_vars
             PROVE  \A f \in Executors : Shortens(f)
  OBVIOUS
<1> DEFINE Goal == \A f \in Executors : Shortens(f)
<1>still. ASSUME UNCHANGED exec PROVE Goal
  BY <1>still DEF exec, graph, Shortens, SameFor
<1>rest. ASSUME NEW e \in Executors, Rest(e), pc[e] # "idle" PROVE Goal
  BY <1>rest, ShorterWhenResting
<1>1. ASSUME UNCHANGED vars PROVE Goal
  BY <1>1, <1>still DEF vars, exec, memory, graph
<1>load. ASSUME NEW e \in Executors, NEW status, NEW mode, Load(e, status, mode), pc[e] = "idle"
         PROVE  Goal
  BY <1>load, Loading, ShortensFrom
<1>2. (\A w \in Workers : Dequeue(w) => Goal) /\ (\A c \in Shells : StepOnce(c) => Goal)
  BY <1>load, Constants DEF Dequeue, StepOnce
<1>3. ASSUME NEW e \in Executors, Cancel(e) \/ Finish(e) \/ Crash(e) PROVE Goal
  BY <1>3, <1>rest DEF Cancel, Finish, Crash, StopWith
<1>4. ASSUME NEW e \in Executors, Execute(e) PROVE Goal
  <2>1. CASE Rest(e)
    BY <1>4, <2>1, <1>rest DEF Execute
  <2>2. CASE ~Rest(e)
    <3>1. GoneOn(e) /\ pc[e] = "loaded"
      BY <1>4, <2>2, Executing
    <3>2. /\ Ahead(e) = SumFunctionOnSet(ToDo(e), Steps) + 5 * Cardinality(Steps) + 2
          /\ Ahead(e)' = SumFunctionOnSet(ToDo(e)', Steps) + 1
      BY <3>1, AheadIs DEF GoneOn, Working
    <3>3. /\ SumFunctionOnSet(ToDo(e), Steps) \in Nat /\ Cardinality(Steps) \in Nat
          /\ SumFunctionOnSet(ToDo(e)', Steps) \in Nat
          /\ SumFunctionOnSet(ToDo(e)', Steps) <= Cardinality(Steps) * 5
      BY ToDoType, ToDoNext
    <3>4. Ahead(e)' < Ahead(e)
      BY <3>2, <3>3
    <3> QED
      BY <3>1, <3>4, ShortensFrom DEF GoneOn
  <2> QED
    BY <2>1, <2>2
<1>5. ASSUME NEW e \in Executors, Skip(e) \/ TakeOne(e) \/ TakeWave(e) PROVE Goal
  BY <1>5, ScheduledWhenTaking, ShorterWhenScheduling
<1>8. ASSUME NEW e \in Executors, NEW s \in Steps, StartStep(e, s) PROVE Goal
  BY <1>8, ShorterWhenAdvancing DEF StartStep, Onward
<1>9. ASSUME NEW e \in Executors, NEW s \in Steps, ReadGate(e, s) PROVE Goal
  BY <1>9, ShorterWhenAdvancing DEF ReadGate, Onward
<1>10. ASSUME NEW e \in Executors, NEW s \in Steps, RefuseNode(e, s) PROVE Goal
  BY <1>10, ShorterWhenAdvancing DEF RefuseNode, Onward
<1>11. ASSUME NEW e \in Executors, NEW s \in Steps, NEW o \in Outcome, EndNode(e, s, o)
       PROVE  Goal
  <2>1. Advance(e, s, node[e][s], o) /\ Onward(node[e][s], o)
    BY <1>11 DEF EndNode, CanEnd, Onward, Outcome
  <2> QED
    BY <2>1, ShorterWhenAdvancing
<1>12. ASSUME NEW e \in Executors, NEW s \in Steps, NEW o \in Outcome, EndSerial(e, s, o)
       PROVE  Goal
  <2>1. CASE Rest(e)
    BY <1>12, <2>1, <1>rest DEF EndSerial
  <2>2. CASE ~Rest(e)
    <3>1. /\ GoneOn(e) /\ pending'[e] = pending[e]
          /\ pc[e] = "serial" /\ node[e][s] \in {"open", "shut", "running"}
      BY <1>12, <2>2, GoneOnSerially
    <3>2. s \in Reported(e)
      BY <3>1 DEF Reported, In
    <3>3. Reported(e) = {s} /\ s \notin pending[e]
      BY <3>1, <3>2 DEF TrackInv, HandInv
    <3>4. \A t \in Steps : node'[e][t] = "out" /\ (t # s => node[e][t] = "out")
      BY <3>1, <3>3 DEF GoneOn, NoNode, Reported, In
    <3>5. \A t \in Steps \ {s} : ToDo(e)'[t] = ToDo(e)[t]
      BY <3>1, <3>4 DEF ToDo
    <3>6. ToDo(e)'[s] < ToDo(e)[s]
      BY <3>1, <3>3, <3>4 DEF ToDo, Outcome
    <3>7. \A t \in Steps : ToDo(e)'[t] <= ToDo(e)[t]
      BY <3>5, <3>6, ToDoType, ToDoNext
    <3>8. Ahead(e)' < Ahead(e)
      BY <3>1, <3>6, <3>7, LessToDo DEF GoneOn, Working
    <3> QED
      BY <3>1, <3>8, ShortensFrom DEF GoneOn
  <2> QED
    BY <2>1, <2>2
<1>13. ASSUME NEW e \in Executors, ApplyReports(e) PROVE Goal
  <2>1. CASE Rest(e)
    BY <1>13, <2>1, <1>rest DEF ApplyReports
  <2>2. CASE ~Rest(e)
    <3>1. /\ GoneOn(e) /\ pending'[e] = pending[e] \ Reported(e)
          /\ pc[e] = "wave" /\ Reported(e) = In(e, Outcome \cup {"declined"})
      BY <1>13, <2>2, GoneOnInAWave
    <3>2. PICK x \in Steps : x \in Reported(e)
      BY <3>1 DEF HandInv, Reported
    <3>3. \A t \in Steps : node'[e][t] = "out"
      BY <3>1 DEF GoneOn, NoNode
    <3>4. \A t \in Reported(e) : t \in Steps /\ ToDo(e)'[t] = 0 /\ ToDo(e)[t] = 1
      <4>1. \A t \in Reported(e) : t \in Steps /\ node[e][t] \in Outcome \cup {"declined"}
        BY <3>1 DEF In
      <4> QED
        BY <3>1, <3>3, <4>1 DEF ToDo, Outcome
    <3>5. \A t \in Steps \ Reported(e) : ToDo(e)'[t] = ToDo(e)[t]
      <4>1. \A t \in Steps \ Reported(e) : node[e][t] = "out"
        BY DEF Reported, In
      <4> QED
        BY <3>1, <3>3, <4>1 DEF ToDo
    <3>6. \A t \in Steps : ToDo(e)'[t] <= ToDo(e)[t]
      BY <3>4, <3>5, ToDoType, ToDoNext
    <3>7. ToDo(e)'[x] < ToDo(e)[x]
      BY <3>2, <3>4
    <3>8. Ahead(e)' < Ahead(e)
      BY <3>1, <3>6, <3>7, LessToDo DEF GoneOn, Working
    <3> QED
      BY <3>1, <3>8, ShortensFrom DEF GoneOn
  <2> QED
    BY <2>1, <2>2
<1>14. WebProcess => Goal
  BY <1>still DEF WebProcess, StartAgain, Decide, ReadForCancel, RequestCancellation,
         ReadForResume, ResumeRun
<1>15. Goal
  <2>1. CASE Next
    <3> HIDE DEF Goal
    <3> QED
      BY <1>2, <1>3, <1>4, <1>5, <1>8, <1>9, <1>10, <1>11, <1>12, <1>13, <1>14,
         <2>1, NextCases
  <2> QED
    BY <1>1, <2>1
<1> QED
  BY <1>15

(* An execution that was begun takes no more than so many steps, whatever  *)
(* its steps come to and whoever else works on the run: nobody can add to  *)
(* what it has before it.  With NobodyIsEverStuck this is why the loop,    *)
(* which has no bound of its own, ends.                                    *)
THEOREM ExecutionsGetShorter == Spec => EveryStepCounts
<1>1. TypeOK /\ TypeOK' /\ TrackInv /\ HandInv /\ [Next]_vars
        => [\A e \in Executors : pc[e] # "idle" => Ahead(e)' < Ahead(e) \/ SameFor(e)]_vars
  BY ShorterStep DEF Shortens
<1> QED
  BY <1>1, HandHolds, PTL DEF Spec, EveryStepCounts
=============================================================================
