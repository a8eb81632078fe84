---------------------------- MODULE SpendProofs ----------------------------
(***************************************************************************)
(* Theorems about what is spent, and on what: about Spend, for any runs,   *)
(* steps, waves, prices and caps; about StandingBudget, for any entries,   *)
(* sessions and caps; and about Requests, for any runs and edits, when one *)
(* handler is under way at a time and no superseded run is continued.      *)
(***************************************************************************)
EXTENDS Spend, StandingBudget, Requests, SetFacts, TLAPS

(* The actions by what they change.                                        *)
LEMMA SpendCases ==
  ASSUME SpendNext,
         NEW Goal,
         \A w \in Waves : Take(w) => Goal,
         \A s \in Steps : Admit(s) => Goal,
         \A s \in Steps : RefuseStep(s) => Goal,
         \A s \in Steps, p \in Prices : Ask(s, p) => Goal,
         \A s \in Steps, p \in Prices : RefuseCall(s, p) => Goal,
         \A s \in Steps : \A p \in 0..(asked[s] + Premium) : Meter(s, p) => Goal,
         \A s \in Steps : \A p \in 0..(asked[s] + Premium) : FailToMeter(s, p) => Goal,
         \A s \in Steps : EndStep(s) => Goal,
         \A s \in Steps : LoseStep(s) => Goal,
         \A s \in Steps : Continue(s) => Goal,
         \A j \in Jobs : LoseWorker(j) => Goal,
         \A j \in Jobs : Delete(j) => Goal,
         \A j \in Jobs, to \in 1..PlatformCap : RaiseCap(j, to) => Goal
  PROVE  Goal
BY DEF SpendNext, StepSpends

-----------------------------------------------------------------------------
(* Types.                                                                  *)

LEMMA Settings ==
  /\ JobOf \in [Steps -> Jobs] /\ Estimate \in [Steps -> Nat] /\ Order \in [Steps -> Nat]
  /\ Prices \subseteq Nat /\ Premium \in Nat /\ FirstCap \in Nat
  /\ PlatformCap \in Nat /\ MonthlyCap \in Nat /\ MaxCalls \in Nat /\ MaxLosses \in Nat
  /\ Waves \subseteq SUBSET Steps
BY SpendAssumption

LEMMA CommitType ==
  ASSUME SpendTypeOK, NEW s \in Steps, NEW outcome \in {"done", "failed", "refused"},
         CommitAs(s, outcome)
  PROVE  SpendTypeOK'
<1> USE Settings DEF SpendTypeOK
<1>1. /\ step' \in [Steps -> {"idle", "running", "done", "failed", "refused"}]
      /\ onRun' \in [Jobs -> Nat] /\ onMonth' \in Nat /\ held' \in [Steps -> Nat]
  <2>1. held[s] \in Nat /\ JobOf[s] \in Jobs
    OBVIOUS
  <2>2. step' \in [Steps -> {"idle", "running", "done", "failed", "refused"}]
    BY DEF CommitAs
  <2>3. onRun' \in [Jobs -> Nat] /\ onMonth' \in Nat
    BY <2>1 DEF CommitAs
  <2>4. held' \in [Steps -> Nat]
    BY DEF CommitAs
  <2> QED
    BY <2>2, <2>3, <2>4
<1> QED
  BY <1>1 DEF CommitAs, bounded

LEMMA SpendTypeStep == SpendTypeOK /\ [SpendNext]_spendVars => SpendTypeOK'
<1> SUFFICES ASSUME SpendTypeOK, [SpendNext]_spendVars PROVE SpendTypeOK'
  OBVIOUS
<1> DEFINE Goal == SpendTypeOK'
<1> USE Settings DEF SpendTypeOK
<1>1. ASSUME NEW w \in Waves, Take(w) PROVE Goal
  BY <1>1 DEF Take, ledger, bounded
<1>2. ASSUME NEW s \in Steps, Admit(s) PROVE Goal
  <2>1. inFlight' \in [Jobs -> Nat] /\ wave' \in [Jobs -> SUBSET Steps]
    BY <1>2 DEF Admit
  <2> QED
    BY <1>2, <2>1 DEF Admit, ledger, bounded
<1>3. ASSUME NEW s \in Steps, RefuseStep(s) PROVE Goal
  BY <1>3 DEF RefuseStep, ledger, bounded
<1>4. ASSUME NEW s \in Steps, NEW p \in Prices, Ask(s, p) PROVE Goal
  BY <1>4 DEF Ask, ledger
<1>5. ASSUME NEW s \in Steps, NEW p \in Prices, RefuseCall(s, p) PROVE Goal
  BY <1>5, CommitType DEF RefuseCall
<1>6. ASSUME NEW s \in Steps, NEW p \in 0..(asked[s] + Premium), Meter(s, p) \/ FailToMeter(s, p)
      PROVE  Goal
  <2>1. p \in Nat
    OBVIOUS
  <2>2. asked' \in [Steps -> Nat] /\ held' \in [Steps -> Nat] /\ bill' \in Nat /\ losses' \in Nat
    BY <1>6, <2>1 DEF Meter, FailToMeter
  <2> QED
    BY <1>6, <2>2 DEF Meter, FailToMeter, ledger
<1>7. ASSUME NEW s \in Steps, EndStep(s) PROVE Goal
  BY <1>7, CommitType DEF EndStep
<1>8. ASSUME NEW s \in Steps, LoseStep(s) \/ Continue(s) PROVE Goal
  BY <1>8 DEF LoseStep, Continue, ledger, bounded
<1>9. ASSUME NEW j \in Jobs, LoseWorker(j) PROVE Goal
  BY <1>9 DEF LoseWorker, ledger
<1>10. ASSUME NEW j \in Jobs, Delete(j) PROVE Goal
  BY <1>10 DEF Delete, bounded
<1>11. ASSUME NEW j \in Jobs, NEW to \in 1..PlatformCap, RaiseCap(j, to) PROVE Goal
  BY <1>11 DEF RaiseCap, ledger, bounded
<1>12. CASE UNCHANGED spendVars
  BY <1>12 DEF spendVars
<1>13. CASE SpendNext
  <2> HIDE DEF Goal
  <2>1. Goal
    BY <1>1, <1>2, <1>3, <1>4, <1>5, <1>6, <1>7, <1>8, <1>9, <1>10, <1>11, <1>13, SpendCases
  <2> QED
    BY <2>1 DEF Goal
<1> QED
  BY <1>12, <1>13

(* Every counter, row and estimate keeps its type.                         *)
THEOREM SpendTypeCorrect == SpendSpec => []SpendTypeOK
<1>1. SpendInit => SpendTypeOK
  BY Settings DEF SpendInit, SpendTypeOK
<1> QED
  BY <1>1, SpendTypeStep, PTL DEF SpendSpec

-----------------------------------------------------------------------------
(* One step and the ceilings.  A call is asked about only while what the   *)
(* step has flushed, and the worst of the call, fit; the last call may     *)
(* come to a cache write more.                                             *)

CapInv == \A s \in Steps :
  /\ held[s] <= cap[JobOf[s]] + Premium
  /\ held[s] <= MonthlyCap + Premium
  /\ asked[s] > 0 => /\ held[s] + asked[s] <= cap[JobOf[s]]
                     /\ held[s] + asked[s] <= MonthlyCap

LEMMA CapStep ==
  ASSUME SpendTypeOK, CapInv, [SpendNext]_spendVars
  PROVE  CapInv'
<1> DEFINE Goal == CapInv'
<1>0. /\ cap \in [Jobs -> Nat] /\ held \in [Steps -> Nat] /\ asked \in [Steps -> Nat]
      /\ onRun \in [Jobs -> Nat] /\ onMonth \in Nat /\ JobOf \in [Steps -> Jobs]
      /\ MonthlyCap \in Nat /\ Premium \in Nat /\ PlatformCap \in Nat
      /\ Prices \subseteq Nat
  BY Settings DEF SpendTypeOK
<1>1. ASSUME UNCHANGED <<held, asked, cap>> PROVE Goal
  BY <1>1 DEF CapInv
<1>2. ASSUME NEW w \in Waves, Take(w) PROVE Goal
  BY <1>1, <1>2 DEF Take
<1>3. ASSUME NEW s \in Steps, Admit(s) \/ RefuseStep(s) \/ Continue(s) PROVE Goal
  BY <1>1, <1>3 DEF Admit, RefuseStep, Continue
<1>4. ASSUME NEW j \in Jobs, Delete(j) PROVE Goal
  BY <1>1, <1>4 DEF Delete
<1>5. ASSUME NEW s \in Steps, NEW p \in Prices, Ask(s, p) PROVE Goal
  <2>1. held[s] + p <= cap[JobOf[s]] /\ held[s] + p <= MonthlyCap
    BY <1>0, <1>5 DEF Ask, Affords, Fits
  <2> QED
    BY <1>0, <1>5, <2>1 DEF Ask, CapInv
<1>6. ASSUME NEW s \in Steps, NEW p \in 0..(asked[s] + Premium), Meter(s, p) PROVE Goal
  <2>1. p \in Nat /\ asked[s] > 0 /\ p <= asked[s] + Premium
    BY <1>6 DEF Meter
  <2>2. held[s] + asked[s] <= cap[JobOf[s]] /\ held[s] + asked[s] <= MonthlyCap
    BY <2>1 DEF CapInv
  <2>3. held[s] + p <= cap[JobOf[s]] + Premium /\ held[s] + p <= MonthlyCap + Premium
    BY <1>0, <2>1, <2>2
  <2> QED
    BY <1>0, <1>6, <2>3 DEF Meter, CapInv
<1>7. ASSUME NEW s \in Steps, NEW p \in 0..(asked[s] + Premium), FailToMeter(s, p) PROVE Goal
  BY <1>0, <1>7 DEF FailToMeter, CapInv
<1>8. ASSUME NEW s \in Steps, NEW outcome, CommitAs(s, outcome) PROVE Goal
  BY <1>0, <1>8 DEF CommitAs, CapInv
<1>9. ASSUME NEW s \in Steps, LoseStep(s) PROVE Goal
  BY <1>0, <1>9 DEF LoseStep, CapInv
<1>10. ASSUME NEW j \in Jobs, LoseWorker(j) PROVE Goal
  BY <1>0, <1>10 DEF LoseWorker, CapInv
<1>11. ASSUME NEW j \in Jobs, NEW to \in 1..PlatformCap, RaiseCap(j, to) PROVE Goal
  <2>1. \A k \in Jobs : cap'[k] \in Nat /\ cap[k] <= cap'[k]
    BY <1>0, <1>11 DEF RaiseCap, MayRaise
  <2> QED
    BY <1>0, <1>11, <2>1 DEF RaiseCap, CapInv
<1>12. CASE UNCHANGED spendVars
  BY <1>1, <1>12 DEF spendVars
<1>13. CASE SpendNext
  <2> HIDE DEF Goal
  <2>1. \A s \in Steps, p \in Prices : RefuseCall(s, p) => Goal
    BY <1>8 DEF RefuseCall
  <2>2. \A s \in Steps : EndStep(s) => Goal
    BY <1>8 DEF EndStep
  <2>3. Goal
    BY <1>2, <1>3, <1>4, <1>5, <1>6, <1>7, <1>9, <1>10, <1>11, <1>13, <2>1, <2>2, SpendCases
  <2> QED
    BY <2>3 DEF Goal
<1> QED
  BY <1>12, <1>13

(* Whatever runs beside it and however often it is lost, a step never      *)
(* flushes and asks for more than either ceiling, but for the premium.     *)
THEOREM EveryStepKeepsTheCaps == SpendSpec => []StepsKeepTheCaps
<1>1. SpendInit => SpendTypeOK /\ CapInv
  BY Settings DEF SpendInit, SpendTypeOK, CapInv
<1>2. SpendTypeOK /\ CapInv /\ [SpendNext]_spendVars => SpendTypeOK' /\ CapInv'
  BY SpendTypeStep, CapStep
<1>3. SpendTypeOK /\ CapInv => StepsKeepTheCaps
  <2> SUFFICES ASSUME SpendTypeOK, CapInv, NEW s \in Steps
               PROVE  /\ held[s] + asked[s] <= cap[JobOf[s]] + Premium
                      /\ held[s] + asked[s] <= MonthlyCap + Premium
    BY DEF StepsKeepTheCaps
  <2>1. /\ held[s] \in Nat /\ asked[s] \in Nat /\ cap[JobOf[s]] \in Nat
        /\ Premium \in Nat /\ MonthlyCap \in Nat
    BY Settings DEF SpendTypeOK
  <2> QED
    BY <2>1 DEF CapInv
<1> QED
  BY <1>1, <1>2, <1>3, PTL DEF SpendSpec

-----------------------------------------------------------------------------
(* A run whose steps go one at a time: while one is up, the others hold    *)
(* nothing, so that what is committed is what its next call sees.          *)

Up(s) == s \in wave[JobOf[s]] \/ step[s] = "running"

OneUp ==
  /\ \A s \in Steps : step[s] # "running" => held[s] = 0 /\ asked[s] = 0
  /\ \A s \in Steps : s \in wave[JobOf[s]] => step[s] = "idle"
  /\ \A s, t \in Steps :
       Serial(JobOf[s]) /\ JobOf[s] = JobOf[t] /\ Up(s) /\ Up(t) => s = t

LEMMA UpStays ==
  ASSUME OneUp, \A s \in Steps : Up(s)' => Up(s),
         \A s \in Steps : step'[s] # "running" => held'[s] = 0 /\ asked'[s] = 0,
         \A s \in Steps : s \in wave'[JobOf[s]] => step'[s] = "idle"
  PROVE  OneUp'
BY DEF OneUp, Serial

LEMMA OneUpStep ==
  ASSUME SpendTypeOK, OneUp, [SpendNext]_spendVars
  PROVE  OneUp'
<1> DEFINE Goal == OneUp'
<1>0. /\ held \in [Steps -> Nat] /\ asked \in [Steps -> Nat] /\ JobOf \in [Steps -> Jobs]
      /\ step \in [Steps -> {"idle", "running", "done", "failed", "refused"}]
      /\ wave \in [Jobs -> SUBSET Steps]
      /\ \A s \in Steps : step[s] # "running" => held[s] = 0 /\ asked[s] = 0
      /\ \A s \in Steps : s \in wave[JobOf[s]] => step[s] = "idle"
      /\ Premium \in Nat /\ Waves \subseteq SUBSET Steps
  BY Settings DEF SpendTypeOK, OneUp
<1>1. ASSUME NEW w \in Waves, Take(w) PROVE Goal
  <2>1. PICK j \in Jobs \ gone :
          /\ \A s \in w : JobOf[s] = j /\ step[s] = "idle"
          /\ ~Busy(j)
          /\ wave' = [wave EXCEPT ![j] = w]
          /\ UNCHANGED <<step, held, asked>>
    BY <1>1 DEF Take
  <2>2. ASSUME NEW s \in Steps, NEW t \in Steps, Serial(JobOf[s]), JobOf[s] = JobOf[t],
               Up(s)', Up(t)'
        PROVE  s = t
    <3>1. CASE JobOf[s] = j
      <4>1. step[s] # "running" /\ step[t] # "running"
        BY <2>1, <2>2, <3>1 DEF Busy, Running
      <4>2. s \in w /\ t \in w
        BY <1>0, <2>1, <2>2, <3>1, <4>1 DEF Up
      <4> QED
        BY <2>2, <4>2 DEF Serial
    <3>2. CASE JobOf[s] # j
      <4>1. Up(s) /\ Up(t)
        BY <1>0, <2>1, <2>2, <3>2 DEF Up
      <4> QED
        BY <2>2, <4>1 DEF OneUp
    <3> QED
      BY <3>1, <3>2
  <2>3. \A s \in Steps : Serial(JobOf[s])' <=> Serial(JobOf[s])
    BY DEF Serial
  <2>4. \A s \in Steps : s \in wave'[JobOf[s]] => step'[s] = "idle"
    BY <1>0, <2>1
  <2> QED
    BY <1>0, <2>1, <2>2, <2>3, <2>4 DEF OneUp
<1>2. ASSUME NEW s \in Steps, Admit(s) PROVE Goal
  <2>1. \A t \in Steps : Up(t)' => Up(t)
    BY <1>0, <1>2 DEF Admit, NextUp, Up
  <2>2. \A t \in Steps : step'[t] # "running" => held'[t] = 0 /\ asked'[t] = 0
    BY <1>0, <1>2 DEF Admit
  <2>3. \A t \in Steps : t \in wave'[JobOf[t]] => step'[t] = "idle"
    BY <1>0, <1>2 DEF Admit
  <2> QED
    BY <2>1, <2>2, <2>3, UpStays
<1>3. ASSUME NEW s \in Steps, RefuseStep(s) PROVE Goal
  <2>1. \A t \in Steps : Up(t)' => Up(t)
    BY <1>0, <1>3 DEF RefuseStep, Up
  <2>2. \A t \in Steps : step'[t] # "running" => held'[t] = 0 /\ asked'[t] = 0
    BY <1>0, <1>3 DEF RefuseStep, NextUp
  <2>3. \A t \in Steps : t \in wave'[JobOf[t]] => step'[t] = "idle"
    BY <1>0, <1>3 DEF RefuseStep, NextUp
  <2> QED
    BY <2>1, <2>2, <2>3, UpStays
<1>4. ASSUME NEW s \in Steps, NEW p \in Nat, Ask(s, p) \/ Meter(s, p) \/ FailToMeter(s, p)
      PROVE  Goal
  <2>1. \A t \in Steps : Up(t)' => Up(t)
    BY <1>4 DEF Ask, Meter, FailToMeter, Up
  <2>2. \A t \in Steps : step'[t] # "running" => held'[t] = 0 /\ asked'[t] = 0
    BY <1>0, <1>4 DEF Ask, Meter, FailToMeter
  <2>3. \A t \in Steps : t \in wave'[JobOf[t]] => step'[t] = "idle"
    BY <1>0, <1>4 DEF Ask, Meter, FailToMeter
  <2> QED
    BY <2>1, <2>2, <2>3, UpStays
<1>5. ASSUME NEW s \in Steps, asked[s] = 0, step[s] = "running",
             \/ LoseStep(s)
             \/ \E outcome \in {"done", "failed", "refused"} : CommitAs(s, outcome)
      PROVE  Goal
  <2>1. \A t \in Steps : Up(t)' => Up(t)
    BY <1>0, <1>5 DEF LoseStep, CommitAs, Up
  <2>2. \A t \in Steps : step'[t] # "running" => held'[t] = 0 /\ asked'[t] = 0
    BY <1>0, <1>5 DEF LoseStep, CommitAs
  <2>3. \A t \in Steps : t \in wave'[JobOf[t]] => step'[t] = "idle"
    BY <1>0, <1>5 DEF LoseStep, CommitAs
  <2> QED
    BY <2>1, <2>2, <2>3, UpStays
<1>6. ASSUME NEW s \in Steps, Continue(s) PROVE Goal
  <2>1. \A t \in Steps : Up(t)' => Up(t)
    BY <1>0, <1>6 DEF Continue, Up
  <2>2. \A t \in Steps : step'[t] # "running" => held'[t] = 0 /\ asked'[t] = 0
    BY <1>0, <1>6 DEF Continue
  <2>3. \A t \in Steps : t \in wave'[JobOf[t]] => step'[t] = "idle"
    BY <1>0, <1>6 DEF Continue
  <2> QED
    BY <2>1, <2>2, <2>3, UpStays
<1>7. ASSUME NEW j \in Jobs, LoseWorker(j) PROVE Goal
  <2>1. \A t \in Steps : Up(t)' => Up(t)
    BY <1>0, <1>7 DEF LoseWorker, Up
  <2>2. \A t \in Steps : step'[t] # "running" => held'[t] = 0 /\ asked'[t] = 0
    BY <1>0, <1>7 DEF LoseWorker
  <2>3. \A t \in Steps : t \in wave'[JobOf[t]] => step'[t] = "idle"
    BY <1>0, <1>7 DEF LoseWorker
  <2> QED
    BY <2>1, <2>2, <2>3, UpStays
<1>8. ASSUME UNCHANGED <<wave, step, held, asked>> PROVE Goal
  BY <1>8, <1>0, UpStays DEF Up
<1>9. ASSUME NEW j \in Jobs, NEW to, Delete(j) \/ RaiseCap(j, to) PROVE Goal
  BY <1>8, <1>9 DEF Delete, RaiseCap
<1>10. CASE UNCHANGED spendVars
  BY <1>8, <1>10 DEF spendVars
<1>11. CASE SpendNext
  <2> HIDE DEF Goal
  <2>1. \A s \in Steps, p \in Prices : Ask(s, p) \/ RefuseCall(s, p) => Goal
    BY <1>4, <1>5, Settings DEF RefuseCall
  <2>2. \A s \in Steps : EndStep(s) \/ LoseStep(s) => Goal
    BY <1>5 DEF EndStep, LoseStep
  <2>3. \A s \in Steps : \A p \in 0..(asked[s] + Premium) : Meter(s, p) \/ FailToMeter(s, p) => Goal
    BY <1>4
  <2>4. Goal
    BY <1>1, <1>2, <1>3, <1>6, <1>7, <1>9, <1>11, <2>1, <2>2, <2>3, SpendCases
  <2> QED
    BY <2>4 DEF Goal
<1> QED
  BY <1>10, <1>11

SerialInv == \A s \in Steps : Serial(JobOf[s]) =>
  /\ onRun[JobOf[s]] + held[s] <= cap[JobOf[s]] + Premium
  /\ asked[s] > 0 => onRun[JobOf[s]] + held[s] + asked[s] <= cap[JobOf[s]]

LEMMA SerialStep ==
  ASSUME SpendTypeOK, OneUp, SerialInv, [SpendNext]_spendVars
  PROVE  SerialInv'
<1> DEFINE Goal == SerialInv'
<1>0. /\ cap \in [Jobs -> Nat] /\ held \in [Steps -> Nat] /\ asked \in [Steps -> Nat]
      /\ onRun \in [Jobs -> Nat] /\ JobOf \in [Steps -> Jobs]
      /\ Premium \in Nat /\ PlatformCap \in Nat
      /\ \A s \in Steps : step[s] # "running" => held[s] = 0 /\ asked[s] = 0
  BY Settings DEF SpendTypeOK, OneUp
<1>1. ASSUME UNCHANGED <<held, asked, cap, onRun>> PROVE Goal
  BY <1>1 DEF SerialInv, Serial
<1>2. ASSUME NEW w \in Waves, Take(w) PROVE Goal
  BY <1>1, <1>2 DEF Take, ledger
<1>3. ASSUME NEW s \in Steps, Admit(s) \/ RefuseStep(s) \/ Continue(s) PROVE Goal
  BY <1>1, <1>3 DEF Admit, RefuseStep, Continue, ledger
<1>4. ASSUME NEW j \in Jobs, Delete(j) PROVE Goal
  <2>1. \A k \in Jobs : onRun'[k] \in Nat /\ onRun'[k] <= onRun[k]
    BY <1>0, <1>4 DEF Delete
  <2>2. UNCHANGED <<held, asked, cap>>
    BY <1>4 DEF Delete
  <2> QED
    BY <1>0, <2>1, <2>2 DEF SerialInv, Serial
<1>5. ASSUME NEW s \in Steps, NEW p \in Prices, Ask(s, p) PROVE Goal
  <2>1. onRun[JobOf[s]] + held[s] + p <= cap[JobOf[s]]
    BY <1>0, <1>5 DEF Ask, Affords, Fits
  <2> QED
    BY <1>0, <1>5, <2>1 DEF Ask, ledger, SerialInv, Serial
<1>6. ASSUME NEW s \in Steps, NEW p \in 0..(asked[s] + Premium), Meter(s, p) PROVE Goal
  <2>1. p \in Nat /\ asked[s] > 0 /\ p <= asked[s] + Premium
    BY <1>6 DEF Meter
  <2>2. Serial(JobOf[s]) => onRun[JobOf[s]] + held[s] + asked[s] <= cap[JobOf[s]]
    BY <2>1 DEF SerialInv
  <2>3. Serial(JobOf[s]) => onRun[JobOf[s]] + (held[s] + p) <= cap[JobOf[s]] + Premium
    BY <1>0, <2>1, <2>2
  <2> QED
    BY <1>0, <1>6, <2>3 DEF Meter, ledger, SerialInv, Serial
<1>7. ASSUME NEW s \in Steps, NEW p \in 0..(asked[s] + Premium), FailToMeter(s, p) PROVE Goal
  BY <1>0, <1>7 DEF FailToMeter, ledger, SerialInv, Serial
<1>8. ASSUME NEW s \in Steps, NEW outcome, step[s] = "running", asked[s] = 0, CommitAs(s, outcome)
      PROVE  Goal
  <2> SUFFICES ASSUME NEW t \in Steps, Serial(JobOf[t])
               PROVE  /\ onRun'[JobOf[t]] + held'[t] <= cap[JobOf[t]] + Premium
                      /\ asked[t] > 0 => onRun'[JobOf[t]] + held'[t] + asked[t] <= cap[JobOf[t]]
    BY <1>8 DEF CommitAs, SerialInv, Serial
  <2>1. CASE JobOf[t] = JobOf[s]
    <3>1. onRun'[JobOf[t]] = onRun[JobOf[s]] + held[s]
      BY <1>0, <1>8, <2>1 DEF CommitAs
    <3>2. held'[t] = 0 /\ asked[t] = 0
      <4>1. CASE t = s
        BY <1>0, <1>8, <4>1 DEF CommitAs
      <4>2. CASE t # s
        <5>1. step[t] # "running"
          BY <1>8, <2>1, <4>2 DEF OneUp, Up
        <5> QED
          BY <1>0, <1>8, <4>2, <5>1 DEF CommitAs
      <4> QED
        BY <4>1, <4>2
    <3>3. onRun[JobOf[s]] + held[s] <= cap[JobOf[s]] + Premium
      BY <2>1 DEF SerialInv
    <3> QED
      BY <1>0, <2>1, <3>1, <3>2, <3>3
  <2>2. CASE JobOf[t] # JobOf[s]
    <3>1. onRun'[JobOf[t]] = onRun[JobOf[t]] /\ held'[t] = held[t]
      BY <1>0, <1>8, <2>2 DEF CommitAs
    <3> QED
      BY <3>1 DEF SerialInv
  <2> QED
    BY <2>1, <2>2
<1>9. ASSUME NEW s \in Steps, LoseStep(s) PROVE Goal
  <2>1. \A t \in Steps : held'[t] \in Nat /\ held'[t] <= held[t]
    BY <1>0, <1>9 DEF LoseStep
  <2> QED
    BY <1>0, <1>9, <2>1 DEF LoseStep, ledger, SerialInv, Serial
<1>10. ASSUME NEW j \in Jobs, LoseWorker(j) PROVE Goal
  <2>1. \A t \in Steps : /\ held'[t] \in Nat /\ held'[t] <= held[t]
                         /\ asked'[t] \in Nat /\ asked'[t] <= asked[t]
    BY <1>0, <1>10 DEF LoseWorker
  <2>2. UNCHANGED <<cap, onRun>>
    BY <1>10 DEF LoseWorker, ledger
  <2> QED
    BY <1>0, <2>1, <2>2 DEF SerialInv, Serial
<1>11. ASSUME NEW j \in Jobs, NEW to \in 1..PlatformCap, RaiseCap(j, to) PROVE Goal
  <2>1. \A k \in Jobs : cap'[k] \in Nat /\ cap[k] <= cap'[k]
    BY <1>0, <1>11 DEF RaiseCap, MayRaise
  <2> QED
    BY <1>0, <1>11, <2>1 DEF RaiseCap, ledger, SerialInv, Serial
<1>12. CASE UNCHANGED spendVars
  BY <1>1, <1>12 DEF spendVars
<1>13. CASE SpendNext
  <2> HIDE DEF Goal
  <2>1. \A s \in Steps, p \in Prices : RefuseCall(s, p) => Goal
    BY <1>8 DEF RefuseCall
  <2>2. \A s \in Steps : EndStep(s) => Goal
    BY <1>8 DEF EndStep
  <2>3. Goal
    BY <1>2, <1>3, <1>4, <1>5, <1>6, <1>7, <1>9, <1>10, <1>11, <1>13, <2>1, <2>2, SpendCases
  <2> QED
    BY <2>3 DEF Goal
<1> QED
  BY <1>12, <1>13

(* A run whose steps go one at a time keeps its own cap to the premium,    *)
(* whatever other runs spend, and however often it is refused, lost and    *)
(* continued.                                                              *)
THEOREM SerialRunsKeepTheCap == SpendSpec => []SerialRunsKeepTheirCap
<1>1. SpendInit => SpendTypeOK /\ OneUp /\ SerialInv
  BY Settings DEF SpendInit, SpendTypeOK, OneUp, Up, SerialInv
<1>2. SpendTypeOK /\ OneUp /\ SerialInv /\ [SpendNext]_spendVars
        => SpendTypeOK' /\ OneUp' /\ SerialInv'
  BY SpendTypeStep, OneUpStep, SerialStep
<1>3. SpendTypeOK /\ SerialInv => SerialRunsKeepTheirCap
  <2> SUFFICES ASSUME SpendTypeOK, SerialInv, NEW s \in Steps, Serial(JobOf[s])
               PROVE  onRun[JobOf[s]] + held[s] + asked[s] <= cap[JobOf[s]] + Premium
    BY DEF SerialRunsKeepTheirCap
  <2>1. /\ onRun[JobOf[s]] \in Nat /\ held[s] \in Nat /\ asked[s] \in Nat
        /\ cap[JobOf[s]] \in Nat /\ Premium \in Nat
    BY Settings DEF SpendTypeOK
  <2> QED
    BY <2>1 DEF SerialInv
<1> QED
  BY <1>1, <1>2, <1>3, PTL DEF SpendSpec

-----------------------------------------------------------------------------
(* The guard, and the month.                                               *)

LEMMA EstimatesStep ==
  ASSUME SpendTypeOK, WaveEstimatesFit, [SpendNext]_spendVars
  PROVE  WaveEstimatesFit'
<1> DEFINE Goal == WaveEstimatesFit'
<1>0. /\ cap \in [Jobs -> Nat] /\ inFlight \in [Jobs -> Nat] /\ onRun \in [Jobs -> Nat]
      /\ JobOf \in [Steps -> Jobs] /\ Estimate \in [Steps -> Nat]
  BY Settings DEF SpendTypeOK
<1>1. ASSUME UNCHANGED <<cap, inFlight>> PROVE Goal
  BY <1>1 DEF WaveEstimatesFit
<1>2. ASSUME NEW w \in Waves, Take(w) PROVE Goal
  BY <1>0, <1>2 DEF Take, WaveEstimatesFit
<1>3. ASSUME NEW s \in Steps, Admit(s) PROVE Goal
  <2>1. inFlight' = [inFlight EXCEPT ![JobOf[s]] = @ + Estimate[s]] /\ cap' = cap
    BY <1>3 DEF Admit
  <2>2. inFlight[JobOf[s]] + Estimate[s] <= cap[JobOf[s]]
    <3>1. CASE Estimate[s] > 0
      <4>1. onRun[JobOf[s]] + 0 + (inFlight[JobOf[s]] + Estimate[s]) <= cap[JobOf[s]]
        BY <1>3, <3>1 DEF Admit, GuardAdmits, Fits
      <4> QED
        BY <1>0, <4>1
    <3>2. CASE Estimate[s] = 0
      BY <1>0, <3>2 DEF WaveEstimatesFit
    <3> QED
      BY <1>0, <3>1, <3>2
  <2> QED
    BY <1>0, <2>1, <2>2 DEF WaveEstimatesFit
<1>4. ASSUME NEW j \in Jobs, NEW to \in 1..PlatformCap, RaiseCap(j, to) PROVE Goal
  BY <1>0, <1>4, Settings DEF RaiseCap, MayRaise, WaveEstimatesFit
<1>5. ASSUME NEW s \in Steps,
             \/ RefuseStep(s) \/ EndStep(s) \/ LoseStep(s) \/ Continue(s)
             \/ \E p \in Prices : Ask(s, p) \/ RefuseCall(s, p)
             \/ \E p \in 0..(asked[s] + Premium) : Meter(s, p) \/ FailToMeter(s, p)
      PROVE  Goal
  BY <1>1, <1>5 DEF RefuseStep, EndStep, LoseStep, Continue, Ask, RefuseCall, Meter, FailToMeter,
                    CommitAs
<1>6. ASSUME NEW j \in Jobs, LoseWorker(j) \/ Delete(j) PROVE Goal
  BY <1>1, <1>6 DEF LoseWorker, Delete
<1>7. CASE UNCHANGED spendVars
  BY <1>1, <1>7 DEF spendVars
<1>8. CASE SpendNext
  <2> HIDE DEF Goal
  <2>1. Goal
    BY <1>2, <1>3, <1>4, <1>5, <1>6, <1>8, SpendCases
  <2> QED
    BY <2>1 DEF Goal
<1> QED
  BY <1>7, <1>8

(* The steps the guard lets run together are estimated within the cap      *)
(* together.                                                               *)
THEOREM EstimatesFitTogether == SpendSpec => []WaveEstimatesFit
<1>1. SpendInit => SpendTypeOK /\ WaveEstimatesFit
  BY Settings DEF SpendInit, SpendTypeOK, WaveEstimatesFit
<1>2. SpendTypeOK /\ WaveEstimatesFit /\ [SpendNext]_spendVars
        => SpendTypeOK' /\ WaveEstimatesFit'
  BY SpendTypeStep, EstimatesStep
<1> QED
  BY <1>1, <1>2, PTL DEF SpendSpec

LEMMA MonthStep ==
  ASSUME SpendTypeOK, [SpendNext]_spendVars
  PROVE  onMonth' >= onMonth
<1> DEFINE Goal == onMonth' >= onMonth
<1>0. onMonth \in Nat /\ held \in [Steps -> Nat]
  BY DEF SpendTypeOK
<1>1. ASSUME NEW s \in Steps, NEW outcome, CommitAs(s, outcome) PROVE Goal
  BY <1>0, <1>1 DEF CommitAs
<1>2. ASSUME UNCHANGED onMonth PROVE Goal
  BY <1>0, <1>2
<1>3. ASSUME NEW s \in Steps,
             \/ Admit(s) \/ RefuseStep(s) \/ LoseStep(s) \/ Continue(s)
             \/ \E p \in Prices : Ask(s, p)
             \/ \E p \in 0..(asked[s] + Premium) : Meter(s, p) \/ FailToMeter(s, p)
      PROVE  Goal
  BY <1>2, <1>3 DEF Admit, RefuseStep, LoseStep, Continue, Ask, Meter, FailToMeter, ledger
<1>4. ASSUME NEW s \in Steps, EndStep(s) \/ \E p \in Prices : RefuseCall(s, p) PROVE Goal
  BY <1>1, <1>4 DEF EndStep, RefuseCall
<1>5. ASSUME \/ \E w \in Waves : Take(w)
             \/ \E j \in Jobs : LoseWorker(j) \/ Delete(j)
             \/ \E j \in Jobs, to \in 1..PlatformCap : RaiseCap(j, to)
      PROVE  Goal
  BY <1>2, <1>5 DEF Take, LoseWorker, Delete, RaiseCap, ledger
<1>6. CASE UNCHANGED spendVars
  BY <1>2, <1>6 DEF spendVars
<1>7. CASE SpendNext
  <2> HIDE DEF Goal
  <2>1. Goal
    BY <1>3, <1>4, <1>5, <1>7, SpendCases
  <2> QED
    BY <2>1 DEF Goal
<1> QED
  BY <1>6, <1>7

(* Neither a rollback nor a deletion takes anything off the month.         *)
THEOREM TheMonthNeverForgets == SpendSpec => MonthNeverForgets
<1>1. SpendInit => SpendTypeOK
  BY Settings DEF SpendInit, SpendTypeOK
<1>2. SpendTypeOK /\ [SpendNext]_spendVars => SpendTypeOK' /\ [onMonth' >= onMonth]_spendVars
  BY SpendTypeStep, MonthStep
<1> QED
  BY <1>1, <1>2, PTL DEF SpendSpec, MonthNeverForgets
-----------------------------------------------------------------------------
(* What is charged, and what is on record or about to be: a sum over the   *)
(* steps, of which each step changes one summand.                          *)

PoundInv == losses = 0 => bill = onMonth + SumFunctionOnSet(held, Steps)

LEMMA PoundStep ==
  ASSUME SpendTypeOK, PoundInv, [SpendNext]_spendVars
  PROVE  PoundInv'
<1> DEFINE Goal == PoundInv'
<1>0. /\ held \in [Steps -> Nat] /\ asked \in [Steps -> Nat] /\ JobOf \in [Steps -> Jobs]
      /\ onMonth \in Nat /\ bill \in Nat /\ losses \in Nat /\ Premium \in Nat
      /\ IsFiniteSet(Steps) /\ SumFunctionOnSet(held, Steps) \in Nat
  <2>1. IsFiniteSet(Steps)
    BY SpendAssumption
  <2>2. SumFunctionOnSet(held, Steps) \in Nat
    BY <2>1, SumType DEF SpendTypeOK
  <2> QED
    BY <2>1, <2>2, Settings DEF SpendTypeOK
<1>1. ASSUME UNCHANGED <<held, onMonth, bill, losses>> PROVE Goal
  BY <1>1 DEF PoundInv
<1>2. ASSUME NEW w \in Waves, Take(w) PROVE Goal
  BY <1>1, <1>2 DEF Take, ledger, bounded
<1>3. ASSUME NEW s \in Steps, Admit(s) \/ RefuseStep(s) \/ Continue(s) PROVE Goal
  BY <1>1, <1>3 DEF Admit, RefuseStep, Continue, ledger, bounded
<1>4. ASSUME NEW j \in Jobs, Delete(j) PROVE Goal
  BY <1>1, <1>4 DEF Delete, bounded
<1>5. ASSUME NEW s \in Steps, NEW p \in Prices, Ask(s, p) PROVE Goal
  BY <1>1, <1>5 DEF Ask, ledger
<1>6. ASSUME NEW j \in Jobs, NEW to \in 1..PlatformCap, RaiseCap(j, to) PROVE Goal
  BY <1>1, <1>6 DEF RaiseCap, ledger, bounded
<1>7. ASSUME NEW s \in Steps, NEW p \in 0..(asked[s] + Premium), Meter(s, p) PROVE Goal
  <2>1. p \in Nat
    BY <1>0
  <2>2. /\ held' = [held EXCEPT ![s] = held[s] + p]
        /\ bill' = bill + p /\ onMonth' = onMonth /\ losses' = losses
    BY <1>7 DEF Meter, ledger
  <2>3. SumFunctionOnSet(held', Steps) + held[s] = SumFunctionOnSet(held, Steps) + (held[s] + p)
    <3>1. held'[s] = held[s] + p /\ held' \in [Steps -> Nat] /\ \A t \in Steps \ {s} : held[t] = held'[t]
      BY <1>0, <2>1, <2>2
    <3> QED
      BY <1>0, <3>1, SumChanged
  <2>4. SumFunctionOnSet(held', Steps) \in Nat
    <3>1. \A t \in Steps : held'[t] \in Nat
      BY <1>0, <2>1, <2>2
    <3> QED
      BY <1>0, <3>1, SumType
  <2> QED
    BY <1>0, <2>1, <2>2, <2>3, <2>4 DEF PoundInv
<1>8. ASSUME NEW s \in Steps, NEW outcome, CommitAs(s, outcome) PROVE Goal
  <2>1. /\ held' = [held EXCEPT ![s] = 0]
        /\ bill' = bill /\ onMonth' = onMonth + held[s] /\ losses' = losses
    BY <1>8 DEF CommitAs, bounded
  <2>2. SumFunctionOnSet(held', Steps) + held[s] = SumFunctionOnSet(held, Steps) + 0
    <3>1. held'[s] = 0 /\ held' \in [Steps -> Nat] /\ \A t \in Steps \ {s} : held[t] = held'[t]
      BY <1>0, <2>1
    <3> QED
      BY <1>0, <3>1, SumChanged
  <2>3. SumFunctionOnSet(held', Steps) \in Nat
    <3>1. \A t \in Steps : held'[t] \in Nat
      BY <1>0, <2>1
    <3> QED
      BY <1>0, <3>1, SumType
  <2> QED
    BY <1>0, <2>1, <2>2, <2>3 DEF PoundInv
<1>9. ASSUME losses' = losses + 1 PROVE Goal
  BY <1>0, <1>9 DEF PoundInv
<1>10. CASE UNCHANGED spendVars
  BY <1>1, <1>10 DEF spendVars
<1>11. CASE SpendNext
  <2> HIDE DEF Goal
  <2>1. \A s \in Steps, p \in Prices : RefuseCall(s, p) => Goal
    BY <1>8 DEF RefuseCall
  <2>2. \A s \in Steps : EndStep(s) => Goal
    BY <1>8 DEF EndStep
  <2>3. \A s \in Steps : \A p \in 0..(asked[s] + Premium) : FailToMeter(s, p) => Goal
    BY <1>9 DEF FailToMeter
  <2>4. \A s \in Steps : LoseStep(s) => Goal
    BY <1>9 DEF LoseStep
  <2>5. \A j \in Jobs : LoseWorker(j) => Goal
    BY <1>9 DEF LoseWorker
  <2>6. Goal
    BY <1>2, <1>3, <1>4, <1>5, <1>6, <1>7, <1>11, <2>1, <2>2, <2>3, <2>4, <2>5, SpendCases
  <2> QED
    BY <2>6 DEF Goal
<1> QED
  BY <1>10, <1>11

(* Every pound the provider charged is on the month's account, or flushed  *)
(* by a step that is yet to commit, until something is lost: for any       *)
(* number of runs, steps and calls.                                        *)
THEOREM EveryPoundIsOnRecord == SpendSpec => []EveryPoundIsCounted
<1>1. SpendInit => PoundInv
  <2> SUFFICES ASSUME SpendInit PROVE PoundInv
    OBVIOUS
  <2>1. IsFiniteSet(Steps) /\ \A s \in Steps : held[s] = 0
    BY SpendAssumption DEF SpendInit
  <2>2. SumFunctionOnSet(held, Steps) = 0
    BY <2>1, SumOfNothing
  <2> QED
    BY <2>2 DEF SpendInit, PoundInv
<1>2. SpendTypeOK /\ PoundInv /\ [SpendNext]_spendVars => PoundInv'
  BY PoundStep
<1>3. PoundInv => EveryPoundIsCounted
  BY DEF PoundInv, EveryPoundIsCounted
<1> QED
  BY <1>1, <1>2, <1>3, SpendTypeCorrect, PTL DEF SpendSpec

-----------------------------------------------------------------------------
(* A run whose steps go side by side.  What is under way is part of one    *)
(* wave, what waits in it is idle, and a step that is not under way holds  *)
(* nothing.                                                                *)

WaveInv(j) ==
  /\ \E w \in WavesOf(j) : wave[j] \cup Running(j) \subseteq w
  /\ \A s \in wave[j] : step[s] = "idle" /\ JobOf[s] = j

RestInv == \A s \in Steps : step[s] # "running" => held[s] = 0 /\ asked[s] = 0

SideInv == RestInv /\ \A j \in Jobs : WaveInv(j)

LEMMA SideStep ==
  ASSUME SpendTypeOK, SideInv, [SpendNext]_spendVars
  PROVE  SideInv'
<1> DEFINE Goal == SideInv'
<1>0. /\ step \in [Steps -> {"idle", "running", "done", "failed", "refused"}]
      /\ wave \in [Jobs -> SUBSET Steps] /\ JobOf \in [Steps -> Jobs]
      /\ held \in [Steps -> Nat] /\ asked \in [Steps -> Nat]
  BY Settings DEF SpendTypeOK
<1>1. ASSUME UNCHANGED <<step, wave>>, RestInv' PROVE Goal
  BY <1>1 DEF SideInv, WaveInv, Running, WavesOf
<1>2. ASSUME NEW w \in Waves, Take(w) PROVE Goal
  <2>1. PICK j \in Jobs : /\ \A s \in w : JobOf[s] = j /\ step[s] = "idle"
                          /\ Running(j) = {} /\ wave' = [wave EXCEPT ![j] = w]
                          /\ UNCHANGED <<step, held, asked>>
    BY <1>2 DEF Take, Busy
  <2>2. WaveInv(j)'
    <3>1. w \in WavesOf(j) /\ Running(j)' = {} /\ wave'[j] = w
      BY <1>0, <2>1 DEF WavesOf, Running
    <3>2. WavesOf(j)' = WavesOf(j)
      BY DEF WavesOf
    <3> QED
      BY <2>1, <3>1, <3>2 DEF WaveInv
  <2>3. ASSUME NEW k \in Jobs, k # j PROVE WaveInv(k)'
    BY <1>0, <2>1, <2>3 DEF SideInv, WaveInv, Running, WavesOf
  <2> QED
    BY <2>1, <2>2, <2>3 DEF SideInv, RestInv
<1>3. ASSUME NEW s \in Steps, Admit(s) PROVE Goal
  <2>1. /\ s \in wave[JobOf[s]] /\ step' = [step EXCEPT ![s] = "running"]
        /\ wave' = [wave EXCEPT ![JobOf[s]] = @ \ {s}] /\ UNCHANGED <<held, asked>>
    BY <1>3 DEF Admit, NextUp
  <2>2. ASSUME NEW j \in Jobs PROVE WaveInv(j)'
    <3>1. PICK w \in WavesOf(j) : wave[j] \cup Running(j) \subseteq w
      BY DEF SideInv, WaveInv
    <3>2. wave'[j] \cup Running(j)' \subseteq wave[j] \cup Running(j)
      BY <1>0, <2>1 DEF Running
    <3>3. \A t \in wave'[j] : t \in wave[j] /\ t # s
      BY <1>0, <2>1 DEF SideInv, WaveInv
    <3>4. \A t \in wave'[j] : step'[t] = "idle" /\ JobOf[t] = j
      BY <1>0, <2>1, <3>3 DEF SideInv, WaveInv
    <3> QED
      BY <3>1, <3>2, <3>4 DEF WaveInv, WavesOf
  <2> QED
    BY <1>0, <2>1, <2>2 DEF SideInv, RestInv
<1>4. ASSUME NEW s \in Steps, RefuseStep(s) PROVE Goal
  <2>1. /\ s \in wave[JobOf[s]] /\ step' = [step EXCEPT ![s] = "refused"]
        /\ wave' = [wave EXCEPT ![JobOf[s]] = {}] /\ UNCHANGED <<held, asked>>
    BY <1>4 DEF RefuseStep, NextUp
  <2>2. step[s] = "idle"
    BY <1>0, <2>1 DEF SideInv, WaveInv
  <2>3. ASSUME NEW j \in Jobs PROVE WaveInv(j)'
    BY <1>0, <2>1, <2>2 DEF SideInv, WaveInv, Running, WavesOf
  <2> QED
    BY <1>0, <2>1, <2>2, <2>3 DEF SideInv, RestInv
<1>5. ASSUME NEW s \in Steps, step[s] = "running",
             NEW outcome \in {"done", "failed", "refused"},
             step' = [step EXCEPT ![s] = outcome], wave' = wave,
             held' = [held EXCEPT ![s] = 0], asked[s] = 0, asked' = asked
      PROVE  Goal
  <2>1. ASSUME NEW j \in Jobs PROVE WaveInv(j)'
    BY <1>0, <1>5 DEF SideInv, WaveInv, Running, WavesOf
  <2> QED
    BY <1>0, <1>5, <2>1 DEF SideInv, RestInv
<1>6. ASSUME NEW j \in Jobs, LoseWorker(j) PROVE Goal
  <2>1. ASSUME NEW k \in Jobs PROVE WaveInv(k)'
    BY <1>0, <1>6 DEF LoseWorker, SideInv, WaveInv, Running, WavesOf
  <2> QED
    BY <1>0, <1>6, <2>1 DEF LoseWorker, SideInv, RestInv
<1>7. ASSUME NEW s \in Steps, Continue(s) PROVE Goal
  <2>1. ASSUME NEW j \in Jobs PROVE WaveInv(j)'
    BY <1>0, <1>7 DEF Continue, SideInv, WaveInv, Running, WavesOf
  <2> QED
    BY <1>0, <1>7, <2>1 DEF Continue, SideInv, RestInv
<1>8. CASE UNCHANGED spendVars
  BY <1>1, <1>8 DEF spendVars, SideInv, RestInv
<1>9. ASSUME NEW s \in Steps, NEW p, Ask(s, p) \/ Meter(s, p) \/ FailToMeter(s, p) PROVE Goal
  <2>1. step[s] = "running"
    BY <1>0, <1>9 DEF Ask, Meter, FailToMeter, SideInv, RestInv
  <2>2. RestInv'
    BY <1>0, <1>9, <2>1 DEF Ask, Meter, FailToMeter, SideInv, RestInv
  <2> QED
    BY <1>1, <1>9, <2>2 DEF Ask, Meter, FailToMeter
<1>10. CASE SpendNext
  <2> HIDE DEF Goal
  <2>1. \A s \in Steps, p \in Prices : RefuseCall(s, p) => Goal
    BY <1>5 DEF RefuseCall, CommitAs
  <2>2. \A s \in Steps : EndStep(s) => Goal
    BY <1>5 DEF EndStep, CommitAs
  <2>3. \A s \in Steps : LoseStep(s) => Goal
    BY <1>5 DEF LoseStep
  <2>4. \A j \in Jobs : Delete(j) => Goal
    BY <1>1 DEF Delete, SideInv, RestInv
  <2>5. \A j \in Jobs, to \in 1..PlatformCap : RaiseCap(j, to) => Goal
    BY <1>1 DEF RaiseCap, SideInv, RestInv
  <2>6. Goal
    BY <1>2, <1>3, <1>4, <1>6, <1>7, <1>9, <1>10, <2>1, <2>2, <2>3, <2>4, <2>5, SpendCases
  <2> QED
    BY <2>6 DEF Goal
<1> QED
  BY <1>8, <1>10

(* What a step may yet put on record, at worst; and what its run may.      *)
WorstIn(h, a) == [s \in Steps |-> h[s] + IF a[s] > 0 THEN a[s] + Premium ELSE 0]

Worst == WorstIn(held, asked)

WorstOf(j) == onRun[j] + SumFunctionOnSet(Worst, Running(j))

SideBound(j) == WorstOf(j) <= Widest(j) * (cap[j] + Premium)

LEMMA WideEnough ==
  ASSUME NEW j \in Jobs, NEW w \in WavesOf(j)
  PROVE  /\ Widest(j) \in Nat /\ IsFiniteSet(w)
         /\ \A r \in SUBSET w : Cardinality(r) \in Nat /\ Cardinality(r) <= Widest(j)
<1> DEFINE sizes == {Cardinality(v) : v \in WavesOf(j)}
<1>1. IsFiniteSet(Steps) /\ WavesOf(j) \subseteq SUBSET Steps
  BY SpendAssumption DEF WavesOf
<1>2. \A v \in SUBSET Steps : /\ IsFiniteSet(v) /\ Cardinality(v) \in Nat
                              /\ Cardinality(v) <= Cardinality(Steps)
  BY <1>1, FS_Subset, FS_CardinalityType
<1>3. sizes \in SUBSET Nat /\ Cardinality(w) \in sizes
  BY <1>1, <1>2
<1>4. Cardinality(Steps) \in Nat /\ \A n \in sizes : n <= Cardinality(Steps)
  BY <1>1, <1>2
<1>5. Widest(j) \in Nat /\ Cardinality(w) <= Widest(j)
  <2>1. Widest(j) = Max(sizes)
    BY DEF Widest
  <2> HIDE DEF sizes
  <2> QED
    BY <1>3, <1>4, <2>1, MaxIsGreatest
<1>6. ASSUME NEW r \in SUBSET w PROVE Cardinality(r) \in Nat /\ Cardinality(r) <= Widest(j)
  <2>1. IsFiniteSet(w) /\ w \in SUBSET Steps /\ r \in SUBSET Steps
    BY <1>1, <1>2
  <2>2. Cardinality(r) <= Cardinality(w)
    BY <2>1, FS_Subset
  <2>3. Cardinality(r) \in Nat /\ Cardinality(w) \in Nat
    BY <1>2, <2>1
  <2> QED
    BY <1>5, <2>2, <2>3
<1> QED
  BY <1>1, <1>2, <1>5, <1>6

LEMMA TimesMore ==
  ASSUME NEW m \in Nat, NEW n \in Nat, m <= n, NEW k \in Nat
  PROVE  m * k <= n * k /\ k * m <= k * n /\ m * k \in Nat
OBVIOUS

LEMMA WorstType ==
  ASSUME NEW h \in [Steps -> Nat], NEW a \in [Steps -> Nat], NEW r \in SUBSET Steps
  PROVE  /\ WorstIn(h, a) \in [Steps -> Nat]
         /\ \A s \in Steps : h[s] <= WorstIn(h, a)[s]
         /\ IsFiniteSet(r)
         /\ SumFunctionOnSet(WorstIn(h, a), r) \in Nat
<1>1. WorstIn(h, a) \in [Steps -> Nat] /\ \A s \in Steps : h[s] <= WorstIn(h, a)[s]
  BY Settings DEF WorstIn
<1>2. IsFiniteSet(r)
  BY SpendAssumption, FS_Subset
<1>3. \A s \in r : WorstIn(h, a)[s] \in Nat
  BY <1>1
<1> QED
  BY <1>1, <1>2, <1>3, SumType

LEMMA WorstTypes ==
  /\ SpendTypeOK => held \in [Steps -> Nat] /\ asked \in [Steps -> Nat]
  /\ SpendTypeOK' => held' \in [Steps -> Nat] /\ asked' \in [Steps -> Nat]
  /\ Worst = WorstIn(held, asked) /\ Worst' = WorstIn(held', asked')
  /\ \A j : Running(j) \in SUBSET Steps /\ Running(j)' \in SUBSET Steps
BY DEF SpendTypeOK, Worst, Running

(* A step of the run that asks for no more than the cap leaves: with the   *)
(* others at their worst it keeps the bound.                               *)
LEMMA AskKeepsBound ==
  ASSUME SpendTypeOK, SpendTypeOK', CapInv', SideInv', NEW s \in Steps, s \in Running(JobOf[s])',
         (onRun[JobOf[s]] + Worst[s] <= cap[JobOf[s]] + Premium)'
  PROVE  SideBound(JobOf[s])'
<1> DEFINE j == JobOf[s]
           r == Running(j)'
           most == cap'[j] + Premium
           f == Worst'
<1>1. /\ j \in Jobs /\ Premium \in Nat /\ cap'[j] \in Nat /\ onRun'[j] \in Nat /\ most \in Nat
      /\ j' = j
  BY Settings DEF SpendTypeOK
<1>2. f \in [Steps -> Nat] /\ IsFiniteSet(r) /\ r \subseteq Steps /\ s \in r
  BY WorstType, WorstTypes
<1>3. ASSUME NEW t \in r PROVE f[t] \in Nat /\ f[t] <= most
  <2>1. JobOf[t] = j /\ t \in Steps
    BY DEF Running
  <2>2. held'[t] \in Nat /\ asked'[t] \in Nat
    BY <2>1 DEF SpendTypeOK
  <2>3. /\ held'[t] <= most
        /\ asked'[t] > 0 => held'[t] + asked'[t] <= cap'[j]
    BY <2>1 DEF CapInv
  <2>4. f[t] = held'[t] + IF asked'[t] > 0 THEN asked'[t] + Premium ELSE 0
    BY <2>1 DEF Worst, WorstIn
  <2> QED
    BY <1>1, <2>2, <2>3, <2>4
<1>4. /\ IsFiniteSet(r \ {s}) /\ Cardinality(r \ {s}) = Cardinality(r) - 1
      /\ Cardinality(r) \in Nat /\ Cardinality(r \ {s}) \in Nat
  BY <1>2, FS_RemoveElement, FS_CardinalityType
<1>5. SumFunctionOnSet(f, r \ {s}) <= Cardinality(r \ {s}) * most
  <2>1. \A t \in r \ {s} : f[t] \in Nat /\ f[t] <= most
    BY <1>3
  <2> HIDE DEF r, f, most
  <2> QED
    BY <1>1, <1>4, <2>1, SumBound
<1>6. SumFunctionOnSet(f, r) = f[s] + SumFunctionOnSet(f, r \ {s})
  <2>1. \A t \in r : f[t] \in Nat
    BY <1>3
  <2> HIDE DEF r, f
  <2> QED
    BY <1>2, <2>1, SumTakeOut
<1>7. SumFunctionOnSet(f, r \ {s}) \in Nat /\ f[s] \in Nat
  <2>1. \A t \in r \ {s} : f[t] \in Nat
    BY <1>3
  <2> QED
    BY <1>2, <1>3, <1>4, <2>1, SumType
<1>8. onRun'[j] + SumFunctionOnSet(f, r) <= Cardinality(r) * most
  <2>1. onRun'[j] + f[s] <= most
    BY <1>1
  <2>2. Cardinality(r) * most = Cardinality(r \ {s}) * most + most
    <3>1. Cardinality(r) = Cardinality(r \ {s}) + 1
      BY <1>4
    <3> HIDE DEF r, most
    <3> QED
      BY <1>1, <1>4, <3>1
  <2>3. Cardinality(r \ {s}) * most \in Nat
    BY <1>1, <1>4
  <2> HIDE DEF r, most, f
  <2> QED
    BY <1>1, <1>5, <1>6, <1>7, <2>1, <2>2, <2>3
<1>9. Cardinality(r) <= Widest(j) /\ Widest(j) \in Nat /\ Widest(j)' = Widest(j)
  <2>1. PICK w \in WavesOf(j) : r \subseteq w
    BY <1>1 DEF SideInv, WaveInv, WavesOf
  <2>2. Widest(j)' = Widest(j)
    BY DEF Widest, WavesOf
  <2> QED
    BY <1>1, <2>1, <2>2, WideEnough
<1>10. Cardinality(r) * most <= Widest(j) * most
  BY <1>1, <1>4, <1>9, TimesMore
<1>11. Cardinality(r) * most \in Nat /\ Widest(j) * most \in Nat
  BY <1>1, <1>4, <1>9
<1>12. WorstOf(j)' = onRun'[j] + SumFunctionOnSet(f, r)
  BY DEF WorstOf
<1> HIDE DEF r, f, most
<1>13. WorstOf(j)' <= Widest(j) * most
  BY <1>1, <1>2, <1>7, <1>6, <1>8, <1>10, <1>11, <1>12
<1> QED
  BY <1>1, <1>9, <1>13 DEF SideBound, most

(* What is committed and what may be, where no summand grows.              *)
LEMMA NoGrowthKeepsBound ==
  ASSUME SpendTypeOK, SpendTypeOK', NEW j \in Jobs, SideBound(j), WavesOf(j) # {},
         onRun'[j] = onRun[j], cap'[j] >= cap[j], Running(j)' = Running(j),
         \A s \in Running(j) : Worst'[s] <= Worst[s]
  PROVE  SideBound(j)'
<1>1. SumFunctionOnSet(Worst', Running(j)) <= SumFunctionOnSet(Worst, Running(j))
  <2>1. \A s \in Running(j) : Worst'[s] \in Nat /\ Worst[s] \in Nat
    BY WorstType, WorstTypes
  <2>2. IsFiniteSet(Running(j))
    BY WorstType, WorstTypes
  <2> QED
    BY <2>1, <2>2, SumLess
<1>2. /\ SumFunctionOnSet(Worst, Running(j)) \in Nat
      /\ SumFunctionOnSet(Worst', Running(j)) \in Nat
  BY WorstType, WorstTypes
<1>3. /\ onRun[j] \in Nat /\ cap[j] + Premium \in Nat /\ cap'[j] + Premium \in Nat
      /\ cap[j] + Premium <= cap'[j] + Premium
  <2>1. cap[j] \in Nat /\ cap'[j] \in Nat /\ Premium \in Nat /\ onRun[j] \in Nat
    BY Settings DEF SpendTypeOK
  <2> QED
    BY <2>1
<1>4. Widest(j) \in Nat /\ Widest(j)' = Widest(j)
  BY WideEnough DEF Widest, WavesOf
<1>5. Widest(j) * (cap[j] + Premium) <= Widest(j) * (cap'[j] + Premium)
  BY <1>3, <1>4, TimesMore
<1>6. /\ Widest(j) * (cap[j] + Premium) \in Nat
      /\ Widest(j) * (cap'[j] + Premium) \in Nat
  BY <1>3, <1>4
<1>7. WorstOf(j)' = onRun[j] + SumFunctionOnSet(Worst', Running(j))
  BY DEF WorstOf
<1>8. WorstOf(j) = onRun[j] + SumFunctionOnSet(Worst, Running(j))
  BY DEF WorstOf
<1>9. WorstOf(j)' <= Widest(j) * (cap'[j] + Premium)
  BY <1>1, <1>2, <1>3, <1>5, <1>6, <1>7, <1>8 DEF SideBound
<1> QED
  BY <1>4, <1>9 DEF SideBound

(* A step that is no longer under way, with what it held put on record or  *)
(* lost.                                                                   *)
LEMMA LeavingKeepsBound ==
  ASSUME SpendTypeOK, SpendTypeOK', NEW j \in Jobs, SideBound(j), NEW s \in Running(j),
         Running(j)' = Running(j) \ {s}, onRun'[j] <= onRun[j] + held[s], cap' = cap,
         \A t \in Running(j) \ {s} : Worst'[t] = Worst[t]
  PROVE  SideBound(j)'
<1> DEFINE r == Running(j)
<1>1. /\ IsFiniteSet(r) /\ IsFiniteSet(r \ {s}) /\ s \in Steps /\ r \subseteq Steps
      /\ Worst \in [Steps -> Nat] /\ held[s] <= Worst[s]
      /\ held \in [Steps -> Nat]
  <2>1. r \in SUBSET Steps /\ r \ {s} \in SUBSET Steps /\ s \in Steps
    BY DEF Running
  <2> HIDE DEF r
  <2> QED
    BY <2>1, WorstType, WorstTypes
<1>2. /\ onRun[j] \in Nat /\ onRun'[j] \in Nat /\ cap[j] \in Nat /\ Premium \in Nat
  BY Settings DEF SpendTypeOK
<1>3. SumFunctionOnSet(Worst, r) = Worst[s] + SumFunctionOnSet(Worst, r \ {s})
  <2>1. \A t \in r : Worst[t] \in Nat
    BY <1>1
  <2>2. s \in r
    OBVIOUS
  <2> HIDE DEF r
  <2> QED
    BY <1>1, <2>1, <2>2, SumTakeOut
<1>4. SumFunctionOnSet(Worst', r \ {s}) = SumFunctionOnSet(Worst, r \ {s})
  <2>1. \A t \in r \ {s} : Worst'[t] = Worst[t]
    OBVIOUS
  <2> HIDE DEF r
  <2> QED
    BY <1>1, <2>1, SumSame
<1>5. SumFunctionOnSet(Worst, r \ {s}) \in Nat
  <2>1. \A t \in r \ {s} : Worst[t] \in Nat
    BY <1>1
  <2> HIDE DEF r
  <2> QED
    BY <1>1, <2>1, SumType
<1>6. WorstOf(j)' <= WorstOf(j)
  <2>1. WorstOf(j)' = onRun'[j] + SumFunctionOnSet(Worst', r \ {s})
    BY DEF WorstOf
  <2>2. WorstOf(j) = onRun[j] + SumFunctionOnSet(Worst, r)
    BY DEF WorstOf
  <2>3. Worst[s] \in Nat /\ held[s] \in Nat
    BY <1>1
  <2> HIDE DEF r
  <2> QED
    BY <1>1, <1>2, <1>3, <1>4, <1>5, <2>1, <2>2, <2>3
<1>7. /\ WorstOf(j) \in Nat /\ WorstOf(j)' \in Nat
  BY <1>1, <1>2, <1>3, <1>4, <1>5 DEF WorstOf
<1>8. Widest(j)' = Widest(j)
  BY DEF Widest, WavesOf
<1>9. Widest(j) \in Nat
  <2>1. WavesOf(j) # {}
    BY SpendAssumption DEF WavesOf
  <2> QED
    BY <2>1, WideEnough
<1>10. Widest(j) * (cap[j] + Premium) \in Nat
  BY <1>2, <1>9
<1> HIDE DEF r
<1> QED
  BY <1>6, <1>7, <1>8, <1>10 DEF SideBound

(* A run with nothing under way.                                           *)
LEMMA IdleKeepsBound ==
  ASSUME SpendTypeOK, SpendTypeOK', NEW j \in Jobs, SideBound(j), Running(j)' = {},
         onRun'[j] = 0 \/ onRun'[j] = onRun[j], cap' = cap
  PROVE  SideBound(j)'
<1>1. WorstOf(j)' = onRun'[j] /\ onRun'[j] \in Nat /\ onRun[j] \in Nat
  <2>1. SumFunctionOnSet(Worst', {}) = 0
    BY SumEmpty
  <2> QED
    BY <2>1 DEF WorstOf, SpendTypeOK
<1>2. SumFunctionOnSet(Worst, Running(j)) \in Nat
  BY WorstType, WorstTypes
<1>3. WorstOf(j)' <= WorstOf(j) /\ WorstOf(j) \in Nat
  BY <1>1, <1>2 DEF WorstOf
<1>4. Widest(j) \in Nat /\ Widest(j)' = Widest(j)
  <2>1. WavesOf(j) # {}
    BY SpendAssumption DEF WavesOf
  <2> QED
    BY <2>1, WideEnough DEF Widest, WavesOf
<1>5. Widest(j) * (cap[j] + Premium) \in Nat
  BY <1>4, Settings DEF SpendTypeOK
<1> QED
  BY <1>1, <1>3, <1>4, <1>5 DEF SideBound

LEMMA SideBoundStep ==
  ASSUME SpendTypeOK, SpendTypeOK', CapInv', SideInv, SideInv', [SpendNext]_spendVars,
         \A j \in Jobs : SideBound(j), NEW k \in Jobs
  PROVE  SideBound(k)'
<1> DEFINE Goal == SideBound(k)'
<1>0. /\ step \in [Steps -> {"idle", "running", "done", "failed", "refused"}]
      /\ wave \in [Jobs -> SUBSET Steps] /\ JobOf \in [Steps -> Jobs]
      /\ held \in [Steps -> Nat] /\ asked \in [Steps -> Nat]
      /\ onRun \in [Jobs -> Nat] /\ cap \in [Jobs -> Nat] /\ Premium \in Nat
      /\ WavesOf(k) # {} /\ Running(k) \subseteq Steps
      /\ \A s \in Steps : Worst[s] \in Nat
      /\ Prices \subseteq Nat
  <2>1. WavesOf(k) # {} /\ Running(k) \subseteq Steps
    BY SpendAssumption DEF WavesOf, Running
  <2>2. \A s \in Steps : Worst[s] \in Nat
    BY WorstType, WorstTypes
  <2> QED
    BY <2>1, <2>2, Settings DEF SpendTypeOK
<1>1. ASSUME UNCHANGED <<held, asked, onRun>>, cap' = cap, Running(k)' = Running(k) PROVE Goal
  <2>1. Worst' = Worst
    BY <1>1 DEF Worst
  <2> QED
    BY <1>0, <1>1, <2>1, NoGrowthKeepsBound
<1>2. ASSUME NEW w \in Waves, Take(w) PROVE Goal
  BY <1>1, <1>2 DEF Take, ledger, Running
<1>3. ASSUME NEW s \in Steps, RefuseStep(s) PROVE Goal
  <2>1. step[s] = "idle"
    BY <1>0, <1>3 DEF RefuseStep, NextUp, SideInv, WaveInv
  <2>2. Running(k)' = Running(k)
    BY <1>0, <1>3, <2>1 DEF RefuseStep, Running
  <2> QED
    BY <1>1, <1>3, <2>2 DEF RefuseStep, ledger
<1>4. ASSUME NEW s \in Steps, Continue(s) PROVE Goal
  <2>1. Running(k)' = Running(k)
    BY <1>0, <1>4 DEF Continue, Running
  <2> QED
    BY <1>1, <1>4, <2>1 DEF Continue, ledger
<1>5. ASSUME NEW j \in Jobs, Delete(j) PROVE Goal
  <2>1. CASE j = k
    BY <1>0, <1>5, <2>1, IdleKeepsBound DEF Delete, Busy, Running
  <2>2. CASE j # k
    <3>1. onRun'[k] = onRun[k] /\ Running(k)' = Running(k) /\ Worst' = Worst /\ cap' = cap
      BY <1>0, <1>5, <2>2 DEF Delete, Running, Worst
    <3> QED
      BY <1>0, <3>1, NoGrowthKeepsBound
  <2> QED
    BY <2>1, <2>2
<1>6. ASSUME NEW j \in Jobs, NEW to \in 1..PlatformCap, RaiseCap(j, to) PROVE Goal
  <2>1. to \in Nat
    BY Settings
  <2>2. cap'[k] >= cap[k]
    BY <1>0, <1>6, <2>1 DEF RaiseCap, MayRaise
  <2>3. onRun' = onRun /\ Running(k)' = Running(k) /\ Worst' = Worst
    BY <1>6 DEF RaiseCap, ledger, Running, Worst
  <2> QED
    BY <1>0, <2>2, <2>3, NoGrowthKeepsBound
<1>7. ASSUME NEW s \in Steps, Admit(s) PROVE Goal
  <2>1. step[s] = "idle" /\ Worst[s] = 0
    BY <1>0, <1>7 DEF Admit, NextUp, SideInv, WaveInv, RestInv, Worst, WorstIn
  <2>2. /\ step' = [step EXCEPT ![s] = "running"]
        /\ UNCHANGED <<held, asked, onRun>> /\ cap' = cap
    BY <1>7 DEF Admit, ledger
  <2>3. CASE JobOf[s] # k
    BY <1>0, <1>1, <2>2, <2>3 DEF Running
  <2>4. CASE JobOf[s] = k
    <3>1. Running(k)' = Running(k) \cup {s} /\ s \notin Running(k)
      BY <1>0, <2>1, <2>2, <2>4 DEF Running
    <3>2. (Running(k) \cup {s}) \ {s} = Running(k) /\ Running(k) \cup {s} \in SUBSET Steps
      BY <1>0, <3>1
    <3>3. IsFiniteSet(Running(k) \cup {s})
      BY <3>2, SpendAssumption, FS_Subset
    <3>4. SumFunctionOnSet(Worst, Running(k) \cup {s})
            = Worst[s] + SumFunctionOnSet(Worst, Running(k))
      <4>1. \A t \in Running(k) \cup {s} : Worst[t] \in Nat
        BY <1>0
      <4> QED
        BY <3>2, <3>3, <4>1, SumTakeOut
    <3>5. SumFunctionOnSet(Worst, Running(k)) \in Nat
      BY WorstType, WorstTypes
    <3>6. Worst' = Worst /\ Widest(k)' = Widest(k)
      BY <2>2 DEF Worst, Widest, WavesOf
    <3>7. WorstOf(k)' = WorstOf(k)
      BY <2>1, <2>2, <3>1, <3>4, <3>5, <3>6 DEF WorstOf
    <3> QED
      BY <2>2, <3>6, <3>7 DEF SideBound
  <2> QED
    BY <2>3, <2>4
<1>8. ASSUME NEW s \in Steps, UNCHANGED <<step, onRun>>, cap' = cap,
             \A t \in Steps \ {s} : held'[t] = held[t] /\ asked'[t] = asked[t],
             Worst'[s] <= Worst[s] \/ JobOf[s] # k
      PROVE  Goal
  <2>1. Running(k)' = Running(k)
    BY <1>8 DEF Running
  <2>2. ASSUME NEW t \in Running(k) PROVE Worst'[t] <= Worst[t]
    <3>1. CASE t = s
      BY <1>8, <3>1 DEF Running
    <3>2. CASE t # s
      <4>1. Worst'[t] = Worst[t] /\ Worst[t] \in Nat
        BY <1>0, <1>8, <3>2 DEF Worst, WorstIn
      <4> QED
        BY <4>1
    <3> QED
      BY <3>1, <3>2
  <2> QED
    BY <1>0, <1>8, <2>1, <2>2, NoGrowthKeepsBound
<1>9. ASSUME NEW s \in Steps, NEW p \in 0..(asked[s] + Premium), Meter(s, p) \/ FailToMeter(s, p)
      PROVE  Goal
  <2>1. p \in Nat /\ asked[s] > 0 /\ p <= asked[s] + Premium
    BY <1>0, <1>9 DEF Meter, FailToMeter
  <2>2. /\ asked' = [asked EXCEPT ![s] = 0]
        /\ held' = [held EXCEPT ![s] = held[s] + p] \/ held' = held
        /\ UNCHANGED <<step, onRun>> /\ cap' = cap
    BY <1>9 DEF Meter, FailToMeter, ledger
  <2>3. asked'[s] = 0 /\ held'[s] <= held[s] + p
    BY <1>0, <2>1, <2>2
  <2>4. held'[s] \in Nat /\ asked[s] \in Nat /\ held[s] \in Nat
    BY <1>0, <2>1, <2>2
  <2>5. Worst'[s] = held'[s] /\ Worst[s] = held[s] + (asked[s] + Premium)
    BY <1>0, <2>1, <2>3, <2>4 DEF Worst, WorstIn
  <2>6. Worst'[s] <= Worst[s]
    BY <1>0, <2>1, <2>3, <2>4, <2>5
  <2>7. \A t \in Steps \ {s} : held'[t] = held[t] /\ asked'[t] = asked[t]
    BY <1>0, <2>2
  <2> QED
    BY <1>8, <2>2, <2>6, <2>7
<1>10. ASSUME NEW s \in Steps, NEW p \in Prices, Ask(s, p) PROVE Goal
  <2>1. /\ p \in Nat /\ p > 0 /\ step[s] = "running"
        /\ asked' = [asked EXCEPT ![s] = p] /\ UNCHANGED <<held, step, onRun>> /\ cap' = cap
        /\ onRun[JobOf[s]] + held[s] + p <= cap[JobOf[s]]
    BY <1>0, <1>10 DEF Ask, Affords, Fits, ledger
  <2>2. CASE JobOf[s] # k
    <3>1. \A t \in Steps \ {s} : held'[t] = held[t] /\ asked'[t] = asked[t]
      BY <1>0, <2>1
    <3> QED
      BY <1>8, <2>1, <2>2, <3>1
  <2>3. CASE JobOf[s] = k
    <3>1. Worst'[s] = held[s] + (p + Premium)
      BY <1>0, <2>1 DEF Worst, WorstIn
    <3>2. held[s] \in Nat /\ onRun[k] \in Nat /\ cap[k] \in Nat
      BY <1>0
    <3>3. onRun'[k] + Worst'[s] <= cap'[k] + Premium
      BY <1>0, <2>1, <2>3, <3>1, <3>2
    <3>4. s \in Running(k)'
      BY <2>1, <2>3 DEF Running
    <3> QED
      BY <2>3, <3>3, <3>4, AskKeepsBound
  <2> QED
    BY <2>2, <2>3
<1>11. ASSUME NEW s \in Steps, step[s] = "running", asked[s] = 0,
              NEW outcome, outcome # "running",
              step' = [step EXCEPT ![s] = outcome], held' = [held EXCEPT ![s] = 0],
              asked' = asked, cap' = cap,
              \/ onRun' = onRun
              \/ onRun' = [onRun EXCEPT ![JobOf[s]] = @ + held[s]]
       PROVE  Goal
  <2>1. ASSUME NEW t \in Steps, t # s PROVE Worst'[t] = Worst[t]
    BY <1>0, <1>11, <2>1 DEF Worst, WorstIn
  <2>2. CASE JobOf[s] # k
    <3>1. Running(k)' = Running(k) /\ onRun'[k] = onRun[k]
      BY <1>0, <1>11, <2>2 DEF Running
    <3>2. \A t \in Running(k) : Worst'[t] <= Worst[t]
      BY <1>0, <2>1, <2>2 DEF Running
    <3> QED
      BY <1>0, <1>11, <3>1, <3>2, NoGrowthKeepsBound
  <2>3. CASE JobOf[s] = k
    <3>1. s \in Running(k) /\ Running(k)' = Running(k) \ {s}
      BY <1>0, <1>11, <2>3 DEF Running
    <3>2. onRun'[k] <= onRun[k] + held[s]
      BY <1>0, <1>11, <2>3
    <3>3. \A t \in Running(k) \ {s} : Worst'[t] = Worst[t]
      BY <1>0, <2>1
    <3> QED
      BY <1>11, <3>1, <3>2, <3>3, LeavingKeepsBound
  <2> QED
    BY <2>2, <2>3
<1>12. ASSUME NEW j \in Jobs, LoseWorker(j) PROVE Goal
  <2>1. /\ step' = [s \in Steps |-> IF s \in Running(j) THEN "idle" ELSE step[s]]
        /\ held' = [s \in Steps |-> IF s \in Running(j) THEN 0 ELSE held[s]]
        /\ asked' = [s \in Steps |-> IF s \in Running(j) THEN 0 ELSE asked[s]]
        /\ onRun' = onRun /\ cap' = cap
    BY <1>12 DEF LoseWorker, ledger
  <2>2. CASE j = k
    BY <1>0, <2>1, <2>2, IdleKeepsBound DEF Running
  <2>3. CASE j # k
    <3>1. Running(k)' = Running(k)
      BY <1>0, <2>1, <2>3 DEF Running
    <3>2. \A s \in Running(k) : s \in Steps /\ s \notin Running(j)
      BY <2>3 DEF Running
    <3>3. \A s \in Running(k) : Worst'[s] = Worst[s]
      BY <1>0, <2>1, <3>2 DEF Worst, WorstIn
    <3>4. \A s \in Running(k) : Worst'[s] <= Worst[s]
      BY <1>0, <3>2, <3>3
    <3> QED
      BY <1>0, <2>1, <3>1, <3>4, NoGrowthKeepsBound
  <2> QED
    BY <2>2, <2>3
<1>13. CASE UNCHANGED spendVars
  BY <1>1, <1>13 DEF spendVars, Running
<1>14. CASE SpendNext
  <2> HIDE DEF Goal
  <2>1. \A s \in Steps, p \in Prices : RefuseCall(s, p) => Goal
    BY <1>11 DEF RefuseCall, CommitAs
  <2>2. \A s \in Steps : EndStep(s) => Goal
    BY <1>11 DEF EndStep, CommitAs
  <2>3. \A s \in Steps : LoseStep(s) => Goal
    BY <1>11 DEF LoseStep, ledger
  <2>4. \A s \in Steps : \A p \in 0..(asked[s] + Premium) :
          (Meter(s, p) => Goal) /\ (FailToMeter(s, p) => Goal)
    BY <1>9
  <2>5. Goal
    BY <1>2, <1>3, <1>4, <1>5, <1>6, <1>7, <1>10, <1>12, <1>14,
       <2>1, <2>2, <2>3, <2>4, SpendCases
  <2> QED
    BY <2>5 DEF Goal
<1> QED
  BY <1>13, <1>14

(* However many steps go side by side, what the run has on record and they *)
(* are about to put there stays within its cap once for each step of its   *)
(* widest wave, premium included: for any waves, prices and caps.          *)
THEOREM SideBySideIsBounded == SpendSpec => []OverspendIsBounded
<1> DEFINE Inv == CapInv /\ SideInv /\ \A j \in Jobs : SideBound(j)
<1>1. SpendInit => Inv
  <2> SUFFICES ASSUME SpendInit PROVE Inv
    OBVIOUS
  <2>1. CapInv
    BY Settings DEF SpendInit, CapInv
  <2>2. SideInv
    BY SpendAssumption DEF SpendInit, SideInv, WaveInv, RestInv, Running, WavesOf
  <2>3. ASSUME NEW j \in Jobs PROVE SideBound(j)
    <3>1. Running(j) = {} /\ onRun[j] = 0 /\ cap[j] \in Nat
      BY Settings DEF SpendInit, Running
    <3>2. WorstOf(j) = 0
      BY <3>1, SumEmpty DEF WorstOf
    <3>3. WavesOf(j) # {} /\ Premium \in Nat
      BY SpendAssumption DEF WavesOf
    <3>4. Widest(j) \in Nat
      BY <3>3, WideEnough
    <3>5. Widest(j) * (cap[j] + Premium) \in Nat
      BY <3>1, <3>3, <3>4
    <3> QED
      BY <3>2, <3>5 DEF SideBound
  <2> QED
    BY <2>1, <2>2, <2>3
<1>2. SpendTypeOK /\ SpendTypeOK' /\ Inv /\ [SpendNext]_spendVars => Inv'
  BY CapStep, SideStep, SideBoundStep
<1>3. SpendTypeOK /\ Inv => OverspendIsBounded
  <2> SUFFICES ASSUME SpendTypeOK, Inv, NEW j \in Jobs
               PROVE  onRun[j] + SumFunctionOnSet(held, Running(j))
                        <= Widest(j) * (cap[j] + Premium)
    BY DEF OverspendIsBounded
  <2>1. /\ held \in [Steps -> Nat] /\ Worst \in [Steps -> Nat] /\ Running(j) \subseteq Steps
        /\ \A s \in Steps : held[s] <= Worst[s]
        /\ IsFiniteSet(Running(j)) /\ SumFunctionOnSet(Worst, Running(j)) \in Nat
    BY WorstType, WorstTypes
  <2>2. SumFunctionOnSet(held, Running(j)) <= SumFunctionOnSet(Worst, Running(j))
    BY <2>1, SumLess
  <2>3. SumFunctionOnSet(held, Running(j)) \in Nat
    BY <2>1, SumType
  <2>4. Widest(j) \in Nat /\ cap[j] + Premium \in Nat /\ onRun[j] \in Nat
    <3>1. WavesOf(j) # {}
      BY SpendAssumption DEF WavesOf
    <3> QED
      BY <3>1, WideEnough, Settings DEF SpendTypeOK
  <2>5. Widest(j) * (cap[j] + Premium) \in Nat
    BY <2>4
  <2> QED
    BY <2>1, <2>2, <2>3, <2>4, <2>5 DEF SideBound, WorstOf
<1> QED
  BY <1>1, <1>2, <1>3, SpendTypeCorrect, PTL DEF SpendSpec

-----------------------------------------------------------------------------
(* The watchlist's queue and its standing budget: its actions by what they *)
(* change.                                                                 *)
LEMMA StandingCases ==
  ASSUME StandingNext,
         NEW Goal,
         \A k \in Clerks, e \in Entries : OpenEntry(k, e) => Goal,
         \A k \in Clerks : BeginDrain(k) => Goal,
         \A k \in Clerks : ReadBudget(k) => Goal,
         \A k \in Clerks : LockEntry(k) => Goal,
         \A k \in Clerks : PassOver(k) => Goal,
         \A k \in Clerks : Commission(k) => Goal,
         \A k \in Clerks : CommitClerk(k) => Goal,
         \A k \in Clerks : Abandon(k) => Goal,
         \A e \in Entries : StopFollowing(e) => Goal,
         \A r \in Requests : RunSpends(r) => Goal,
         \A r \in Requests : RunEnds(r) => Goal,
         \A r \in Requests : StartOver(r) => Goal,
         \A r \in Requests : PurgeRequest(r) => Goal
  PROVE  Goal
BY DEF StandingNext

-----------------------------------------------------------------------------
(* Their types.                                                            *)

LEMMA StandingTypeInit == StandingInit => StandingTypeOK
<1> SUFFICES ASSUME StandingInit PROVE StandingTypeOK
  OBVIOUS
<1> USE DEF StandingInit
<1>1. entryOf \in [Requests -> Entries \cup {0}] /\ spent \in [Requests -> Nat]
  OBVIOUS
<1>2. runOf \in [Requests -> RunStatuses]
  BY DEF RunStatuses
<1>3. followed \subseteq Entries /\ todo \in [Clerks -> SUBSET Entries]
  OBVIOUS
<1>4. saw \in [Clerks -> [Requests -> Views]]
  BY DEF Views
<1>5. room \in [Clerks -> {"unread", "enough", "short"}]
  OBVIOUS
<1>6. locked \in [Clerks -> SUBSET Entries] /\ made \in [Clerks -> SUBSET Requests]
  OBVIOUS
<1>7. /\ overtaken \subseteq Clerks /\ uncounted \subseteq Requests
      /\ revived \subseteq Requests /\ outrun \subseteq Entries
  OBVIOUS
<1> QED
  BY <1>1, <1>2, <1>3, <1>4, <1>5, <1>6, <1>7 DEF StandingTypeOK

LEMMA DealtWithType ==
  ASSUME StandingTypeOK, NEW k \in Clerks, NEW e, DealtWith(k, e)
  PROVE  todo' \in [Clerks -> SUBSET Entries] /\ saw' \in [Clerks -> [Requests -> Views]]
<1>1. todo' \in [Clerks -> SUBSET Entries]
  BY DEF DealtWith, StandingTypeOK
<1>2. [r \in Requests |-> "unread"] \in [Requests -> Views]
  BY DEF Views
<1>3. saw' \in [Clerks -> [Requests -> Views]]
  BY <1>2 DEF DealtWith, StandingTypeOK
<1> QED
  BY <1>1, <1>3

LEMMA LeaveType ==
  ASSUME StandingTypeOK, NEW k \in Clerks, Leave(k)
  PROVE  /\ todo' \in [Clerks -> SUBSET Entries]
         /\ saw' \in [Clerks -> [Requests -> Views]]
         /\ room' \in [Clerks -> {"unread", "enough", "short"}]
         /\ locked' \in [Clerks -> SUBSET Entries]
         /\ made' \in [Clerks -> SUBSET Requests]
         /\ overtaken' \subseteq Clerks
         /\ UNCHANGED <<spent, followed, revived>>
<1>1. [r \in Requests |-> "unread"] \in [Requests -> Views]
  BY DEF Views
<1>2. saw' \in [Clerks -> [Requests -> Views]]
  BY <1>1 DEF Leave, StandingTypeOK
<1>3. todo' \in [Clerks -> SUBSET Entries] /\ locked' \in [Clerks -> SUBSET Entries]
  BY DEF Leave, StandingTypeOK
<1>4. made' \in [Clerks -> SUBSET Requests] /\ overtaken' \subseteq Clerks
  BY DEF Leave, StandingTypeOK
<1>5. room' \in [Clerks -> {"unread", "enough", "short"}]
  BY DEF Leave, StandingTypeOK
<1> QED
  BY <1>2, <1>3, <1>4, <1>5 DEF Leave

LEMMA SeenType ==
  ASSUME StandingTypeOK, NEW r \in Requests, NEW as \in Views
  PROVE  Resee(r, as) \in [Clerks -> [Requests -> Views]]
BY DEF Resee, StandingTypeOK

LEMMA StandingTypeStep == StandingTypeOK /\ [StandingNext]_standingVars => StandingTypeOK'
<1> SUFFICES ASSUME StandingTypeOK, [StandingNext]_standingVars PROVE StandingTypeOK'
  OBVIOUS
<1> DEFINE Goal == StandingTypeOK'
<1> USE DEF StandingTypeOK
<1>1. ASSUME NEW k \in Clerks, NEW e \in Entries, OpenEntry(k, e) PROVE Goal
  <2>1. todo' \in [Clerks -> SUBSET Entries]
    BY <1>1 DEF OpenEntry
  <2>2. [r \in Requests |-> IF Committed(r) /\ entryOf[r] = e THEN "fresh" ELSE "unread"]
          \in [Requests -> Views]
    BY DEF Views
  <2>3. saw' \in [Clerks -> [Requests -> Views]]
    BY <1>1, <2>2 DEF OpenEntry
  <2> QED
    BY <1>1, <2>1, <2>3 DEF OpenEntry, requestRows
<1>2. ASSUME NEW k \in Clerks, BeginDrain(k) PROVE Goal
  <2>1. todo' \in [Clerks -> SUBSET Entries]
    BY <1>2 DEF BeginDrain
  <2>2. [r \in Requests |->
           IF Committed(r) /\ entryOf[r] # 0 /\ InQueue(entryOf[r]) THEN Loaded(r) ELSE "unread"]
          \in [Requests -> Views]
    BY DEF Views, Loaded
  <2>3. saw' \in [Clerks -> [Requests -> Views]]
    BY <1>2, <2>2 DEF BeginDrain
  <2> QED
    BY <1>2, <2>1, <2>3 DEF BeginDrain, requestRows
<1>3. ASSUME NEW k \in Clerks, ReadBudget(k) PROVE Goal
  <2>1. room' \in [Clerks -> {"unread", "enough", "short"}]
    BY <1>3 DEF ReadBudget
  <2>2. overtaken' \subseteq Clerks
    BY <1>3 DEF ReadBudget
  <2> QED
    BY <1>3, <2>1, <2>2 DEF ReadBudget, requestRows
<1>4. ASSUME NEW k \in Clerks, LockEntry(k) PROVE Goal
  <2>1. PICK e \in todo[k] :
          /\ locked' = [locked EXCEPT ![k] = @ \cup {e}]
          /\ \/ DealtWith(k, e)
             \/ UNCHANGED <<todo, saw>>
             \/ /\ saw' = [saw EXCEPT ![k] = [r \in Requests |->
                     IF @[r] = "fresh" THEN Loaded(r) ELSE @[r]]]
                /\ UNCHANGED todo
          /\ UNCHANGED <<requestRows, followed, room, made, overtaken,
                         uncounted, revived, outrun>>
    BY <1>4 DEF LockEntry
  <2>2. locked' \in [Clerks -> SUBSET Entries]
    BY <2>1
  <2>3. [r \in Requests |-> IF saw[k][r] = "fresh" THEN Loaded(r) ELSE saw[k][r]]
          \in [Requests -> Views]
    BY DEF Views, Loaded
  <2>4. todo' \in [Clerks -> SUBSET Entries] /\ saw' \in [Clerks -> [Requests -> Views]]
    BY <2>1, <2>3, DealtWithType
  <2> QED
    BY <2>1, <2>2, <2>4 DEF requestRows
<1>5. ASSUME NEW k \in Clerks, PassOver(k) PROVE Goal
  <2>1. /\ \E e : DealtWith(k, e)
        /\ UNCHANGED <<requestRows, followed, room, locked, made, overtaken,
                       uncounted, revived, outrun>>
    BY <1>5 DEF PassOver
  <2>2. todo' \in [Clerks -> SUBSET Entries] /\ saw' \in [Clerks -> [Requests -> Views]]
    BY <2>1, DealtWithType
  <2> QED
    BY <2>1, <2>2 DEF requestRows
<1>6. ASSUME NEW k \in Clerks, Commission(k) PROVE Goal
  <2>1. PICK e \in todo[k], r \in Requests :
          /\ entryOf' = [entryOf EXCEPT ![r] = e]
          /\ runOf' = [runOf EXCEPT ![r] = "live"]
          /\ made' = [made EXCEPT ![k] = @ \cup {r}]
          /\ DealtWith(k, e)
          /\ room' = [room EXCEPT ![k] = "unread"]
          /\ overtaken' = (overtaken \cup {l \in Clerks : room[l] # "unread"}) \ {k}
          /\ uncounted' = IF k \in overtaken THEN uncounted \cup {r} ELSE uncounted
          /\ UNCHANGED <<spent, followed, locked, revived, outrun>>
    BY <1>6 DEF Commission
  <2>2. entryOf' \in [Requests -> Entries \cup {0}]
    BY <2>1
  <2>3. runOf' \in [Requests -> RunStatuses]
    BY <2>1 DEF RunStatuses
  <2>4. made' \in [Clerks -> SUBSET Requests]
    BY <2>1
  <2>5. room' \in [Clerks -> {"unread", "enough", "short"}]
    BY <2>1
  <2>6. todo' \in [Clerks -> SUBSET Entries] /\ saw' \in [Clerks -> [Requests -> Views]]
    BY <2>1, DealtWithType
  <2>7. overtaken' \subseteq Clerks /\ uncounted' \subseteq Requests
    BY <2>1
  <2> QED
    BY <2>1, <2>2, <2>3, <2>4, <2>5, <2>6, <2>7
<1>7. ASSUME NEW k \in Clerks, CommitClerk(k) PROVE Goal
  <2>1. outrun' \subseteq Entries /\ UNCHANGED <<entryOf, runOf, uncounted>> /\ Leave(k)
    BY <1>7 DEF CommitClerk
  <2> QED
    BY <2>1, LeaveType
<1>8. ASSUME NEW k \in Clerks, Abandon(k) PROVE Goal
  <2>1. entryOf' \in [Requests -> Entries \cup {0}]
    BY <1>8 DEF Abandon
  <2>2. runOf' \in [Requests -> RunStatuses]
    BY <1>8 DEF Abandon, RunStatuses
  <2>3. uncounted' \subseteq Requests /\ outrun' = outrun /\ Leave(k)
    BY <1>8 DEF Abandon
  <2> QED
    BY <2>1, <2>2, <2>3, LeaveType
<1>9. ASSUME NEW e \in Entries, StopFollowing(e) PROVE Goal
  BY <1>9 DEF StopFollowing, requestRows, sessions
<1>10. ASSUME NEW r \in Requests, RunSpends(r) PROVE Goal
  <2>1. spent' \in [Requests -> Nat]
    BY <1>10 DEF RunSpends
  <2> QED
    BY <1>10, <2>1 DEF RunSpends, sessions
<1>11. ASSUME NEW r \in Requests, RunEnds(r) PROVE Goal
  <2>1. runOf' \in [Requests -> RunStatuses]
    BY <1>11 DEF RunEnds, RunStatuses
  <2> QED
    BY <1>11, <2>1 DEF RunEnds, sessions
<1>12. ASSUME NEW r \in Requests, StartOver(r) PROVE Goal
  <2>1. runOf' \in [Requests -> RunStatuses]
    BY <1>12 DEF StartOver, RunStatuses
  <2>2. saw' \in [Clerks -> [Requests -> Views]]
    BY <1>12, SeenType DEF StartOver, Views
  <2>3. revived' \subseteq Requests
    BY <1>12 DEF StartOver
  <2> QED
    BY <1>12, <2>1, <2>2, <2>3 DEF StartOver
<1>13. ASSUME NEW r \in Requests, PurgeRequest(r) PROVE Goal
  <2>1. runOf' \in [Requests -> RunStatuses]
    BY <1>13 DEF PurgeRequest, RunStatuses
  <2>2. saw' \in [Clerks -> [Requests -> Views]]
    BY <1>13, SeenType DEF PurgeRequest, Views
  <2>3. uncounted' \subseteq Requests
    BY <1>13 DEF PurgeRequest
  <2> QED
    BY <1>13, <2>1, <2>2, <2>3 DEF PurgeRequest
<1>14. CASE UNCHANGED standingVars
  BY <1>14 DEF standingVars, requestRows, sessions
<1>15. CASE StandingNext
  <2> HIDE DEF Goal
  <2>1. Goal
    BY <1>1, <1>2, <1>3, <1>4, <1>5, <1>6, <1>7, <1>8, <1>9, <1>10, <1>11, <1>12, <1>13,
       <1>15, StandingCases
  <2> QED
    BY <2>1 DEF Goal
<1> QED
  BY <1>14, <1>15

(* Every request, entry and session keeps its type.                        *)
THEOREM StandingTypeCorrect == StandingSpec => []StandingTypeOK
<1>1. StandingInit => StandingTypeOK
  BY StandingTypeInit
<1> QED
  BY <1>1, StandingTypeStep, PTL DEF StandingSpec

-----------------------------------------------------------------------------
(* What a session holds.  It made its requests for entries it has locked   *)
(* and dealt with; whatever it has seen is committed, and no longer looks  *)
(* the way it did only where a run was brought back or a request purged.   *)
LocksApart == \A k, l \in Clerks : k # l => locked[k] \cap locked[l] = {}

MadeAreHeld == \A k \in Clerks : \A r \in made[k] :
  /\ runOf[r] = "live" /\ spent[r] = 0
  /\ entryOf[r] \in locked[k] \ todo[k]

RowsAreRuns == \A r \in Requests :
  /\ entryOf[r] = 0 <=> runOf[r] = "none"
  /\ runOf[r] = "none" => spent[r] = 0

SeenWasSo == \A k \in Clerks, r \in Requests :
  /\ saw[k][r] # "unread" => runOf[r] # "none" /\ \A l \in Clerks : r \notin made[l]
  /\ saw[k][r] = "dead" /\ runOf[r] = "live" => r \in revived
  /\ saw[k][r] = "gone" => runOf[r] = "deleted" /\ r \in uncounted

HoldInv == LocksApart /\ MadeAreHeld /\ RowsAreRuns /\ SeenWasSo

(* A quiet session holds nothing, and one that leaves lets go of all.      *)
LEMMA QuietHoldsNothing ==
  ASSUME StandingTypeOK, MadeAreHeld, NEW k \in Clerks, Quiet(k)
  PROVE  made[k] = {} /\ todo[k] = {} /\ locked[k] = {}
BY DEF Quiet, MadeAreHeld

LEMMA DealtWithDoes ==
  ASSUME StandingTypeOK, NEW k \in Clerks, NEW e, DealtWith(k, e)
  PROVE  /\ todo'[k] = todo[k] \ {e}
         /\ \A l \in Clerks : l # k => todo'[l] = todo[l] /\ saw'[l] = saw[l]
         /\ \A r \in Requests : saw'[k][r] \in {saw[k][r], "unread"}
         /\ todo'[k] # {} => saw'[k] = saw[k]
<1>1. todo'[k] = todo[k] \ {e} /\ \A l \in Clerks : l # k => todo'[l] = todo[l]
  BY DEF DealtWith, StandingTypeOK
<1>2. CASE todo[k] = {e}
  <2>1. saw'[k] = [r \in Requests |-> "unread"] /\ \A l \in Clerks : l # k => saw'[l] = saw[l]
    BY <1>2 DEF DealtWith, StandingTypeOK
  <2> QED
    BY <1>1, <1>2, <2>1
<1>3. CASE todo[k] # {e}
  <2>1. saw' = saw
    BY <1>3 DEF DealtWith
  <2> QED
    BY <1>1, <2>1
<1> QED
  BY <1>2, <1>3

LEMMA LeaveDoes ==
  ASSUME StandingTypeOK, NEW k \in Clerks, Leave(k)
  PROVE  /\ todo'[k] = {} /\ locked'[k] = {} /\ made'[k] = {} /\ room'[k] = "unread"
         /\ \A r \in Requests : saw'[k][r] = "unread"
         /\ \A l \in Clerks : l # k =>
              /\ todo'[l] = todo[l] /\ locked'[l] = locked[l] /\ made'[l] = made[l]
              /\ room'[l] = room[l] /\ saw'[l] = saw[l]
         /\ UNCHANGED <<spent, followed, revived>>
BY DEF Leave, StandingTypeOK

LEMMA LocksStep ==
  ASSUME StandingTypeOK, LocksApart, [StandingNext]_standingVars
  PROVE  LocksApart'
<1> DEFINE Goal == LocksApart'
<1> USE DEF LocksApart
<1>same. ASSUME UNCHANGED locked PROVE Goal
  BY <1>same
<1>1. ASSUME NEW k \in Clerks, LockEntry(k) PROVE Goal
  <2>1. PICK e : Unlocked(k, e) /\ locked' = [locked EXCEPT ![k] = @ \cup {e}]
    BY <1>1 DEF LockEntry
  <2> QED
    BY <2>1 DEF Unlocked, StandingTypeOK
<1>2. ASSUME NEW k \in Clerks, Leave(k) PROVE Goal
  BY <1>2, LeaveDoes
<1>3. CASE StandingNext
  <2> HIDE DEF Goal
  <2>1. \A k \in Clerks, e \in Entries : OpenEntry(k, e) => Goal
    BY <1>same DEF OpenEntry
  <2>2. \A k \in Clerks : BeginDrain(k) \/ ReadBudget(k) \/ PassOver(k) \/ Commission(k) => Goal
    BY <1>same DEF BeginDrain, ReadBudget, PassOver, Commission
  <2>3. \A k \in Clerks : CommitClerk(k) \/ Abandon(k) => Goal
    BY <1>2 DEF CommitClerk, Abandon
  <2>4. \A e \in Entries : StopFollowing(e) => Goal
    BY <1>same DEF StopFollowing, sessions
  <2>5. \A r \in Requests : RunSpends(r) \/ RunEnds(r) \/ StartOver(r) \/ PurgeRequest(r) => Goal
    BY <1>same DEF RunSpends, RunEnds, StartOver, PurgeRequest, sessions
  <2>6. Goal
    BY <1>1, <1>3, <2>1, <2>2, <2>3, <2>4, <2>5, StandingCases
  <2> QED
    BY <2>6 DEF Goal
<1> QED
  BY <1>same, <1>3 DEF standingVars, sessions

(* What a run does happens to a request that is committed.                 *)
LEMMA RunMoves ==
  ASSUME StandingTypeOK, NEW r \in Requests,
         RunSpends(r) \/ RunEnds(r) \/ StartOver(r) \/ PurgeRequest(r)
  PROVE  /\ runOf[r] # "none" /\ runOf'[r] # "none" /\ \A k \in Clerks : r \notin made[k]
         /\ \A q \in Requests : q # r => runOf'[q] = runOf[q] /\ spent'[q] = spent[q]
         /\ UNCHANGED <<entryOf, followed, todo, room, locked, made, overtaken, outrun>>
<1>1. runOf[r] # "none" /\ \A k \in Clerks : r \notin made[k]
  BY DEF RunSpends, RunEnds, StartOver, PurgeRequest, Committed
<1>2. CASE RunSpends(r)
  BY <1>1, <1>2 DEF RunSpends, StandingTypeOK, sessions
<1>3. CASE RunEnds(r)
  BY <1>1, <1>3 DEF RunEnds, StandingTypeOK, sessions
<1>4. CASE StartOver(r)
  BY <1>1, <1>4 DEF StartOver, StandingTypeOK
<1>5. CASE PurgeRequest(r)
  BY <1>1, <1>5 DEF PurgeRequest, StandingTypeOK
<1> QED
  BY <1>2, <1>3, <1>4, <1>5

(* A commission makes a request of one that was not.                       *)
LEMMA CommissionDoes ==
  ASSUME StandingTypeOK, NEW k \in Clerks, Commission(k)
  PROVE  \E e \in todo[k] \cap locked[k], r \in Requests :
    /\ runOf[r] = "none" /\ runOf'[r] = "live" /\ entryOf'[r] = e
    /\ room[k] = "enough"
    /\ \A q \in Requests : entryOf[q] = e /\ saw[k][q] # "unread" => q < r
    /\ \A q \in Requests : q # r => runOf'[q] = runOf[q] /\ entryOf'[q] = entryOf[q]
    /\ made'[k] = made[k] \cup {r} /\ room'[k] = "unread"
    /\ \A l \in Clerks : l # k => made'[l] = made[l] /\ room'[l] = room[l]
    /\ DealtWith(k, e)
    /\ overtaken' = (overtaken \cup {l \in Clerks : room[l] # "unread"}) \ {k}
    /\ uncounted' = IF k \in overtaken THEN uncounted \cup {r} ELSE uncounted
    /\ UNCHANGED <<spent, followed, locked, revived, outrun>>
<1>1. PICK e \in todo[k] \cap locked[k], r \in Requests :
        /\ runOf[r] = "none" /\ room[k] = "enough"
        /\ \A q \in Requests : entryOf[q] = e /\ saw[k][q] # "unread" => q < r
        /\ entryOf' = [entryOf EXCEPT ![r] = e]
        /\ runOf' = [runOf EXCEPT ![r] = "live"]
        /\ made' = [made EXCEPT ![k] = @ \cup {r}]
        /\ DealtWith(k, e)
        /\ room' = [room EXCEPT ![k] = "unread"]
        /\ overtaken' = (overtaken \cup {l \in Clerks : room[l] # "unread"}) \ {k}
        /\ uncounted' = IF k \in overtaken THEN uncounted \cup {r} ELSE uncounted
        /\ UNCHANGED <<spent, followed, locked, revived, outrun>>
  BY DEF Commission
<1>2. /\ runOf'[r] = "live" /\ entryOf'[r] = e
      /\ \A q \in Requests : q # r => runOf'[q] = runOf[q] /\ entryOf'[q] = entryOf[q]
  BY <1>1 DEF StandingTypeOK
<1>3. /\ made'[k] = made[k] \cup {r} /\ room'[k] = "unread"
      /\ \A l \in Clerks : l # k => made'[l] = made[l] /\ room'[l] = room[l]
  BY <1>1 DEF StandingTypeOK
<1> QED
  BY <1>1, <1>2, <1>3

LEMMA AbandonDoes ==
  ASSUME StandingTypeOK, NEW k \in Clerks, Abandon(k)
  PROVE  /\ \A r \in made[k] : entryOf'[r] = 0 /\ runOf'[r] = "none"
         /\ \A r \in Requests \ made[k] : entryOf'[r] = entryOf[r] /\ runOf'[r] = runOf[r]
         /\ uncounted' = uncounted \ made[k] /\ outrun' = outrun
         /\ Leave(k)
BY DEF Abandon, StandingTypeOK

LEMMA LockDoes ==
  ASSUME StandingTypeOK, NEW k \in Clerks, LockEntry(k)
  PROVE  \E e \in todo[k] :
    /\ Unlocked(k, e)
    /\ locked'[k] = locked[k] \cup {e}
    /\ \A l \in Clerks : l # k =>
         locked'[l] = locked[l] /\ todo'[l] = todo[l] /\ saw'[l] = saw[l]
    /\ \/ todo'[k] = todo[k] \ {e} /\ \A r \in Requests : saw'[k][r] \in {saw[k][r], "unread"}
       \/ ~Alive(k, e) /\ todo'[k] = todo[k] /\ saw'[k] = saw[k]
       \/ /\ ~Alive(k, e) /\ todo'[k] = todo[k]
          /\ \A r \in Requests :
               saw'[k][r] = IF saw[k][r] = "fresh" THEN Loaded(r) ELSE saw[k][r]
    /\ todo'[k] # {} =>
         \A r \in Requests : saw'[k][r] = "unread" => saw[k][r] = "unread"
    /\ UNCHANGED <<entryOf, runOf, spent, followed, room, made, overtaken,
                   uncounted, revived, outrun>>
<1>1. PICK e \in todo[k] :
        /\ Unlocked(k, e)
        /\ locked' = [locked EXCEPT ![k] = @ \cup {e}]
        /\ \/ DealtWith(k, e)
           \/ ~Alive(k, e) /\ UNCHANGED <<todo, saw>>
           \/ /\ ~Alive(k, e)
              /\ saw' = [saw EXCEPT ![k] = [r \in Requests |->
                   IF @[r] = "fresh" THEN Loaded(r) ELSE @[r]]]
              /\ UNCHANGED todo
        /\ UNCHANGED <<requestRows, followed, room, made, overtaken,
                       uncounted, revived, outrun>>
  BY DEF LockEntry
<1>2. locked'[k] = locked[k] \cup {e} /\ \A l \in Clerks : l # k => locked'[l] = locked[l]
  BY <1>1 DEF StandingTypeOK
<1>3. CASE DealtWith(k, e)
  BY <1>1, <1>2, <1>3, DealtWithDoes DEF requestRows
<1>4. CASE ~Alive(k, e) /\ UNCHANGED <<todo, saw>>
  BY <1>1, <1>2, <1>4 DEF requestRows
<1>5. CASE /\ ~Alive(k, e)
           /\ saw' = [saw EXCEPT ![k] = [r \in Requests |->
                IF @[r] = "fresh" THEN Loaded(r) ELSE @[r]]]
           /\ UNCHANGED todo
  <2>1. \A r \in Requests : saw'[k][r] = IF saw[k][r] = "fresh" THEN Loaded(r) ELSE saw[k][r]
    BY <1>5 DEF StandingTypeOK
  <2>2. \A r \in Requests : Loaded(r) # "unread"
    BY DEF Loaded
  <2>3. \A l \in Clerks : l # k => saw'[l] = saw[l]
    BY <1>5 DEF StandingTypeOK
  <2> QED
    BY <1>1, <1>2, <1>5, <2>1, <2>2, <2>3 DEF requestRows
<1> QED
  BY <1>1, <1>3, <1>4, <1>5

LEMMA MadeStep ==
  ASSUME StandingTypeOK, HoldInv, [StandingNext]_standingVars
  PROVE  MadeAreHeld'
<1> DEFINE Goal == MadeAreHeld'
<1> USE DEF MadeAreHeld, HoldInv
<1>same. ASSUME UNCHANGED <<entryOf, runOf, spent, todo, locked, made>> PROVE Goal
  BY <1>same
<1>1. ASSUME NEW k \in Clerks, Quiet(k), UNCHANGED <<entryOf, runOf, spent, locked, made>>,
             \A l \in Clerks : l # k => todo'[l] = todo[l]
      PROVE  Goal
  BY <1>1, QuietHoldsNothing
<1>2. ASSUME NEW k \in Clerks, LockEntry(k) PROVE Goal
  <2>1. UNCHANGED <<entryOf, runOf, spent, made>>
    BY <1>2, LockDoes
  <2>2. \A l \in Clerks : locked[l] \subseteq locked'[l] /\ todo'[l] \subseteq todo[l]
    BY <1>2, LockDoes
  <2> QED
    BY <2>1, <2>2
<1>3. ASSUME NEW k \in Clerks, PassOver(k) PROVE Goal
  <2>1. UNCHANGED <<entryOf, runOf, spent, made, locked>>
    BY <1>3 DEF PassOver, requestRows
  <2>2. \A l \in Clerks : todo'[l] \subseteq todo[l]
    BY <1>3, DealtWithDoes DEF PassOver
  <2> QED
    BY <2>1, <2>2
<1>4. ASSUME NEW k \in Clerks, Commission(k) PROVE Goal
  <2>1. PICK e \in todo[k] \cap locked[k], r \in Requests :
          /\ runOf[r] = "none" /\ runOf'[r] = "live" /\ entryOf'[r] = e
          /\ \A q \in Requests : q # r => runOf'[q] = runOf[q] /\ entryOf'[q] = entryOf[q]
          /\ made'[k] = made[k] \cup {r}
          /\ \A l \in Clerks : l # k => made'[l] = made[l]
          /\ DealtWith(k, e)
          /\ UNCHANGED <<spent, locked>>
    BY <1>4, CommissionDoes
  <2>2. \A l \in Clerks : r \notin made[l] /\ made[l] \subseteq Requests
    BY <2>1 DEF StandingTypeOK
  <2>3. todo'[k] = todo[k] \ {e} /\ \A l \in Clerks : l # k => todo'[l] = todo[l]
    BY <2>1, DealtWithDoes
  <2>4. spent[r] = 0
    BY <2>1 DEF RowsAreRuns
  <2>5. ASSUME NEW l \in Clerks, NEW q \in made[l]
        PROVE /\ runOf'[q] = "live" /\ spent'[q] = 0
              /\ entryOf'[q] \in locked'[l] \ todo'[l]
    BY <2>1, <2>2, <2>3, <2>5
  <2> QED
    BY <2>1, <2>3, <2>4, <2>5
<1>5. ASSUME NEW k \in Clerks, CommitClerk(k) PROVE Goal
  BY <1>5, LeaveDoes DEF CommitClerk
<1>6. ASSUME NEW k \in Clerks, Abandon(k) PROVE Goal
  <2>1. ASSUME NEW l \in Clerks, l # k, NEW r \in made[l] PROVE r \in Requests \ made[k]
    BY <2>1 DEF LocksApart, StandingTypeOK
  <2>2. Leave(k)
    BY <1>6, AbandonDoes
  <2> QED
    BY <1>6, <2>1, <2>2, AbandonDoes, LeaveDoes
<1>7. ASSUME NEW r \in Requests, RunSpends(r) \/ RunEnds(r) \/ StartOver(r) \/ PurgeRequest(r)
      PROVE  Goal
  <2>1. \A k \in Clerks : made[k] \subseteq Requests
    BY DEF StandingTypeOK
  <2> QED
    BY <1>7, <2>1, RunMoves
<1>8. CASE StandingNext
  <2> HIDE DEF Goal
  <2>1. \A k \in Clerks, e \in Entries : OpenEntry(k, e) => Goal
    BY <1>1 DEF OpenEntry, requestRows, StandingTypeOK
  <2>2. \A k \in Clerks : BeginDrain(k) => Goal
    BY <1>1 DEF BeginDrain, requestRows, StandingTypeOK
  <2>3. \A k \in Clerks : ReadBudget(k) => Goal
    BY <1>same DEF ReadBudget, requestRows
  <2>4. \A e \in Entries : StopFollowing(e) => Goal
    BY <1>same DEF StopFollowing, sessions, requestRows
  <2>5. Goal
    BY <1>2, <1>3, <1>4, <1>5, <1>6, <1>7, <1>8, <2>1, <2>2, <2>3, <2>4, StandingCases
  <2> QED
    BY <2>5 DEF Goal
<1> QED
  BY <1>same, <1>8 DEF standingVars, sessions, requestRows

LEMMA RunRowsStep ==
  ASSUME StandingTypeOK, HoldInv, [StandingNext]_standingVars
  PROVE  RowsAreRuns'
<1> DEFINE Goal == RowsAreRuns'
<1> USE DEF RowsAreRuns, HoldInv
<1>same. ASSUME UNCHANGED <<entryOf, runOf, spent>> PROVE Goal
  BY <1>same
<1>1. ASSUME NEW k \in Clerks, Commission(k) PROVE Goal
  <2>1. PICK e \in todo[k], r \in Requests :
          /\ runOf'[r] = "live" /\ entryOf'[r] = e
          /\ \A q \in Requests : q # r => runOf'[q] = runOf[q] /\ entryOf'[q] = entryOf[q]
          /\ UNCHANGED spent
    BY <1>1, CommissionDoes
  <2>2. e # 0
    BY StandingAssumption DEF StandingTypeOK
  <2> QED
    BY <2>1, <2>2
<1>2. ASSUME NEW k \in Clerks, Abandon(k) PROVE Goal
  <2>1. Leave(k) /\ \A r \in made[k] : spent[r] = 0
    BY <1>2, AbandonDoes DEF MadeAreHeld
  <2>2. spent' = spent
    BY <2>1, LeaveDoes
  <2> QED
    BY <1>2, <2>1, <2>2, AbandonDoes
<1>3. ASSUME NEW k \in Clerks, CommitClerk(k) PROVE Goal
  BY <1>3, <1>same DEF CommitClerk, Leave
<1>4. ASSUME NEW r \in Requests, RunSpends(r) \/ RunEnds(r) \/ StartOver(r) \/ PurgeRequest(r)
      PROVE  Goal
  BY <1>4, RunMoves
<1>5. CASE StandingNext
  <2> HIDE DEF Goal
  <2>1. \A k \in Clerks, e \in Entries : OpenEntry(k, e) => Goal
    BY <1>same DEF OpenEntry, requestRows
  <2>2. \A k \in Clerks : BeginDrain(k) \/ ReadBudget(k) \/ PassOver(k) => Goal
    BY <1>same DEF BeginDrain, ReadBudget, PassOver, requestRows
  <2>3. \A k \in Clerks : LockEntry(k) => Goal
    BY <1>same, LockDoes
  <2>4. \A e \in Entries : StopFollowing(e) => Goal
    BY <1>same DEF StopFollowing, requestRows
  <2>5. Goal
    BY <1>1, <1>2, <1>3, <1>4, <1>5, <2>1, <2>2, <2>3, <2>4, StandingCases
  <2> QED
    BY <2>5 DEF Goal
<1> QED
  BY <1>same, <1>5 DEF standingVars, requestRows

(* SeenWasSo, of one request that one session has seen.  A step forgets    *)
(* what was seen, reads it from the database, or marks it where a run or a *)
(* request is replaced.                                                    *)
SoIs(k, r) ==
  /\ saw[k][r] # "unread" => runOf[r] # "none" /\ \A l \in Clerks : r \notin made[l]
  /\ saw[k][r] = "dead" /\ runOf[r] = "live" => r \in revived
  /\ saw[k][r] = "gone" => runOf[r] = "deleted" /\ r \in uncounted

LEMMA SeenStep ==
  ASSUME StandingTypeOK, HoldInv, [StandingNext]_standingVars
  PROVE  SeenWasSo'
<1> DEFINE Goal == \A k \in Clerks, r \in Requests : SoIs(k, r)'
<1> SUFFICES Goal
  BY DEF SoIs, SeenWasSo
<1>0. \A k \in Clerks, r \in Requests : SoIs(k, r)
  BY DEF SoIs, SeenWasSo, HoldInv
<1> USE DEF SoIs
<1>same. ASSUME UNCHANGED <<runOf, made, revived, uncounted>>,
                \A k \in Clerks, r \in Requests :
                  \/ saw'[k][r] = saw[k][r]
                  \/ saw'[k][r] = "unread"
                  \/ saw'[k][r] = Loaded(r) /\ Committed(r)
                  \/ saw'[k][r] = "fresh" /\ Committed(r)
         PROVE  Goal
  BY <1>0, <1>same DEF Loaded, Committed
<1>1. ASSUME NEW k \in Clerks, NEW e \in Entries, OpenEntry(k, e) PROVE Goal
  <2>1. \A l \in Clerks, r \in Requests :
          saw'[l][r] = saw[l][r] \/ saw'[l][r] = "unread" \/ (saw'[l][r] = "fresh" /\ Committed(r))
    BY <1>1 DEF OpenEntry, StandingTypeOK
  <2> QED
    BY <1>1, <2>1, <1>same DEF OpenEntry, requestRows
<1>2. ASSUME NEW k \in Clerks, BeginDrain(k) PROVE Goal
  <2>1. \A l \in Clerks, r \in Requests :
          saw'[l][r] = saw[l][r] \/ saw'[l][r] = "unread" \/ (saw'[l][r] = Loaded(r) /\ Committed(r))
    BY <1>2 DEF BeginDrain, StandingTypeOK
  <2> QED
    BY <1>2, <2>1, <1>same DEF BeginDrain, requestRows
<1>3. ASSUME NEW k \in Clerks, LockEntry(k) PROVE Goal
  <2>1. UNCHANGED <<runOf, made, revived, uncounted>>
    BY <1>3, LockDoes
  <2>2. ASSUME NEW l \in Clerks, NEW r \in Requests
        PROVE \/ saw'[l][r] = saw[l][r] \/ saw'[l][r] = "unread"
              \/ saw'[l][r] = Loaded(r) /\ saw[l][r] = "fresh"
    BY <1>3, LockDoes
  <2>3. \A l \in Clerks, r \in Requests : saw[l][r] = "fresh" => Committed(r)
    BY <1>0 DEF Committed
  <2> QED
    BY <2>1, <2>2, <2>3, <1>same
<1>4. ASSUME NEW k \in Clerks, PassOver(k) PROVE Goal
  <2>1. \A l \in Clerks, r \in Requests : saw'[l][r] = saw[l][r] \/ saw'[l][r] = "unread"
    BY <1>4, DealtWithDoes DEF PassOver
  <2> QED
    BY <1>4, <2>1, <1>same DEF PassOver, requestRows
<1>5. ASSUME NEW k \in Clerks, Commission(k) PROVE Goal
  <2>1. PICK e \in todo[k], r \in Requests :
          /\ runOf[r] = "none"
          /\ \A q \in Requests : q # r => runOf'[q] = runOf[q]
          /\ made'[k] = made[k] \cup {r}
          /\ \A l \in Clerks : l # k => made'[l] = made[l]
          /\ DealtWith(k, e)
          /\ uncounted \subseteq uncounted' /\ revived' = revived
    BY <1>5, CommissionDoes
  <2>2. \A l \in Clerks, q \in Requests : saw'[l][q] = saw[l][q] \/ saw'[l][q] = "unread"
    BY <2>1, DealtWithDoes
  <2>3. \A l \in Clerks : saw[l][r] = "unread"
    BY <1>0, <2>1
  <2> QED
    BY <1>0, <2>1, <2>2, <2>3
<1>6. ASSUME NEW k \in Clerks, CommitClerk(k) PROVE Goal
  <2>1. UNCHANGED <<runOf, uncounted, revived>> /\ Leave(k)
    BY <1>6 DEF CommitClerk, Leave
  <2>2. \A l \in Clerks : /\ made'[l] \subseteq made[l]
                          /\ \A r \in Requests : saw'[l][r] \in {saw[l][r], "unread"}
    BY <2>1, LeaveDoes
  <2> QED
    BY <1>0, <2>1, <2>2
<1>7. ASSUME NEW k \in Clerks, Abandon(k) PROVE Goal
  <2>1. Leave(k) /\ revived' = revived /\ uncounted' = uncounted \ made[k]
    BY <1>7, AbandonDoes DEF Leave
  <2>2. \A l \in Clerks : /\ made'[l] \subseteq made[l]
                          /\ \A r \in Requests : saw'[l][r] \in {saw[l][r], "unread"}
    BY <2>1, LeaveDoes
  <2>3. \A r \in Requests \ made[k] : runOf'[r] = runOf[r]
    BY <1>7, AbandonDoes
  <2>4. \A r \in made[k], l \in Clerks : r \in Requests => saw[l][r] = "unread"
    BY <1>0
  <2> QED
    BY <1>0, <2>1, <2>2, <2>3, <2>4
<1>8. ASSUME NEW r \in Requests, RunSpends(r) PROVE Goal
  BY <1>8, <1>same DEF RunSpends, sessions
<1>9. ASSUME NEW r \in Requests, RunEnds(r) PROVE Goal
  <2>1. /\ runOf'[r] \in {"dead", "reported"} /\ runOf[r] = "live"
        /\ \A q \in Requests : q # r => runOf'[q] = runOf[q]
        /\ UNCHANGED <<saw, made, revived, uncounted>>
    BY <1>9 DEF RunEnds, sessions, StandingTypeOK
  <2> QED
    BY <1>0, <2>1
<1>10. ASSUME NEW r \in Requests, StartOver(r) PROVE Goal
  <2>1. /\ runOf'[r] = "live" /\ runOf[r] = "dead" /\ r \in revived'
        /\ \A q \in Requests : q # r => runOf'[q] = runOf[q]
        /\ revived \subseteq revived' /\ UNCHANGED <<made, uncounted>>
    BY <1>10 DEF StartOver, StandingTypeOK
  <2>2. \A k \in Clerks, q \in Requests :
          \/ saw'[k][q] = saw[k][q]
          \/ q = r /\ saw'[k][q] = "fresh" /\ saw[k][q] # "unread"
    BY <1>10 DEF StartOver, Resee, StandingTypeOK
  <2> QED
    BY <1>0, <2>1, <2>2
<1>11. ASSUME NEW r \in Requests, PurgeRequest(r) PROVE Goal
  <2>1. /\ runOf'[r] = "deleted" /\ \A k \in Clerks : r \notin made[k]
        /\ \A q \in Requests : q # r => runOf'[q] = runOf[q]
        /\ UNCHANGED <<made, revived>> /\ uncounted \subseteq uncounted'
        /\ (\E k \in Clerks : saw[k][r] # "unread") => r \in uncounted'
    BY <1>11 DEF PurgeRequest, Committed, StandingTypeOK
  <2>2. \A k \in Clerks, q \in Requests :
          saw'[k][q] = IF q = r /\ saw[k][q] # "unread" THEN "gone" ELSE saw[k][q]
    BY <1>11 DEF PurgeRequest, Resee, StandingTypeOK
  <2> QED
    BY <1>0, <2>1, <2>2
<1>12. CASE StandingNext
  <2> HIDE DEF Goal
  <2>1. \A k \in Clerks : ReadBudget(k) => Goal
    BY <1>same DEF ReadBudget, requestRows
  <2>2. \A e \in Entries : StopFollowing(e) => Goal
    BY <1>same DEF StopFollowing, sessions, requestRows
  <2>3. Goal
    BY <1>1, <1>2, <1>3, <1>4, <1>5, <1>6, <1>7, <1>8, <1>9, <1>10, <1>11, <1>12, <2>1, <2>2,
       StandingCases
  <2> QED
    BY <2>3 DEF Goal
<1> QED
  BY <1>same, <1>12 DEF standingVars, sessions, requestRows

LEMMA HoldStep ==
  ASSUME StandingTypeOK, HoldInv, [StandingNext]_standingVars
  PROVE  HoldInv'
<1>1. LocksApart'
  BY LocksStep DEF HoldInv
<1> QED
  BY <1>1, MadeStep, RunRowsStep, SeenStep DEF HoldInv

LEMMA HoldInit == StandingInit => HoldInv
<1> SUFFICES ASSUME StandingInit PROVE HoldInv
  OBVIOUS
<1> USE DEF StandingInit
<1>1. LocksApart /\ MadeAreHeld
  BY DEF LocksApart, MadeAreHeld
<1>2. RowsAreRuns
  BY DEF RowsAreRuns
<1>3. SeenWasSo
  BY DEF SeenWasSo
<1> QED
  BY <1>1, <1>2, <1>3 DEF HoldInv

-----------------------------------------------------------------------------
(* One run for an entry.  While nobody commissions an entry under another  *)
(* session's eyes, a session that has it in hand has loaded every request  *)
(* for it that was committed, every request but the last is done with, and *)
(* once it has locked the entry the last one is too.                       *)
Done(r) == runOf[r] # "live" \/ r \in revived

AllAreLoaded == \A k \in Clerks : \A e \in todo[k] \ outrun : \A r \in Requests :
  entryOf[r] = e => saw[k][r] # "unread" \/ \E l \in Clerks : r \in made[l]

HeldAreDone == \A k \in Clerks : \A e \in (todo[k] \cap locked[k]) \ outrun : \A r \in Requests :
  entryOf[r] = e => Done(r)

OldAreDone == \A e \in Entries \ outrun : \A r, q \in Requests :
  entryOf[r] = e /\ entryOf[q] = e /\ r < q => Done(r)

EntryInv == AllAreLoaded /\ HeldAreDone /\ OldAreDone

(* Nobody else has made a request for an entry that a session has locked,  *)
(* and the session itself only for entries it has dealt with.              *)
LEMMA HeldAreLoaded ==
  ASSUME StandingTypeOK, HoldInv, AllAreLoaded, NEW k \in Clerks, NEW e \in todo[k] \ outrun,
         Unlocked(k, e), NEW r \in Requests, entryOf[r] = e
  PROVE  saw[k][r] # "unread"
<1>1. ASSUME NEW l \in Clerks, r \in made[l] PROVE FALSE
  <2>1. e \in locked[l] \ todo[l]
    BY <1>1 DEF HoldInv, MadeAreHeld
  <2>2. CASE l = k
    BY <2>1, <2>2
  <2>3. CASE l # k
    BY <2>1, <2>3 DEF Unlocked
  <2> QED
    BY <2>2, <2>3
<1> QED
  BY <1>1 DEF AllAreLoaded

LEMMA LockedIsUnlocked ==
  ASSUME LocksApart, NEW k \in Clerks, NEW e \in locked[k]
  PROVE  Unlocked(k, e)
BY DEF LocksApart, Unlocked

(* A finite set of numbers that is not empty has a last one.               *)
LEMMA ThereIsALatest ==
  ASSUME NEW rows \in SUBSET Requests, rows # {}
  PROVE  \E r \in rows : IsLatest(r, rows)
<1>1. IsFiniteSet(rows) /\ rows \in SUBSET Nat
  BY FS_Subset, StandingAssumption
<1>2. Max(rows) \in rows /\ \A n \in rows : n <= Max(rows)
  BY <1>1, MaxOfFinite
<1> QED
  BY <1>2 DEF IsLatest

(* An entry that does not look alive has no run alive but one brought back. *)
LEMMA NotAliveIsDone ==
  ASSUME StandingTypeOK, HoldInv, AllAreLoaded, OldAreDone,
         NEW k \in Clerks, NEW e \in todo[k] \ outrun, Unlocked(k, e), ~Alive(k, e),
         NEW r \in Requests, entryOf[r] = e
  PROVE  Done(r)
<1> DEFINE rows == {q \in Requests : entryOf[q] = e /\ saw[k][q] # "unread"}
<1>1. r \in rows
  BY HeldAreLoaded
<1>2. PICK q \in rows : IsLatest(q, rows)
  <2>1. rows \in SUBSET Requests /\ rows # {}
    BY <1>1
  <2> HIDE DEF rows
  <2> QED
    BY <2>1, ThereIsALatest
<1>3. q \in Requests /\ entryOf[q] = e /\ r <= q /\ LooksLike(k, q) # "live"
  BY <1>1, <1>2 DEF Alive, IsLatest
<1>4. CASE r = q
  <2>1. saw[k][q] \in Views /\ saw[k][q] # "live"
    BY <1>3 DEF LooksLike, StandingTypeOK
  <2>2. Done(q)
    BY <1>3, <2>1 DEF LooksLike, Done, HoldInv, SeenWasSo, Views
  <2> QED
    BY <1>4, <2>2
<1>5. CASE r # q
  <2>1. r < q /\ e \in Entries \ outrun
    BY <1>3, <1>5, StandingAssumption DEF StandingTypeOK
  <2> QED
    BY <1>3, <2>1 DEF OldAreDone
<1> QED
  BY <1>4, <1>5

(* What is done with stays so, but where it is commissioned.               *)
LEMMA DoneStays ==
  ASSUME StandingTypeOK, HoldInv, NEW r \in Requests, Done(r), ~Done(r)',
         [StandingNext]_standingVars
  PROVE  runOf[r] = "none" /\ \E k \in Clerks : Commission(k) /\ r \in made'[k]
<1> DEFINE Goal == runOf[r] = "none" /\ \E k \in Clerks : Commission(k) /\ r \in made'[k]
<1>0. Goal \/ (runOf'[r] = "live" /\ r \notin revived' /\ (runOf[r] # "live" \/ r \in revived))
  BY DEF Done
<1> HIDE DEF Goal
<1> SUFFICES Goal
  BY DEF Goal
<1>1. ASSUME runOf' = runOf, revived' = revived PROVE Goal
  BY <1>0, <1>1
<1>2. ASSUME NEW k \in Clerks, Commission(k) PROVE Goal
  BY <1>0, <1>2, CommissionDoes DEF Goal
<1>3. ASSUME NEW k \in Clerks, CommitClerk(k) PROVE Goal
  BY <1>1, <1>3 DEF CommitClerk, Leave
<1>4. ASSUME NEW k \in Clerks, Abandon(k) PROVE Goal
  <2>1. Leave(k) /\ revived' = revived
    BY <1>4, AbandonDoes DEF Leave
  <2>2. r \in made[k] => runOf'[r] = "none"
    BY <1>4, AbandonDoes
  <2>3. r \notin made[k] => runOf'[r] = runOf[r]
    BY <1>4, AbandonDoes
  <2> QED
    BY <1>0, <2>1, <2>2, <2>3
<1>5. ASSUME NEW q \in Requests, RunEnds(q) PROVE Goal
  <2>1. runOf'[r] \in {runOf[r], "dead", "reported"} /\ revived' = revived
    BY <1>5 DEF RunEnds, StandingTypeOK
  <2> QED
    BY <1>0, <2>1
<1>6. ASSUME NEW q \in Requests, StartOver(q) PROVE Goal
  <2>1. (runOf'[r] = runOf[r] \/ r \in revived') /\ revived \subseteq revived'
    BY <1>6 DEF StartOver, StandingTypeOK
  <2> QED
    BY <1>0, <2>1
<1>7. ASSUME NEW q \in Requests, PurgeRequest(q) PROVE Goal
  <2>1. runOf'[r] \in {runOf[r], "deleted"} /\ revived' = revived
    BY <1>7 DEF PurgeRequest, StandingTypeOK
  <2> QED
    BY <1>0, <2>1
<1>8. CASE StandingNext
  <2>1. \A k \in Clerks, e \in Entries : OpenEntry(k, e) => Goal
    BY <1>1 DEF OpenEntry, requestRows
  <2>2. \A k \in Clerks : BeginDrain(k) \/ ReadBudget(k) \/ PassOver(k) => Goal
    BY <1>1 DEF BeginDrain, ReadBudget, PassOver, requestRows
  <2>3. \A k \in Clerks : LockEntry(k) => Goal
    BY <1>1, LockDoes
  <2>4. \A e \in Entries : StopFollowing(e) => Goal
    BY <1>1 DEF StopFollowing, requestRows
  <2>5. \A q \in Requests : RunSpends(q) => Goal
    BY <1>1 DEF RunSpends
  <2>6. Goal
    BY <1>2, <1>3, <1>4, <1>5, <1>6, <1>7, <1>8, <2>1, <2>2, <2>3, <2>4, <2>5, StandingCases
  <2> QED
    BY <2>6
<1> QED
  BY <1>1, <1>8 DEF standingVars, requestRows

(* Whatever else happens, no request changes its entry but to lose it, and *)
(* what is done with stays so.                                             *)
LEMMA ElseRowsStay ==
  ASSUME StandingTypeOK, HoldInv, [StandingNext]_standingVars,
         \A k \in Clerks : ~Commission(k), NEW r \in Requests
  PROVE  entryOf'[r] \in {entryOf[r], 0} /\ (Done(r) => Done(r)')
<1> DEFINE Goal == entryOf'[r] \in {entryOf[r], 0}
<1>1. Done(r) => Done(r)'
  BY DoneStays
<1>2. ASSUME entryOf' = entryOf PROVE Goal
  BY <1>2
<1>3. ASSUME NEW k \in Clerks, Abandon(k) PROVE Goal
  BY <1>3, AbandonDoes
<1>4. ASSUME StandingNext PROVE Goal
  <2> HIDE DEF Goal
  <2>1. \A k \in Clerks, e \in Entries : OpenEntry(k, e) => Goal
    BY <1>2 DEF OpenEntry, requestRows
  <2>2. \A k \in Clerks : BeginDrain(k) \/ ReadBudget(k) \/ PassOver(k) => Goal
    BY <1>2 DEF BeginDrain, ReadBudget, PassOver, requestRows
  <2>3. \A k \in Clerks : LockEntry(k) \/ CommitClerk(k) => Goal
    BY <1>2, LockDoes DEF CommitClerk
  <2>4. \A e \in Entries : StopFollowing(e) => Goal
    BY <1>2 DEF StopFollowing, requestRows
  <2>5. \A q \in Requests : RunSpends(q) \/ RunEnds(q) \/ StartOver(q) \/ PurgeRequest(q) => Goal
    BY <1>2, RunMoves
  <2>6. Goal
    BY <1>3, <1>4, <2>1, <2>2, <2>3, <2>4, <2>5, StandingCases
  <2> QED
    BY <2>6 DEF Goal
<1>5. CASE UNCHANGED standingVars
  BY <1>1, <1>2, <1>5 DEF standingVars, requestRows
<1>6. CASE StandingNext
  BY <1>1, <1>4, <1>6
<1> QED
  BY <1>5, <1>6

(* An entry that was commissioned under another's eyes stays one.          *)
LEMMA OutrunGrows ==
  ASSUME [StandingNext]_standingVars
  PROVE  outrun \subseteq outrun'
<1> DEFINE Goal == outrun \subseteq outrun'
<1>1. ASSUME outrun' = outrun PROVE Goal
  BY <1>1
<1>2. CASE StandingNext
  <2> HIDE DEF Goal
  <2>1. \A k \in Clerks, e \in Entries : OpenEntry(k, e) => Goal
    BY <1>1 DEF OpenEntry
  <2>2. \A k \in Clerks : BeginDrain(k) \/ ReadBudget(k) \/ PassOver(k) \/ LockEntry(k) => Goal
    BY <1>1 DEF BeginDrain, ReadBudget, PassOver, LockEntry
  <2>3. \A k \in Clerks : Commission(k) \/ Abandon(k) => Goal
    BY <1>1 DEF Commission, Abandon
  <2>4. \A k \in Clerks : CommitClerk(k) => Goal
    BY DEF CommitClerk, Goal
  <2>5. \A e \in Entries : StopFollowing(e) => Goal
    BY <1>1 DEF StopFollowing
  <2>6. \A q \in Requests : RunSpends(q) \/ RunEnds(q) \/ StartOver(q) \/ PurgeRequest(q) => Goal
    BY <1>1 DEF RunSpends, RunEnds, StartOver, PurgeRequest
  <2>7. Goal
    BY <1>2, <2>1, <2>2, <2>3, <2>4, <2>5, <2>6, StandingCases
  <2> QED
    BY <2>7 DEF Goal
<1> QED
  BY <1>1, <1>2 DEF standingVars

(* A request is commissioned after all the others for its entry, and when  *)
(* they are done with.                                                     *)
LEMMA CommissionedLast ==
  ASSUME StandingTypeOK, HoldInv, EntryInv, NEW k \in Clerks, Commission(k)
  PROVE  \E e \in todo[k] \cap locked[k], r \in Requests :
    /\ runOf[r] = "none" /\ entryOf[r] = 0 /\ entryOf'[r] = e /\ r \in made'[k]
    /\ \A q \in Requests \ {r} : entryOf'[q] = entryOf[q] /\ (Done(q) => Done(q)')
    /\ e \notin outrun => \A q \in Requests : entryOf[q] = e => q < r /\ Done(q)
    /\ \A l \in Clerks : l # k => made'[l] = made[l]
    /\ made[k] \subseteq made'[k]
    /\ DealtWith(k, e)
    /\ UNCHANGED <<locked, outrun>>
<1>1. PICK e \in todo[k] \cap locked[k], r \in Requests :
        /\ runOf[r] = "none" /\ runOf'[r] = "live" /\ entryOf'[r] = e
        /\ \A q \in Requests : entryOf[q] = e /\ saw[k][q] # "unread" => q < r
        /\ \A q \in Requests : q # r => runOf'[q] = runOf[q] /\ entryOf'[q] = entryOf[q]
        /\ made'[k] = made[k] \cup {r}
        /\ \A l \in Clerks : l # k => made'[l] = made[l]
        /\ DealtWith(k, e)
        /\ UNCHANGED <<locked, outrun, revived>>
  BY CommissionDoes
<1>2. entryOf[r] = 0
  BY <1>1 DEF HoldInv, RowsAreRuns
<1>3. \A q \in Requests \ {r} : entryOf'[q] = entryOf[q] /\ (Done(q) => Done(q)')
  BY <1>1 DEF Done
<1>4. ASSUME e \notin outrun, NEW q \in Requests, entryOf[q] = e PROVE q < r /\ Done(q)
  <2>1. Unlocked(k, e)
    BY <1>1, LockedIsUnlocked DEF HoldInv
  <2>2. saw[k][q] # "unread"
    BY <1>1, <1>4, <2>1, HeldAreLoaded DEF EntryInv
  <2> QED
    BY <1>1, <1>4, <2>2 DEF EntryInv, HeldAreDone
<1> QED
  BY <1>1, <1>2, <1>3, <1>4

LEMMA OldStep ==
  ASSUME StandingTypeOK, HoldInv, EntryInv, [StandingNext]_standingVars
  PROVE  OldAreDone'
<1> SUFFICES ASSUME NEW f \in Entries \ outrun', NEW p \in Requests, NEW q \in Requests,
                    entryOf'[p] = f, entryOf'[q] = f, p < q
             PROVE  Done(p)'
  BY DEF OldAreDone
<1>0. f \in Entries \ outrun /\ f # 0
  BY OutrunGrows, StandingAssumption
<1>1. ASSUME entryOf[p] = f, entryOf[q] = f PROVE Done(p)
  BY <1>0, <1>1 DEF EntryInv, OldAreDone
<1>2. ASSUME NEW k \in Clerks, Commission(k) PROVE Done(p)'
  <2>1. PICK e \in todo[k] \cap locked[k], r \in Requests :
          /\ entryOf'[r] = e
          /\ \A u \in Requests \ {r} : entryOf'[u] = entryOf[u] /\ (Done(u) => Done(u)')
          /\ e \notin outrun => \A u \in Requests : entryOf[u] = e => u < r /\ Done(u)
    BY <1>2, CommissionedLast
  <2>2. CASE p = r
    <3>1. q # r /\ entryOf[q] = e /\ e \notin outrun
      BY <1>0, <2>1, <2>2, StandingAssumption
    <3>2. q < r
      BY <2>1, <3>1
    <3> QED
      BY <2>2, <3>2, StandingAssumption
  <2>3. CASE p # r /\ q = r
    BY <1>0, <2>1, <2>3
  <2>4. CASE p # r /\ q # r
    BY <1>1, <2>1, <2>4
  <2> QED
    BY <2>2, <2>3, <2>4
<1>3. CASE \A k \in Clerks : ~Commission(k)
  <2>1. entryOf[p] = f /\ entryOf[q] = f /\ (Done(p) => Done(p)')
    BY <1>0, <1>3, ElseRowsStay
  <2> QED
    BY <1>1, <2>1
<1> QED
  BY <1>2, <1>3

LEMMA HeldStep ==
  ASSUME StandingTypeOK, HoldInv, EntryInv, [StandingNext]_standingVars
  PROVE  HeldAreDone'
<1> DEFINE Goal == HeldAreDone'
<1>0. \A k \in Clerks : todo[k] \subseteq Entries
  BY DEF StandingTypeOK
<1>1. ASSUME NEW k \in Clerks, Commission(k) PROVE Goal
  <2>1. PICK e \in todo[k] \cap locked[k], r \in Requests :
          /\ entryOf'[r] = e
          /\ \A u \in Requests \ {r} : entryOf'[u] = entryOf[u] /\ (Done(u) => Done(u)')
          /\ DealtWith(k, e) /\ UNCHANGED <<locked, outrun>>
    BY <1>1, CommissionedLast
  <2>2. todo'[k] = todo[k] \ {e} /\ \A l \in Clerks : l # k => todo'[l] = todo[l]
    BY <2>1, DealtWithDoes
  <2> SUFFICES ASSUME NEW l \in Clerks, NEW f \in (todo'[l] \cap locked'[l]) \ outrun',
                      NEW q \in Requests, entryOf'[q] = f
               PROVE  Done(q)'
    BY DEF HeldAreDone
  <2>3. f \in (todo[l] \cap locked[l]) \ outrun /\ f # e
    BY <2>1, <2>2 DEF HoldInv, LocksApart
  <2>4. q # r /\ entryOf[q] = f
    BY <2>1, <2>3
  <2>5. Done(q)
    BY <2>3, <2>4 DEF EntryInv, HeldAreDone
  <2> QED
    BY <2>1, <2>4, <2>5
<1>2. ASSUME NEW k \in Clerks, LockEntry(k) PROVE Goal
  <2>1. PICK e \in todo[k] :
          /\ Unlocked(k, e) /\ locked'[k] = locked[k] \cup {e}
          /\ \A l \in Clerks : l # k => locked'[l] = locked[l] /\ todo'[l] = todo[l]
          /\ todo'[k] = todo[k] \ {e} \/ (~Alive(k, e) /\ todo'[k] = todo[k])
          /\ UNCHANGED <<entryOf, runOf, revived, outrun>>
    BY <1>2, LockDoes
  <2> SUFFICES ASSUME NEW l \in Clerks, NEW f \in (todo'[l] \cap locked'[l]) \ outrun',
                      NEW q \in Requests, entryOf'[q] = f
               PROVE  Done(q)
    BY <2>1 DEF HeldAreDone, Done
  <2>2. CASE l = k /\ f = e
    BY <2>1, <2>2, NotAliveIsDone DEF EntryInv
  <2>3. CASE ~(l = k /\ f = e)
    <3>1. f \in (todo[l] \cap locked[l]) \ outrun /\ entryOf[q] = f
      BY <2>1, <2>3
    <3> QED
      BY <3>1 DEF EntryInv, HeldAreDone
  <2> QED
    BY <2>2, <2>3
<1>3. ASSUME \A k \in Clerks : ~Commission(k), [StandingNext]_standingVars,
             \A k \in Clerks : \/ todo'[k] \subseteq todo[k] /\ locked'[k] \subseteq locked[k]
                               \/ locked'[k] = {}
      PROVE  Goal
  <2> SUFFICES ASSUME NEW l \in Clerks, NEW f \in (todo'[l] \cap locked'[l]) \ outrun',
                      NEW q \in Requests, entryOf'[q] = f
               PROVE  Done(q)'
    BY DEF HeldAreDone
  <2>1. f \in (todo[l] \cap locked[l]) \ outrun
    BY <1>3, OutrunGrows
  <2>2. f # 0
    BY <1>0, <2>1, StandingAssumption
  <2>3. entryOf[q] = f /\ (Done(q) => Done(q)')
    BY <1>3, <2>2, ElseRowsStay
  <2> QED
    BY <2>1, <2>3 DEF EntryInv, HeldAreDone
<1>4. CASE \A k \in Clerks : ~Commission(k)
  <2> DEFINE Narrows == \A k \in Clerks :
               \/ todo'[k] \subseteq todo[k] /\ locked'[k] \subseteq locked[k]
               \/ locked'[k] = {}
  <2> HIDE DEF Narrows
  <2>1. ASSUME UNCHANGED <<todo, locked>> PROVE Narrows
    BY <2>1 DEF Narrows
  <2>2. ASSUME NEW k \in Clerks, NEW e \in Entries, OpenEntry(k, e) PROVE Narrows
    BY <2>2 DEF OpenEntry, Quiet, Narrows, StandingTypeOK
  <2>3. ASSUME NEW k \in Clerks, BeginDrain(k) PROVE Narrows
    BY <2>3 DEF BeginDrain, Quiet, Narrows, StandingTypeOK
  <2>4. ASSUME NEW k \in Clerks, PassOver(k) PROVE Narrows
    BY <2>4 DEF PassOver, DealtWith, Narrows, StandingTypeOK
  <2>5. ASSUME NEW k \in Clerks, Leave(k) PROVE Narrows
    BY <2>5, LeaveDoes DEF Narrows
  <2>6. ASSUME StandingNext, \A k \in Clerks : ~LockEntry(k) PROVE Narrows
    <3>1. \A k \in Clerks : ReadBudget(k) => Narrows
      BY <2>1 DEF ReadBudget
    <3>2. \A k \in Clerks : CommitClerk(k) \/ Abandon(k) => Narrows
      BY <2>5 DEF CommitClerk, Abandon
    <3>3. \A e \in Entries : StopFollowing(e) => Narrows
      BY <2>1 DEF StopFollowing, sessions
    <3>4. \A q \in Requests : RunSpends(q) \/ RunEnds(q) \/ StartOver(q) \/ PurgeRequest(q) => Narrows
      BY <2>1, RunMoves
    <3>5. StandingNext
      BY <2>6
    <3>6. \A k \in Clerks : LockEntry(k) => Narrows
      BY <2>6
    <3>7. \A k \in Clerks : Commission(k) => Narrows
      BY <1>4
    <3> QED
      BY <2>2, <2>3, <2>4, <3>1, <3>2, <3>3, <3>4, <3>5, <3>6, <3>7, StandingCases
  <2>7. ASSUME UNCHANGED standingVars PROVE Narrows
    BY <2>1, <2>7 DEF standingVars, sessions
  <2>8. (\E k \in Clerks : LockEntry(k)) \/ Narrows
    BY <2>6, <2>7
  <2>9. CASE Narrows
    BY <1>3, <1>4, <2>9 DEF Narrows
  <2> QED
    BY <1>2, <2>8, <2>9
<1> QED
  BY <1>1, <1>4

(* What a session is left with has the requests it loaded with it.         *)
LEMMA LoadedStep ==
  ASSUME StandingTypeOK, HoldInv, EntryInv, [StandingNext]_standingVars
  PROVE  AllAreLoaded'
<1> DEFINE Goal == AllAreLoaded'
           Unseen(k, r) == saw[k][r] = "unread" /\ \A l \in Clerks : r \notin made[l]
<1>0. /\ \A k \in Clerks : todo[k] \subseteq Entries
      /\ \A e \in Entries : e # 0
  BY StandingAssumption DEF StandingTypeOK
<1>1. ASSUME NEW k \in Clerks, NEW e \in todo[k] \ outrun, NEW r \in Requests, Unseen(k, r)
      PROVE  entryOf[r] # e
  BY <1>1 DEF EntryInv, AllAreLoaded
<1>2. ASSUME UNCHANGED <<entryOf, made, outrun>>,
             \A k \in Clerks : /\ todo'[k] \subseteq todo[k]
                               /\ todo'[k] # {} => \A r \in Requests :
                                    saw'[k][r] = "unread" => saw[k][r] = "unread"
      PROVE  Goal
  <2> SUFFICES ASSUME NEW l \in Clerks, NEW e \in todo'[l] \ outrun', NEW r \in Requests,
                      entryOf'[r] = e, \A m \in Clerks : r \notin made'[m]
               PROVE  saw'[l][r] # "unread"
    BY DEF AllAreLoaded
  <2>1. entryOf[r] = e /\ e \notin outrun /\ \A m \in Clerks : r \notin made[m]
    BY <1>2
  <2>2. todo'[l] \subseteq todo[l] /\ todo'[l] # {}
    BY <1>2
  <2>3. saw'[l][r] = "unread" => saw[l][r] = "unread"
    BY <1>2, <2>2
  <2> QED
    BY <1>1, <2>1, <2>2, <2>3
<1>3. ASSUME NEW k \in Clerks, UNCHANGED <<entryOf, made, outrun>>,
             \A l \in Clerks : l # k => todo'[l] = todo[l] /\ saw'[l] = saw[l],
             \A e \in todo'[k], r \in Requests :
               entryOf[r] = e /\ Committed(r) => saw'[k][r] # "unread"
      PROVE  Goal
  <2> SUFFICES ASSUME NEW l \in Clerks, NEW e \in todo'[l] \ outrun', NEW r \in Requests,
                      entryOf'[r] = e, \A m \in Clerks : r \notin made'[m], todo'[l] \subseteq Entries
               PROVE  saw'[l][r] # "unread"
    BY StandingTypeStep DEF AllAreLoaded, StandingTypeOK
  <2>1. Committed(r)
    BY <1>0, <1>3 DEF Committed, HoldInv, RowsAreRuns
  <2>2. CASE l = k
    BY <1>3, <2>1, <2>2
  <2>3. CASE l # k
    BY <1>1, <1>3, <2>3
  <2> QED
    BY <2>2, <2>3
<1>4. ASSUME NEW k \in Clerks, NEW e \in Entries, OpenEntry(k, e) PROVE Goal
  <2>1. /\ todo'[k] = {e}
        /\ \A r \in Requests : Committed(r) /\ entryOf[r] = e => saw'[k][r] # "unread"
        /\ \A l \in Clerks : l # k => todo'[l] = todo[l] /\ saw'[l] = saw[l]
    BY <1>4 DEF OpenEntry, StandingTypeOK
  <2> QED
    BY <1>3, <1>4, <2>1 DEF OpenEntry, requestRows
<1>5. ASSUME NEW k \in Clerks, BeginDrain(k) PROVE Goal
  <2>1. /\ todo'[k] = {e \in Entries : InQueue(e)}
        /\ \A r \in Requests : saw'[k][r] =
             IF Committed(r) /\ entryOf[r] # 0 /\ InQueue(entryOf[r]) THEN Loaded(r) ELSE "unread"
        /\ \A l \in Clerks : l # k => todo'[l] = todo[l] /\ saw'[l] = saw[l]
    BY <1>5 DEF BeginDrain, StandingTypeOK
  <2>2. \A r \in Requests : Loaded(r) # "unread"
    BY DEF Loaded
  <2>3. \A e \in todo'[k], r \in Requests :
          entryOf[r] = e /\ Committed(r) => saw'[k][r] # "unread"
    BY <1>0, <2>1, <2>2
  <2> QED
    BY <1>3, <1>5, <2>1, <2>3 DEF BeginDrain, requestRows
<1>6. ASSUME NEW k \in Clerks, LockEntry(k) PROVE Goal
  <2>1. \A l \in Clerks : /\ todo'[l] \subseteq todo[l]
                          /\ todo'[l] # {} => \A r \in Requests :
                               saw'[l][r] = "unread" => saw[l][r] = "unread"
    BY <1>6, LockDoes
  <2> QED
    BY <1>2, <1>6, <2>1, LockDoes
<1>7. ASSUME NEW k \in Clerks, PassOver(k) PROVE Goal
  <2>1. \A l \in Clerks : /\ todo'[l] \subseteq todo[l]
                          /\ todo'[l] # {} => \A r \in Requests :
                               saw'[l][r] = "unread" => saw[l][r] = "unread"
    BY <1>7, DealtWithDoes DEF PassOver
  <2> QED
    BY <1>2, <1>7, <2>1 DEF PassOver, requestRows
<1>8. ASSUME NEW k \in Clerks, Commission(k) PROVE Goal
  <2>1. PICK e \in todo[k], r \in Requests :
          /\ r \in made'[k] /\ made[k] \subseteq made'[k]
          /\ \A l \in Clerks : l # k => made'[l] = made[l]
          /\ \A q \in Requests \ {r} : entryOf'[q] = entryOf[q]
          /\ DealtWith(k, e) /\ UNCHANGED outrun
    BY <1>8, CommissionedLast
  <2>2. \A l \in Clerks : /\ todo'[l] \subseteq todo[l]
                          /\ todo'[l] # {} => saw'[l] = saw[l]
    BY <2>1, DealtWithDoes
  <2> SUFFICES ASSUME NEW l \in Clerks, NEW f \in todo'[l] \ outrun', NEW q \in Requests,
                      entryOf'[q] = f, \A m \in Clerks : q \notin made'[m]
               PROVE  saw'[l][q] # "unread"
    BY DEF AllAreLoaded
  <2>3. q # r /\ entryOf[q] = f /\ \A m \in Clerks : q \notin made[m]
    BY <2>1
  <2> QED
    BY <1>1, <2>1, <2>2, <2>3
<1>9. ASSUME NEW k \in Clerks, CommitClerk(k) PROVE Goal
  <2>1. /\ Leave(k) /\ entryOf' = entryOf
        /\ \A e \in Entries : (\E r \in made[k] : entryOf[r] = e)
              /\ (\E l \in Clerks \ {k} : e \in todo[l]) => e \in outrun'
    BY <1>9 DEF CommitClerk
  <2> SUFFICES ASSUME NEW l \in Clerks, NEW f \in todo'[l] \ outrun', NEW q \in Requests,
                      entryOf'[q] = f, \A m \in Clerks : q \notin made'[m]
               PROVE  saw'[l][q] # "unread"
    BY DEF AllAreLoaded
  <2>2. l # k /\ f \in todo[l] /\ saw'[l] = saw[l] /\ f \in Entries /\ f \notin outrun
    BY <1>0, <2>1, LeaveDoes, OutrunGrows
  <2>3. q \notin made[k]
    BY <2>1, <2>2
  <2>4. \A m \in Clerks : q \notin made[m]
    BY <2>1, <2>3, LeaveDoes
  <2> QED
    BY <1>1, <2>1, <2>2, <2>4
<1>10. ASSUME NEW k \in Clerks, Abandon(k) PROVE Goal
  <2>1. Leave(k) /\ outrun' = outrun
    BY <1>10, AbandonDoes
  <2> SUFFICES ASSUME NEW l \in Clerks, NEW f \in todo'[l] \ outrun', NEW q \in Requests,
                      entryOf'[q] = f, \A m \in Clerks : q \notin made'[m]
               PROVE  saw'[l][q] # "unread"
    BY DEF AllAreLoaded
  <2>2. l # k /\ f \in todo[l] /\ saw'[l] = saw[l] /\ f # 0
    BY <1>0, <2>1, LeaveDoes
  <2>3. q \notin made[k]
    BY <1>10, <2>2, AbandonDoes
  <2>4. entryOf[q] = f
    BY <1>10, <2>3, AbandonDoes
  <2>5. \A m \in Clerks : q \notin made[m]
    BY <2>1, <2>3, LeaveDoes
  <2> QED
    BY <1>1, <2>1, <2>2, <2>4, <2>5
<1>11. ASSUME NEW q \in Requests, RunSpends(q) \/ RunEnds(q) \/ StartOver(q) \/ PurgeRequest(q)
       PROVE  Goal
  <2>1. UNCHANGED <<entryOf, todo, made, outrun>>
    BY <1>11, RunMoves
  <2>2. \A k \in Clerks, r \in Requests : saw'[k][r] = "unread" => saw[k][r] = "unread"
    BY <1>11 DEF RunSpends, RunEnds, StartOver, PurgeRequest, Resee, sessions, StandingTypeOK
  <2> QED
    BY <1>2, <2>1, <2>2
<1>12. ASSUME UNCHANGED <<entryOf, todo, saw, made, outrun>> PROVE Goal
  BY <1>12 DEF EntryInv, AllAreLoaded
<1>13. CASE StandingNext
  <2> HIDE DEF Goal
  <2>1. \A k \in Clerks : ReadBudget(k) => Goal
    BY <1>12 DEF ReadBudget, requestRows
  <2>2. \A e \in Entries : StopFollowing(e) => Goal
    BY <1>12 DEF StopFollowing, requestRows, sessions
  <2>3. Goal
    BY <1>4, <1>5, <1>6, <1>7, <1>8, <1>9, <1>10, <1>11, <1>13, <2>1, <2>2, StandingCases
  <2> QED
    BY <2>3 DEF Goal
<1> QED
  BY <1>12, <1>13 DEF standingVars, requestRows, sessions

(* However many sessions commission, an entry that nobody commissions      *)
(* under another's eyes has one live run at most: the others are brought   *)
(* back by hand (commission and state_of).                                 *)
THEOREM OneRunForEachEntry == StandingSpec => []OneRunPerEntry
<1> DEFINE Inv == StandingTypeOK /\ HoldInv /\ EntryInv
<1>1. StandingInit => Inv
  <2>1. StandingInit => EntryInv
    BY StandingAssumption DEF StandingInit, EntryInv, AllAreLoaded, HeldAreDone, OldAreDone, Done
  <2> QED
    BY <2>1, StandingTypeInit, HoldInit
<1>2. Inv /\ [StandingNext]_standingVars => Inv'
  <2>1. Inv /\ [StandingNext]_standingVars => EntryInv'
    BY LoadedStep, HeldStep, OldStep DEF EntryInv
  <2> QED
    BY <2>1, StandingTypeStep, HoldStep
<1>3. Inv => OneRunPerEntry
  <2> SUFFICES ASSUME Inv, NEW r \in Requests \ revived, NEW q \in Requests \ revived,
                      runOf[r] = "live", runOf[q] = "live", entryOf[r] \notin outrun,
                      entryOf[r] = entryOf[q]
               PROVE  r = q
    BY DEF OneRunPerEntry
  <2>1. entryOf[r] \in Entries \ outrun
    BY DEF StandingTypeOK, HoldInv, RowsAreRuns
  <2>2. ~(r < q) /\ ~(q < r)
    BY <2>1 DEF EntryInv, OldAreDone, Done
  <2> QED
    BY <2>2, StandingAssumption
<1> QED
  BY <1>1, <1>2, <1>3, PTL DEF StandingSpec

-----------------------------------------------------------------------------
(* The standing budget.  What the queue owes is the cap of each live run   *)
(* and what each other run spent of its own, beside the requests that no   *)
(* reading was bound to count.  Until a session that found room commissions *)
(* or another does, there is room for one more cap beside what is owed.    *)
OfItsCap(r) == IF spent[r] < RunCap THEN spent[r] ELSE RunCap

CapsOwed == [r \in Requests |->
  CASE r \in uncounted \cup revived -> 0
    [] OTHER -> IF runOf[r] = "live" THEN RunCap ELSE OfItsCap(r)]

AllOwed == SumFunctionOnSet(CapsOwed, Requests)

RoomInv ==
  /\ AllOwed <= Budget
  /\ \A k \in Clerks \ overtaken : room[k] = "enough" => AllOwed + RunCap <= Budget

LEMMA BudgetConstants == RunCap \in Nat /\ Budget \in Nat /\ IsFiniteSet(Requests)
BY StandingAssumption

LEMMA BudgetTypes ==
  ASSUME StandingTypeOK
  PROVE  (\A r \in Requests : CapsOwed[r] \in Nat /\ CapsOwed[r] <= RunCap) /\ AllOwed \in Nat
<1>1. \A r \in Requests : OfItsCap(r) \in Nat /\ OfItsCap(r) <= RunCap
  BY BudgetConstants DEF OfItsCap, StandingTypeOK
<1>2. \A r \in Requests : CapsOwed[r] \in Nat /\ CapsOwed[r] <= RunCap
  BY <1>1, BudgetConstants DEF CapsOwed
<1> QED
  BY <1>2, BudgetConstants, SumType DEF AllOwed

LEMMA BudgetTypesNext ==
  ASSUME StandingTypeOK'
  PROVE  (\A r \in Requests : CapsOwed'[r] \in Nat /\ CapsOwed'[r] <= RunCap) /\ AllOwed' \in Nat
<1>1. \A r \in Requests : OfItsCap(r)' \in Nat /\ OfItsCap(r)' <= RunCap
  BY BudgetConstants DEF OfItsCap, StandingTypeOK
<1>2. \A r \in Requests : CapsOwed'[r] \in Nat /\ CapsOwed'[r] <= RunCap
  BY <1>1, BudgetConstants DEF CapsOwed
<1> QED
  BY <1>2, BudgetConstants, SumType DEF AllOwed

(* Where nothing more is owed and no reading is thought better than it was, *)
(* there is the room there was.                                            *)
LEMMA NoMoreOwed ==
  ASSUME StandingTypeOK, StandingTypeOK', RoomInv,
         \A r \in Requests : CapsOwed'[r] <= CapsOwed[r],
         \A k \in Clerks \ overtaken' :
           room'[k] = "enough" => k \notin overtaken /\ room[k] = "enough"
  PROVE  RoomInv'
<1>1. /\ \A r \in Requests : CapsOwed[r] \in Nat /\ CapsOwed'[r] \in Nat
      /\ AllOwed \in Nat /\ AllOwed' \in Nat /\ RunCap \in Nat /\ Budget \in Nat
      /\ IsFiniteSet(Requests)
  BY BudgetConstants, BudgetTypes, BudgetTypesNext
<1>2. AllOwed' <= AllOwed
  BY <1>1, SumLess DEF AllOwed
<1>3. AllOwed' <= Budget
  BY <1>1, <1>2 DEF RoomInv
<1>4. ASSUME NEW k \in Clerks \ overtaken', room'[k] = "enough"
      PROVE  AllOwed' + RunCap <= Budget
  <2>1. AllOwed + RunCap <= Budget
    BY <1>4 DEF RoomInv
  <2> QED
    BY <1>1, <1>2, <2>1
<1> QED
  BY <1>3, <1>4 DEF RoomInv

(* A reading that nobody has overtaken counts all that is owed.            *)
LEMMA ReadingCounts ==
  ASSUME StandingTypeOK, HoldInv, NEW k \in Clerks, \A l \in Clerks \ {k} : made[l] = {},
         CanAfford(k)
  PROVE  AllOwed + RunCap <= Budget
<1> DEFINE f == [r \in Requests |-> IF Counts(k, r) THEN Charged(k, r) ELSE 0]
<1>1. SumFunctionOnSet(f, Requests) + RunCap <= Budget
  BY DEF CanAfford, SumFunction
<1>2. ASSUME NEW r \in Requests PROVE f[r] \in Nat /\ CapsOwed[r] <= f[r]
  <2>1. /\ RunCap \in Nat /\ spent[r] \in Nat /\ OfItsCap(r) \in Nat
        /\ OfItsCap(r) <= spent[r] /\ OfItsCap(r) <= RunCap
    BY BudgetConstants DEF OfItsCap, StandingTypeOK
  <2>2. f[r] = IF Counts(k, r) THEN Charged(k, r) ELSE 0
    OBVIOUS
  <2> HIDE DEF f
  <2>3. Charged(k, r) \in Nat
    BY <2>1 DEF Charged
  <2>4. CASE r \in uncounted \cup revived
    BY <2>2, <2>3, <2>4 DEF CapsOwed
  <2>5. CASE runOf[r] = "none"
    <3>1. spent[r] = 0
      BY <2>5 DEF HoldInv, RowsAreRuns
    <3>2. OfItsCap(r) = 0
      BY <2>1, <3>1
    <3>3. CapsOwed[r] = 0
      BY <2>5, <3>2 DEF CapsOwed
    <3> QED
      BY <2>2, <2>3, <3>3
  <2>6. CASE runOf[r] # "none" /\ r \notin uncounted \cup revived
    <3>1. Counts(k, r)
      BY <2>6 DEF Counts, Committed
    <3>2. CapsOwed[r] = IF runOf[r] = "live" THEN RunCap ELSE OfItsCap(r)
      BY <2>6 DEF CapsOwed
    <3>3. saw[k][r] \in Views /\ saw[k][r] # "gone" /\ (saw[k][r] = "dead" => runOf[r] # "live")
      BY <2>6 DEF HoldInv, SeenWasSo, StandingTypeOK
    <3>4. CASE LooksLike(k, r) = "deleted"
      BY <2>1, <2>2, <2>3, <3>1, <3>2, <3>4 DEF Charged
    <3>5. CASE LooksLike(k, r) = "live"
      <4>1. Charged(k, r) = IF spent[r] < RunCap THEN RunCap ELSE spent[r]
        BY <3>5 DEF Charged
      <4> QED
        BY <2>1, <2>2, <2>3, <3>1, <3>2, <4>1
    <3>6. CASE LooksLike(k, r) \notin {"deleted", "live"}
      <4>1. LooksLike(k, r) # "gone" /\ runOf[r] # "live"
        <5>1. runOf[r] \in RunStatuses
          BY DEF StandingTypeOK
        <5> QED
          BY <3>3, <3>6, <5>1 DEF LooksLike, Views, RunStatuses
      <4>2. Charged(k, r) = spent[r]
        BY <3>6, <4>1 DEF Charged
      <4> QED
        BY <2>1, <2>2, <3>1, <3>2, <4>1, <4>2
    <3> QED
      BY <3>4, <3>5, <3>6
  <2> QED
    BY <2>4, <2>5, <2>6
<1>3. /\ \A r \in Requests : CapsOwed[r] \in Nat
      /\ AllOwed \in Nat /\ RunCap \in Nat /\ Budget \in Nat /\ IsFiniteSet(Requests)
  BY BudgetConstants, BudgetTypes
<1> HIDE DEF f
<1>4. AllOwed <= SumFunctionOnSet(f, Requests)
  BY <1>2, <1>3, SumLess DEF AllOwed
<1>5. SumFunctionOnSet(f, Requests) \in Nat
  BY <1>2, <1>3, SumType
<1> QED
  BY <1>1, <1>3, <1>4, <1>5

LEMMA RoomStep ==
  ASSUME StandingTypeOK, HoldInv, RoomInv, [StandingNext]_standingVars
  PROVE  RoomInv'
<1> DEFINE Goal == RoomInv'
<1>0. StandingTypeOK'
  BY StandingTypeStep
<1>same. ASSUME UNCHANGED <<runOf, spent, uncounted, revived, room, overtaken>> PROVE Goal
  <2>1. CapsOwed' = CapsOwed
    BY <1>same DEF CapsOwed, OfItsCap
  <2> QED
    BY <1>same, <2>1 DEF RoomInv, AllOwed
<1>1. ASSUME NEW k \in Clerks, ReadBudget(k) PROVE Goal
  <2>1. UNCHANGED <<runOf, spent, uncounted, revived>>
    BY <1>1 DEF ReadBudget, requestRows
  <2>2. CapsOwed' = CapsOwed /\ AllOwed' = AllOwed
    BY <2>1 DEF CapsOwed, OfItsCap, AllOwed
  <2>3. ASSUME NEW l \in Clerks \ overtaken', room'[l] = "enough"
        PROVE  AllOwed + RunCap <= Budget
    <3>1. CASE l # k
      <4>1. l \notin overtaken /\ room[l] = "enough"
        BY <1>1, <2>3, <3>1 DEF ReadBudget, StandingTypeOK
      <4> QED
        BY <4>1 DEF RoomInv
    <3>2. CASE l = k
      <4>1. CanAfford(k)
        BY <1>1, <2>3, <3>2 DEF ReadBudget, StandingTypeOK
      <4>2. \A m \in Clerks \ {k} : made[m] = {}
        BY <1>1, <2>3, <3>2 DEF ReadBudget
      <4> QED
        BY <4>1, <4>2, ReadingCounts
    <3> QED
      BY <3>1, <3>2
  <2> QED
    BY <2>2, <2>3 DEF RoomInv
<1>2. ASSUME NEW k \in Clerks, Commission(k) PROVE Goal
  <2>1. PICK r \in Requests :
          /\ runOf[r] = "none" /\ room[k] = "enough" /\ room'[k] = "unread"
          /\ \A q \in Requests : q # r => runOf'[q] = runOf[q]
          /\ \A l \in Clerks : l # k => room'[l] = room[l]
          /\ overtaken' = (overtaken \cup {l \in Clerks : room[l] # "unread"}) \ {k}
          /\ uncounted' = IF k \in overtaken THEN uncounted \cup {r} ELSE uncounted
          /\ UNCHANGED <<spent, revived>>
    BY <1>2, CommissionDoes
  <2>2. \A l \in Clerks \ overtaken' : room'[l] # "enough"
    BY <2>1
  <2>3. \A q \in Requests : q # r => CapsOwed'[q] = CapsOwed[q]
    <3>1. \A q \in Requests : OfItsCap(q)' = OfItsCap(q)
      BY <2>1 DEF OfItsCap
    <3>2. \A q \in Requests : q # r => (q \in uncounted' \cup revived' <=> q \in uncounted \cup revived)
      BY <2>1
    <3> HIDE DEF OfItsCap
    <3> QED
      BY <2>1, <3>1, <3>2 DEF CapsOwed
  <2>4. CASE k \in overtaken
    <3>1. CapsOwed'[r] = 0 /\ CapsOwed[r] \in Nat
      BY <2>1, <2>4, BudgetTypes DEF CapsOwed
    <3>2. \A q \in Requests : CapsOwed'[q] <= CapsOwed[q]
      <4>1. \A q \in Requests : CapsOwed[q] \in Nat
        BY BudgetTypes
      <4> QED
        BY <2>3, <3>1, <4>1
    <3> QED
      BY <1>0, <2>2, <3>2, NoMoreOwed
  <2>5. CASE k \notin overtaken
    <3>1. AllOwed + RunCap <= Budget
      BY <2>1, <2>5 DEF RoomInv
    <3>2. /\ \A q \in Requests : CapsOwed[q] \in Nat /\ CapsOwed'[q] \in Nat
          /\ CapsOwed'[r] <= RunCap /\ AllOwed \in Nat /\ AllOwed' \in Nat
          /\ RunCap \in Nat /\ Budget \in Nat /\ IsFiniteSet(Requests)
      BY <1>0, BudgetConstants, BudgetTypes, BudgetTypesNext
    <3>3. AllOwed' + CapsOwed[r] = AllOwed + CapsOwed'[r]
      BY <2>1, <2>3, <3>2, SumChanged DEF AllOwed
    <3>4. AllOwed' <= Budget
      BY <3>1, <3>2, <3>3
    <3> QED
      BY <2>2, <3>4 DEF RoomInv
  <2> QED
    BY <2>4, <2>5
<1>3. ASSUME NEW k \in Clerks, Leave(k), \A r \in Requests : CapsOwed'[r] <= CapsOwed[r] PROVE Goal
  <2>1. \A l \in Clerks \ overtaken' : room'[l] = "enough" => l \notin overtaken /\ room[l] = "enough"
    BY <1>3, LeaveDoes DEF Leave
  <2> QED
    BY <1>0, <1>3, <2>1, NoMoreOwed
<1>4. ASSUME NEW k \in Clerks, CommitClerk(k) PROVE Goal
  <2>1. UNCHANGED <<runOf, spent, uncounted, revived>> /\ Leave(k)
    BY <1>4 DEF CommitClerk, Leave
  <2>2. CapsOwed' = CapsOwed
    BY <2>1 DEF CapsOwed, OfItsCap
  <2>3. \A r \in Requests : CapsOwed'[r] <= CapsOwed[r]
    BY <2>2, BudgetTypes
  <2> QED
    BY <1>3, <2>1, <2>3
<1>5. ASSUME NEW k \in Clerks, Abandon(k) PROVE Goal
  <2>1. /\ Leave(k) /\ UNCHANGED <<spent, revived>> /\ uncounted' = uncounted \ made[k]
        /\ \A r \in Requests \ made[k] : runOf'[r] = runOf[r]
        /\ \A r \in made[k] : runOf'[r] = "none" /\ spent[r] = 0
    BY <1>5, AbandonDoes DEF Leave, HoldInv, MadeAreHeld
  <2>2. \A r \in Requests : CapsOwed[r] \in Nat /\ OfItsCap(r)' = OfItsCap(r)
    BY <2>1, BudgetTypes DEF OfItsCap
  <2>3. ASSUME NEW r \in Requests PROVE CapsOwed'[r] <= CapsOwed[r]
    <3>1. CASE r \in made[k]
      <4>1. OfItsCap(r) = 0
        BY <2>1, <3>1, BudgetConstants DEF OfItsCap
      <4>2. CapsOwed'[r] = 0
        BY <2>1, <2>2, <3>1, <4>1 DEF CapsOwed
      <4> QED
        BY <2>2, <4>2
    <3>2. CASE r \notin made[k]
      <4>1. CapsOwed'[r] = CapsOwed[r]
        <5> HIDE DEF OfItsCap
        <5> QED
          BY <2>1, <2>2, <3>2 DEF CapsOwed
      <4> QED
        BY <2>2, <4>1
    <3> QED
      BY <3>1, <3>2
  <2> QED
    BY <1>3, <2>1, <2>3
<1>6. ASSUME NEW r \in Requests, RunSpends(r) \/ RunEnds(r) \/ StartOver(r) \/ PurgeRequest(r)
      PROVE  Goal
  <2>1. /\ \A q \in Requests : q # r => runOf'[q] = runOf[q] /\ spent'[q] = spent[q]
        /\ UNCHANGED <<room, overtaken>>
    BY <1>6, RunMoves
  <2>2. /\ \A q \in Requests : q # r => (q \in uncounted' \cup revived' <=> q \in uncounted \cup revived)
        /\ r \in uncounted \cup revived => r \in uncounted' \cup revived'
    BY <1>6 DEF RunSpends, RunEnds, StartOver, PurgeRequest
  <2>3. \/ runOf[r] = "live" /\ runOf'[r] = "live"
        \/ runOf'[r] # "live" /\ spent'[r] = spent[r]
        \/ r \in revived'
    <3>1. CASE RunSpends(r)
      BY <3>1 DEF RunSpends
    <3>2. CASE RunEnds(r)
      BY <3>2 DEF RunEnds, StandingTypeOK
    <3>3. CASE StartOver(r)
      BY <3>3 DEF StartOver
    <3>4. CASE PurgeRequest(r)
      BY <3>4 DEF PurgeRequest, StandingTypeOK
    <3> QED
      BY <1>6, <3>1, <3>2, <3>3, <3>4
  <2>4. ASSUME NEW q \in Requests PROVE CapsOwed'[q] <= CapsOwed[q]
    <3>1. CapsOwed[q] \in Nat /\ CapsOwed'[q] \in Nat /\ CapsOwed'[q] <= RunCap /\ RunCap \in Nat
      BY <1>0, BudgetConstants, BudgetTypes, BudgetTypesNext
    <3>2. CASE q # r
      <4>1. OfItsCap(q)' = OfItsCap(q)
        BY <2>1, <3>2 DEF OfItsCap
      <4>2. CapsOwed'[q] = CapsOwed[q]
        <5> HIDE DEF OfItsCap
        <5> QED
          BY <2>1, <2>2, <3>2, <4>1 DEF CapsOwed
      <4> QED
        BY <3>1, <4>2
    <3>3. CASE q = r /\ q \in uncounted' \cup revived'
      BY <3>1, <3>3 DEF CapsOwed
    <3>4. CASE q = r /\ q \notin uncounted' \cup revived' /\ runOf[q] = "live"
      <4>1. CapsOwed[q] = RunCap
        BY <2>2, <3>4 DEF CapsOwed
      <4> QED
        BY <3>1, <4>1
    <3>5. CASE q = r /\ q \notin uncounted' \cup revived' /\ runOf[q] # "live"
      <4>1. OfItsCap(q)' = OfItsCap(q) /\ runOf'[q] # "live"
        BY <2>3, <3>5 DEF OfItsCap
      <4>2. CapsOwed'[q] = CapsOwed[q]
        <5> HIDE DEF OfItsCap
        <5> QED
          BY <2>2, <3>5, <4>1 DEF CapsOwed
      <4> QED
        BY <3>1, <4>2
    <3> QED
      BY <3>2, <3>3, <3>4, <3>5
  <2> QED
    BY <1>0, <2>1, <2>4, NoMoreOwed
<1>7. CASE StandingNext
  <2> HIDE DEF Goal
  <2>1. \A k \in Clerks, e \in Entries : OpenEntry(k, e) => Goal
    BY <1>same DEF OpenEntry, requestRows
  <2>2. \A k \in Clerks : BeginDrain(k) \/ PassOver(k) => Goal
    BY <1>same DEF BeginDrain, PassOver, requestRows
  <2>3. \A k \in Clerks : LockEntry(k) => Goal
    BY <1>same, LockDoes
  <2>4. \A e \in Entries : StopFollowing(e) => Goal
    BY <1>same DEF StopFollowing, requestRows, sessions
  <2>5. Goal
    BY <1>1, <1>2, <1>4, <1>5, <1>6, <1>7, <2>1, <2>2, <2>3, <2>4, StandingCases
  <2> QED
    BY <2>5 DEF Goal
<1> QED
  BY <1>same, <1>7 DEF standingVars, requestRows, sessions

(* What the queue's runs spend of their caps stays within the standing     *)
(* budget: whatever session commissions, gives up, commits, purges or      *)
(* brings back (standing_budget and commission).                           *)
THEOREM CommissionsFit == StandingSpec => []CommissionsFitTheBudget
<1> DEFINE Inv == StandingTypeOK /\ HoldInv /\ RoomInv
<1>1. StandingInit => Inv
  <2> SUFFICES ASSUME StandingInit PROVE Inv
    OBVIOUS
  <2>1. StandingTypeOK /\ HoldInv
    BY StandingTypeInit, HoldInit
  <2>2. \A r \in Requests : CapsOwed[r] = 0
    BY BudgetConstants DEF StandingInit, CapsOwed, OfItsCap
  <2>3. AllOwed = 0
    BY <2>2, BudgetConstants, SumOfNothing DEF AllOwed
  <2>4. \A k \in Clerks : room[k] # "enough"
    BY DEF StandingInit
  <2> QED
    BY <2>1, <2>3, <2>4, BudgetConstants DEF RoomInv
<1>2. Inv /\ [StandingNext]_standingVars => Inv'
  BY StandingTypeStep, HoldStep, RoomStep
<1>3. Inv => CommissionsFitTheBudget
  <2> SUFFICES ASSUME Inv PROVE CommissionsFitTheBudget
    OBVIOUS
  <2> DEFINE counted == Requests \ (uncounted \cup revived)
             f == [r \in counted |-> IF spent[r] < RunCap THEN spent[r] ELSE RunCap]
  <2>1. /\ RunCap \in Nat /\ Budget \in Nat /\ IsFiniteSet(Requests)
        /\ \A r \in Requests : CapsOwed[r] \in Nat
        /\ AllOwed \in Nat /\ AllOwed <= Budget
    BY BudgetConstants, BudgetTypes DEF RoomInv
  <2>2. \A r \in counted : f[r] \in Nat /\ f[r] <= CapsOwed[r]
    BY <2>1 DEF CapsOwed, OfItsCap, StandingTypeOK
  <2>3. CommissionsFitTheBudget <=> SumFunctionOnSet(f, counted) <= Budget
    BY DEF CommissionsFitTheBudget, SumFunction
  <2>4. counted \in SUBSET Requests
    OBVIOUS
  <2> HIDE DEF f, counted
  <2>5. IsFiniteSet(counted)
    BY <2>1, <2>4, FS_Subset
  <2>6. SumFunctionOnSet(f, counted) <= SumFunctionOnSet(CapsOwed, counted)
    BY <2>1, <2>2, <2>4, <2>5, SumLess
  <2>7. SumFunctionOnSet(CapsOwed, counted) <= AllOwed
    BY <2>1, <2>4, SumOfPart DEF AllOwed
  <2>8. SumFunctionOnSet(f, counted) \in Nat /\ SumFunctionOnSet(CapsOwed, counted) \in Nat
    BY <2>1, <2>2, <2>4, <2>5, SumType
  <2> QED
    BY <2>1, <2>3, <2>6, <2>7, <2>8
<1> QED
  BY <1>1, <1>2, <1>3, PTL DEF StandingSpec

-----------------------------------------------------------------------------
(* Requests: the actions by what they change.                              *)
LEMMA RequestCases ==
  ASSUME RequestsNext,
         NEW Goal,
         \A t \in Tabs, op \in Ops : ReadRequest(t, op) => Goal,
         \A t \in Tabs : CommitStart(t) => Goal,
         \A t \in Tabs : CommitContinue(t) => Goal,
         \A t \in Tabs : CommitEdit(t) => Goal,
         \A t \in Tabs : CommitRemoval(t) => Goal,
         \A j \in Runs : Begin(j) => Goal,
         \A j \in Runs : Gather(j) => Goal,
         \A j \in Runs : WriteReport(j) => Goal,
         \A j \in Runs : EndRun(j) => Goal
  PROVE  Goal
BY DEF RequestsNext, Handler

-----------------------------------------------------------------------------
(* Types.                                                                  *)

LEMMA RequestsTypeInit == RequestsInit => RequestsTypeOK
<1> SUFFICES ASSUME RequestsInit PROVE RequestsTypeOK
  OBVIOUS
<1> USE DEF RequestsInit
<1>1. run \in [Runs -> {"none", "live", "dead", "done"}]
  OBVIOUS
<1>2. latest \in {None} \cup {{j} : j \in Runs}
  OBVIOUS
<1>3. loaded \in [Runs -> SUBSET Nat]
  BY DEF None
<1>4. tab \in [Tabs -> Pending]
  BY DEF Pending
<1>5. terms \in Nat /\ evidence \subseteq Nat /\ reports \subseteq [job : Runs, terms : Nat]
  OBVIOUS
<1>6. present \in BOOLEAN
  OBVIOUS
<1> QED
  BY <1>1, <1>2, <1>3, <1>4, <1>5, <1>6 DEF RequestsTypeOK

LEMMA RequestsTypeStep == RequestsTypeOK /\ [RequestsNext]_requestVars => RequestsTypeOK'
<1> SUFFICES ASSUME RequestsTypeOK, [RequestsNext]_requestVars PROVE RequestsTypeOK'
  OBVIOUS
<1> DEFINE Goal == RequestsTypeOK'
<1> USE DEF RequestsTypeOK
<1>tab. \A t \in Tabs : \A do, on : Committing(t, do, on) => tab' \in [Tabs -> Pending]
  BY DEF Committing, Pending
<1>1. ASSUME NEW t \in Tabs, NEW op \in Ops, ReadRequest(t, op) PROVE Goal
  <2>1. tab' \in [Tabs -> Pending]
    BY <1>1 DEF ReadRequest, Pending
  <2> QED
    BY <1>1, <2>1 DEF ReadRequest
<1>2. ASSUME NEW t \in Tabs, CommitStart(t) PROVE Goal
  BY <1>2, <1>tab DEF CommitStart
<1>3. ASSUME NEW t \in Tabs, CommitContinue(t) PROVE Goal
  BY <1>3, <1>tab DEF CommitContinue
<1>4. ASSUME NEW t \in Tabs, CommitEdit(t) PROVE Goal
  BY <1>4, <1>tab DEF CommitEdit
<1>5. ASSUME NEW t \in Tabs, CommitRemoval(t) PROVE Goal
  BY <1>5, <1>tab DEF CommitRemoval
<1>6. ASSUME NEW j \in Runs, Begin(j) PROVE Goal
  BY <1>6 DEF Begin
<1>7. ASSUME NEW j \in Runs, Gather(j) PROVE Goal
  BY <1>7 DEF Gather
<1>8. ASSUME NEW j \in Runs, WriteReport(j) PROVE Goal
  BY <1>8 DEF WriteReport
<1>9. ASSUME NEW j \in Runs, EndRun(j) PROVE Goal
  <2>1. run' \in [Runs -> {"none", "live", "dead", "done"}]
    BY <1>9 DEF EndRun
  <2>2. loaded' \in [Runs -> SUBSET Nat]
    BY <1>9 DEF EndRun, None
  <2> QED
    BY <1>9, <2>1, <2>2 DEF EndRun
<1>10. CASE UNCHANGED requestVars
  BY <1>10 DEF requestVars
<1>11. CASE RequestsNext
  <2> HIDE DEF Goal
  <2>1. Goal
    BY <1>1, <1>2, <1>3, <1>4, <1>5, <1>6, <1>7, <1>8, <1>9, <1>11, RequestCases
  <2> QED
    BY <2>1 DEF Goal
<1> QED
  BY <1>10, <1>11

(* Every part of a request's record keeps its type, whatever tabs do.      *)
THEOREM RequestsTypeCorrect == RequestsSpec => []RequestsTypeOK
BY RequestsTypeInit, RequestsTypeStep, PTL DEF RequestsSpec

-----------------------------------------------------------------------------
(* One handler at a time.  What it read is still so when it commits, for   *)
(* a worker can end a run and add to the record of the newest one only:    *)
(* no step of a worker makes a run live.                                   *)

StillSo(t) == \A op \in tab[t] :
  /\ op.do # "continue" => \A j \in Runs : ~IsLive(j)
  /\ op.do = "start" => reports = {}
  /\ op.do = "edit" => reports = {} /\ evidence = {}
  /\ op.do = "continue" => op.on = latest /\ \A j \in op.on : run[j] = "dead"

RecordInv ==
  /\ \A j \in Runs : IsLive(j) => latest = {j}
  /\ \A j \in Runs : loaded[j] # None => IsLive(j) /\ loaded[j] = {terms}
  /\ \A r \in reports : r.terms = terms /\ latest = {r.job}
  /\ evidence \subseteq {terms}
  /\ latest = None => evidence = {}

LEMMA ReadIsSo ==
  ASSUME NEW t \in Tabs, NEW op \in Ops, ~ContinuesOld,
         RequestsTypeOK, RecordInv, ReadRequest(t, op)
  PROVE  /\ op.do # "continue" => \A j \in Runs : ~IsLive(j)
         /\ op.do = "start" => reports = {}
         /\ op.do = "edit" => reports = {} /\ evidence = {}
         /\ op.do = "continue" => op.on = latest /\ \A j \in op.on : run[j] = "dead"
<1> USE DEF ReadRequest, RequestsTypeOK
<1>0. reports # {} => latest # None
  BY DEF RecordInv, None
<1>1. CASE op.do = "start"
  <2>1. \A j \in latest : MayBeSuperseded(j)
    BY <1>1 DEF May
  <2>2. \A j \in Runs : ~IsLive(j)
    BY <2>1 DEF RecordInv, MayBeSuperseded
  <2>3. reports = {}
    BY <2>1 DEF RecordInv, MayBeSuperseded, HasReported
  <2> QED
    BY <1>1, <2>2, <2>3
<1>2. CASE op.do \in {"edit", "delete"}
  <2>1. ~Immutable
    BY <1>2 DEF May
  <2>2. \A j \in Runs : ~IsLive(j)
    BY <2>1 DEF Immutable, RecordInv
  <2>3. reports = {} /\ evidence = {}
    BY <1>0, <2>1 DEF Immutable, RecordInv
  <2> QED
    BY <1>2, <2>2, <2>3
<1>3. CASE op.do = "purge"
  <2>1. Purgeable
    BY <1>3 DEF May
  <2>2. \A j \in Runs : ~IsLive(j)
    BY <2>1 DEF Purgeable, RecordInv
  <2> QED
    BY <1>3, <2>2
<1>4. CASE op.do = "continue"
  <2>1. \A j \in op.on : run[j] = "dead"
    BY <1>4 DEF May
  <2>2. PICK j \in Runs : op.on = {j}
    BY <1>4 DEF Ops
  <2>3. op.on = latest
    BY <2>2 DEF Chosen, None
  <2> QED
    BY <1>4, <2>1, <2>3
<1> QED
  BY <1>1, <1>2, <1>3, <1>4 DEF Ops

LEMMA RecordStep ==
  ASSUME NEW t, Tabs = {t}, ~ContinuesOld,
         RequestsTypeOK, RecordInv, StillSo(t), [RequestsNext]_requestVars
  PROVE  RecordInv' /\ StillSo(t)'
<1> DEFINE Goal == RecordInv' /\ StillSo(t)'
<1> USE DEF RequestsTypeOK, IsLive
<1>0. \A u \in Tabs : u = t
  OBVIOUS
<1>tab. \A do, on : Committing(t, do, on) =>
          /\ [do |-> do, on |-> on] \in tab[t]
          /\ tab'[t] = {}
  BY DEF Committing, None
<1>so. \A do, on : Committing(t, do, on) =>
         /\ do # "continue" => \A j \in Runs : ~IsLive(j)
         /\ do = "start" => reports = {}
         /\ do = "edit" => reports = {} /\ evidence = {}
         /\ do = "continue" => on = latest /\ \A j \in on : run[j] = "dead"
  <2> SUFFICES ASSUME NEW do, NEW on, Committing(t, do, on)
               PROVE  /\ do # "continue" => \A j \in Runs : ~IsLive(j)
                      /\ do = "start" => reports = {}
                      /\ do = "edit" => reports = {} /\ evidence = {}
                      /\ do = "continue" => on = latest /\ \A j \in on : run[j] = "dead"
    OBVIOUS
  <2> DEFINE op == [do |-> do, on |-> on]
  <2>1. op \in tab[t] /\ op.do = do /\ op.on = on
    BY <1>tab
  <2> QED
    BY <2>1 DEF StillSo
<1>1. ASSUME NEW u \in Tabs, NEW op \in Ops, ReadRequest(u, op) PROVE Goal
  <2>1. u = t
    OBVIOUS
  <2>2. RecordInv'
    BY <1>1 DEF ReadRequest, RecordInv
  <2>3. tab'[t] = {op}
    BY <1>1, <2>1 DEF ReadRequest
  <2>4. UNCHANGED <<run, latest, evidence, reports>>
    BY <1>1 DEF ReadRequest
  <2>5. StillSo(t)'
    BY <1>1, <2>1, <2>3, <2>4, ReadIsSo DEF StillSo
  <2> QED
    BY <2>2, <2>5
<1>2. ASSUME NEW u \in Tabs, CommitStart(u) PROVE Goal
  <2>1. PICK j \in Runs :
          /\ Committing(t, "start", None)
          /\ run[j] = "none"
          /\ run' = [run EXCEPT ![j] = "live"]
          /\ latest' = {j}
          /\ UNCHANGED <<terms, loaded, evidence, reports, present>>
    BY <1>0, <1>2 DEF CommitStart
  <2>2. (\A k \in Runs : ~IsLive(k)) /\ reports = {}
    BY <1>so, <2>1
  <2>3. \A k \in Runs : run'[k] = "live" => k = j
    BY <2>1, <2>2
  <2>4. \A k \in Runs : loaded'[k] = None
    BY <2>1, <2>2 DEF RecordInv
  <2>5. RecordInv'
    BY <2>1, <2>2, <2>3, <2>4 DEF RecordInv, None
  <2> QED
    BY <1>tab, <2>1, <2>5 DEF StillSo
<1>3. ASSUME NEW u \in Tabs, CommitContinue(u) PROVE Goal
  <2>1. PICK j \in Runs :
          /\ Committing(t, "continue", {j})
          /\ run' = [run EXCEPT ![j] = "live"]
          /\ UNCHANGED <<terms, latest, loaded, evidence, reports, present>>
    BY <1>0, <1>3 DEF CommitContinue
  <2>2. latest = {j} /\ run[j] = "dead"
    BY <1>so, <2>1
  <2>3. \A k \in Runs : run'[k] = "live" => latest = {k}
    BY <2>1, <2>2 DEF RecordInv
  <2>4. \A k \in Runs : loaded[k] # None => run'[k] = "live"
    BY <2>1 DEF RecordInv
  <2>5. RecordInv'
    BY <2>1, <2>3, <2>4 DEF RecordInv
  <2> QED
    BY <1>tab, <2>1, <2>5 DEF StillSo
<1>4. ASSUME NEW u \in Tabs, CommitEdit(u) PROVE Goal
  <2>1. /\ Committing(t, "edit", None)
        /\ UNCHANGED <<run, latest, loaded, evidence, reports>>
    BY <1>0, <1>4 DEF CommitEdit
  <2>2. (\A k \in Runs : ~IsLive(k)) /\ reports = {} /\ evidence = {}
    BY <1>so, <2>1
  <2>3. \A k \in Runs : loaded[k] = None
    BY <2>2 DEF RecordInv
  <2>4. RecordInv'
    BY <2>1, <2>2, <2>3 DEF RecordInv
  <2> QED
    BY <1>tab, <2>1, <2>4 DEF StillSo
<1>5. ASSUME NEW u \in Tabs, CommitRemoval(u) PROVE Goal
  <2>1. /\ tab'[t] = {}
        /\ UNCHANGED <<terms, run, latest, loaded, evidence, reports>>
    BY <1>0, <1>tab, <1>5 DEF CommitRemoval
  <2> QED
    BY <2>1 DEF RecordInv, StillSo
<1>6. ASSUME NEW j \in Runs, Begin(j) PROVE Goal
  BY <1>6 DEF Begin, RecordInv, StillSo
<1>7. ASSUME NEW j \in Runs, Gather(j) PROVE Goal
  <2>1. loaded[j] = {terms} /\ run[j] = "live" /\ latest = {j}
    BY <1>7 DEF Gather, RecordInv
  <2>2. UNCHANGED <<terms, run, latest, loaded, reports, tab>> /\ evidence' \subseteq {terms}
    BY <1>7, <2>1 DEF Gather, RecordInv
  <2>3. RecordInv'
    BY <2>1, <2>2 DEF RecordInv, None
  <2>4. \A op \in tab[t] : op.do = "continue"
    BY <2>1 DEF StillSo
  <2> QED
    BY <2>2, <2>3, <2>4 DEF StillSo
<1>8. ASSUME NEW j \in Runs, WriteReport(j) PROVE Goal
  <2>1. loaded[j] = {terms} /\ run[j] = "live" /\ latest = {j}
    BY <1>8 DEF WriteReport, RecordInv, None
  <2>2. /\ UNCHANGED <<terms, run, latest, loaded, evidence, tab>>
        /\ reports' = reports \cup {[job |-> j, terms |-> terms]}
    BY <1>8, <2>1 DEF WriteReport
  <2>3. RecordInv'
    BY <2>1, <2>2 DEF RecordInv
  <2>4. \A op \in tab[t] : op.do = "continue"
    BY <2>1 DEF StillSo
  <2> QED
    BY <2>2, <2>3, <2>4 DEF StillSo
<1>9. ASSUME NEW j \in Runs, EndRun(j) PROVE Goal
  <2>1. /\ run[j] = "live"
        /\ loaded' = [loaded EXCEPT ![j] = None]
        /\ UNCHANGED <<terms, latest, evidence, reports, tab>>
    BY <1>9 DEF EndRun
  <2>2. \A k \in Runs : run'[k] = "live" => k # j /\ run[k] = "live"
    BY <1>9 DEF EndRun
  <2>3. \A k \in Runs : k # j => run'[k] = run[k]
    BY <1>9 DEF EndRun
  <2>4. RecordInv'
    BY <2>1, <2>2, <2>3 DEF RecordInv
  <2>5. \A k \in Runs : run[k] = "dead" => run'[k] = "dead"
    BY <2>1, <2>3
  <2>6. \A op \in tab[t] : op.do = "continue"
    BY <2>1 DEF StillSo
  <2>7. \A op \in tab[t] : op.on \subseteq Runs
    BY <2>6 DEF StillSo, None
  <2> QED
    BY <2>1, <2>4, <2>5, <2>6, <2>7 DEF StillSo
<1>10. CASE UNCHANGED requestVars
  BY <1>10 DEF requestVars, RecordInv, StillSo
<1>11. CASE RequestsNext
  <2> HIDE DEF Goal
  <2>1. Goal
    BY <1>1, <1>2, <1>3, <1>4, <1>5, <1>6, <1>7, <1>8, <1>9, <1>11, RequestCases
  <2> QED
    BY <2>1 DEF Goal
<1> QED
  BY <1>10, <1>11

RequestsInv(t) == RequestsTypeOK /\ RecordInv /\ StillSo(t)

LEMMA RequestsInvariant ==
  ASSUME NEW t, Tabs = {t}, ~ContinuesOld
  PROVE  RequestsSpec => []RequestsInv(t)
<1>1. RequestsInit => RequestsInv(t)
  <2> SUFFICES ASSUME RequestsInit PROVE RecordInv /\ StillSo(t)
    BY RequestsTypeInit DEF RequestsInv
  <2>1. RecordInv
    BY DEF RequestsInit, RecordInv, IsLive
  <2>2. tab[t] = {}
    BY DEF RequestsInit, None
  <2> QED
    BY <2>1, <2>2 DEF StillSo
<1>2. RequestsInv(t) /\ [RequestsNext]_requestVars => RequestsInv(t)'
  BY RequestsTypeStep, RecordStep DEF RequestsInv
<1> QED
  BY <1>1, <1>2, PTL DEF RequestsSpec

(* A request gets one report however many runs it takes.                   *)
THEOREM OneReportInAll ==
  ASSUME NEW t, Tabs = {t}, ~ContinuesOld
  PROVE  RequestsSpec => []OneReportPerRequest
<1>1. RequestsInv(t) => OneReportPerRequest
  <2> SUFFICES ASSUME RequestsInv(t), NEW r \in reports, NEW q \in reports PROVE r = q
    BY DEF OneReportPerRequest
  <2>1. r \in [job : Runs, terms : Nat] /\ q \in [job : Runs, terms : Nat]
    BY DEF RequestsInv, RequestsTypeOK
  <2>2. r.terms = q.terms /\ r.job = q.job
    BY DEF RequestsInv, RecordInv
  <2> QED
    BY <2>1, <2>2
<1> QED
  BY <1>1, RequestsInvariant, PTL

(* No edit falsifies what was gathered or reported.                        *)
THEOREM NoEditFalsifiesTheRecord ==
  ASSUME NEW t, Tabs = {t}, ~ContinuesOld
  PROVE  RequestsSpec => []TheRecordKeepsItsTerms
<1>1. RequestsInv(t) => TheRecordKeepsItsTerms
  BY DEF RequestsInv, RecordInv, TheRecordKeepsItsTerms
<1> QED
  BY <1>1, RequestsInvariant, PTL

(* The guards that look at the newest run look at every live one.          *)
THEOREM TheGuardsSeeEveryLiveRun ==
  ASSUME NEW t, Tabs = {t}, ~ContinuesOld
  PROVE  RequestsSpec => []LiveRunsAreLatest
<1>1. RequestsInv(t) => LiveRunsAreLatest
  BY DEF RequestsInv, RecordInv, LiveRunsAreLatest
<1> QED
  BY <1>1, RequestsInvariant, PTL

(* Deleting and purging wait for the run to be over.                       *)
THEOREM RemovalWaitsForTheRun ==
  ASSUME NEW t, Tabs = {t}, ~ContinuesOld
  PROVE  RequestsSpec => NoLiveRunIsRemoved
<1>1. ASSUME RequestsInv(t), RequestsNext, present, ~present'
      PROVE  \A j \in Runs : ~IsLive(j)
  <2>1. \A u \in Tabs : CommitRemoval(u) => \A j \in Runs : ~IsLive(j)
    <3> SUFFICES ASSUME CommitRemoval(t) PROVE \A j \in Runs : ~IsLive(j)
      OBVIOUS
    <3>1. PICK do \in {"delete", "purge"} : [do |-> do, on |-> None] \in tab[t]
      BY DEF CommitRemoval, Committing
    <3> DEFINE op == [do |-> do, on |-> None]
    <3>2. op \in tab[t] /\ op.do # "continue"
      BY <3>1
    <3> QED
      BY <1>1, <3>2 DEF RequestsInv, StillSo
  <2>2. \A u \in Tabs, op \in Ops : ~ReadRequest(u, op)
    BY <1>1 DEF ReadRequest
  <2>3. \A u \in Tabs : ~CommitStart(u) /\ ~CommitContinue(u) /\ ~CommitEdit(u)
    BY <1>1 DEF CommitStart, CommitContinue, CommitEdit
  <2>4. \A j \in Runs : ~Begin(j) /\ ~Gather(j) /\ ~WriteReport(j) /\ ~EndRun(j)
    BY <1>1 DEF Begin, Gather, WriteReport, EndRun
  <2> QED
    BY <1>1, <2>1, <2>2, <2>3, <2>4 DEF RequestsNext, Handler
<1>2. RequestsInv(t) /\ [RequestsNext]_requestVars
        => [present /\ ~present' => \A j \in Runs : ~IsLive(j)]_requestVars
  BY <1>1
<1> QED
  BY <1>2, RequestsInvariant, PTL DEF RequestsSpec, NoLiveRunIsRemoved
-----------------------------------------------------------------------------
(* The request as its author knows it.  The runs at work are the live      *)
(* ones; while no handler but one is at work there is one of them at most, *)
(* it is the newest, and it works under the terms the request shows.       *)
AtWork == {j \in Runs : IsLive(j)}

LEMMA OrderStep ==
  ASSUME NEW t, Tabs = {t}, ~ContinuesOld, RequestsInv(t), RequestsNext
  PROVE  \/ present /\ OnRequest!Next
         \/ UNCHANGED <<terms, AtWork, evidence, reports, present>>
<1> DEFINE Goal == \/ present /\ OnRequest!Next
                   \/ UNCHANGED <<terms, AtWork, evidence, reports, present>>
<1> USE DEF RequestsTypeOK, IsLive, AtWork
<1>0. RequestsTypeOK /\ RecordInv /\ StillSo(t) /\ \A u \in Tabs : u = t
  BY DEF RequestsInv
<1>so. \A do, on : Committing(t, do, on) =>
         /\ do # "continue" => AtWork = {}
         /\ do = "start" => reports = {}
         /\ do = "edit" => reports = {} /\ evidence = {}
         /\ do = "continue" => on = latest /\ \A j \in on : run[j] = "dead"
  <2> SUFFICES ASSUME NEW do, NEW on, Committing(t, do, on)
               PROVE  /\ do # "continue" => AtWork = {}
                      /\ do = "start" => reports = {}
                      /\ do = "edit" => reports = {} /\ evidence = {}
                      /\ do = "continue" => on = latest /\ \A j \in on : run[j] = "dead"
    OBVIOUS
  <2> DEFINE op == [do |-> do, on |-> on]
  <2>1. op \in tab[t] /\ op.do = do /\ op.on = on
    BY DEF Committing
  <2> QED
    BY <1>0, <2>1 DEF StillSo
<1>here. \A do, on : Committing(t, do, on) => present
  BY DEF Committing
<1>1. ASSUME NEW u \in Tabs, NEW op \in Ops, ReadRequest(u, op) PROVE Goal
  BY <1>1 DEF ReadRequest
<1>2. ASSUME NEW u \in Tabs, CommitStart(u) PROVE Goal
  <2>1. PICK j \in Runs :
          /\ Committing(t, "start", None)
          /\ run' = [run EXCEPT ![j] = "live"]
          /\ UNCHANGED <<terms, evidence, reports, present>>
    BY <1>0, <1>2 DEF CommitStart
  <2>2. AtWork = {} /\ reports = {} /\ present
    BY <1>so, <1>here, <2>1
  <2>3. AtWork' = {j}
    BY <1>0, <2>1, <2>2
  <2>4. OnRequest!Start(j)
    BY <2>1, <2>2, <2>3 DEF OnRequest!Start
  <2> QED
    BY <2>2, <2>4 DEF OnRequest!Next
<1>3. ASSUME NEW u \in Tabs, CommitContinue(u) PROVE Goal
  <2>1. PICK j \in Runs :
          /\ Committing(t, "continue", {j})
          /\ run' = [run EXCEPT ![j] = "live"]
          /\ UNCHANGED <<terms, evidence, reports, present>>
    BY <1>0, <1>3 DEF CommitContinue
  <2>2. latest = {j} /\ run[j] = "dead" /\ present
    BY <1>so, <1>here, <2>1
  <2>3. AtWork = {}
    BY <1>0, <2>2 DEF RecordInv
  <2>4. AtWork' = {j}
    BY <1>0, <2>1, <2>3
  <2>5. \A r \in reports : r.job = j
    BY <1>0, <2>2 DEF RecordInv
  <2>6. OnRequest!Start(j)
    BY <2>1, <2>3, <2>4, <2>5 DEF OnRequest!Start
  <2> QED
    BY <2>2, <2>6 DEF OnRequest!Next
<1>4. ASSUME NEW u \in Tabs, CommitEdit(u) PROVE Goal
  <2>1. /\ Committing(t, "edit", None)
        /\ terms' = terms + 1
        /\ UNCHANGED <<run, evidence, reports, present>>
    BY <1>0, <1>4 DEF CommitEdit
  <2>2. AtWork = {} /\ reports = {} /\ evidence = {} /\ present
    BY <1>so, <1>here, <2>1
  <2>3. OnRequest!Edit
    BY <2>1, <2>2 DEF OnRequest!Edit
  <2> QED
    BY <2>2, <2>3 DEF OnRequest!Next
<1>5. ASSUME NEW u \in Tabs, CommitRemoval(u) PROVE Goal
  <2>1. /\ Committing(t, "delete", None) \/ Committing(t, "purge", None)
        /\ present' = FALSE
        /\ UNCHANGED <<terms, run, evidence, reports>>
    BY <1>0, <1>5 DEF CommitRemoval
  <2>2. AtWork = {} /\ present
    BY <1>so, <1>here, <2>1
  <2>3. OnRequest!Remove
    BY <2>1, <2>2 DEF OnRequest!Remove
  <2> QED
    BY <2>2, <2>3 DEF OnRequest!Next
<1>6. ASSUME NEW j \in Runs, Begin(j) PROVE Goal
  BY <1>6 DEF Begin
<1>7. ASSUME NEW j \in Runs, Gather(j) PROVE Goal
  <2>1. loaded[j] = {terms} /\ j \in AtWork /\ present
    BY <1>0, <1>7 DEF Gather, RecordInv
  <2>2. UNCHANGED <<terms, run, reports, present>> /\ evidence' = {terms}
    BY <1>0, <1>7, <2>1 DEF Gather, RecordInv
  <2>3. OnRequest!Gather
    BY <2>1, <2>2 DEF OnRequest!Gather
  <2> QED
    BY <2>1, <2>3 DEF OnRequest!Next
<1>8. ASSUME NEW j \in Runs, WriteReport(j) PROVE Goal
  <2>1. loaded[j] = {terms} /\ run[j] = "live" /\ latest = {j} /\ present
    BY <1>0, <1>8 DEF WriteReport, RecordInv, None
  <2>2. AtWork = {j}
    BY <1>0, <2>1 DEF RecordInv
  <2>3. reports = {}
    BY <1>0, <1>8, <2>1 DEF WriteReport, HasReported, RecordInv
  <2>4. /\ UNCHANGED <<terms, run, evidence, present>>
        /\ reports' = {[job |-> j, terms |-> terms]}
    BY <1>8, <2>1, <2>3 DEF WriteReport
  <2>5. OnRequest!Report(j)
    BY <2>2, <2>3, <2>4 DEF OnRequest!Report
  <2> QED
    BY <2>1, <2>5 DEF OnRequest!Next
<1>9. ASSUME NEW j \in Runs, EndRun(j) PROVE Goal
  <2>1. /\ run[j] = "live" /\ present
        /\ UNCHANGED <<terms, evidence, reports, present>>
    BY <1>9 DEF EndRun
  <2>2. AtWork = {j}
    BY <1>0, <2>1 DEF RecordInv
  <2>3. run' \in {[run EXCEPT ![j] = "dead"], [run EXCEPT ![j] = "done"]}
    BY <1>9 DEF EndRun
  <2>4. AtWork' = {}
    BY <1>0, <2>2, <2>3
  <2>5. OnRequest!End
    BY <2>1, <2>4 DEF OnRequest!End
  <2> QED
    BY <2>1, <2>5 DEF OnRequest!Next
<1> HIDE DEF Goal
<1>10. Goal
  BY <1>1, <1>2, <1>3, <1>4, <1>5, <1>6, <1>7, <1>8, <1>9, RequestCases
<1> QED
  BY <1>10 DEF Goal

(* With one handler at a time and no superseded run continued, a request   *)
(* implements WorkOrder: one run at a time works on it under the terms it  *)
(* shows, it makes one report, its terms change before there is anything   *)
(* under them only, and it is removed under nobody.                        *)
THEOREM RequestsAreWorkedToOrder ==
  ASSUME NEW t, Tabs = {t}, ~ContinuesOld
  PROVE  RequestsSpec => WorkedToOrder
<1>1. RequestsInit => OnRequest!Init
  BY DEF RequestsInit, OnRequest!Init, IsLive
<1>2. RequestsInv(t) /\ [RequestsNext]_requestVars
        => [present /\ OnRequest!Next]_<<terms, {j \in Runs : IsLive(j)}, evidence, reports, present>>
  <2> SUFFICES ASSUME RequestsInv(t), [RequestsNext]_requestVars
               PROVE  \/ present /\ OnRequest!Next
                      \/ UNCHANGED <<terms, {j \in Runs : IsLive(j)}, evidence, reports, present>>
    OBVIOUS
  <2>1. CASE RequestsNext
    BY <2>1, OrderStep DEF AtWork
  <2>2. CASE UNCHANGED requestVars
    BY <2>2 DEF requestVars, IsLive
  <2> QED
    BY <2>1, <2>2
<1> QED
  BY <1>1, <1>2, RequestsInvariant, PTL DEF RequestsSpec, WorkedToOrder, OnRequest!Spec
=============================================================================
