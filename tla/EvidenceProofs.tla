--------------------------- MODULE EvidenceProofs ---------------------------
(***************************************************************************)
(* Theorems about how evidence is come by, kept and vouched for: Fetching, *)
(* for any policy and any number of fetchers; ArtefactStore, for any       *)
(* digests and runs that archive; and AuditTrail, for any log, however     *)
(* many sessions record at once.                                           *)
(***************************************************************************)
EXTENDS Fetching, ArtefactStore, AuditTrail, SetFacts, TLAPS

-----------------------------------------------------------------------------
(* Fetching.                                                               *)

(* The actions by what they change.                                        *)
LEMMA FetchCases ==
  ASSUME FetchNext,
         NEW Goal,
         Tick => Goal,
         Expire => Goal,
         \A f \in Fetchers : Start(f) => Goal,
         \A f \in Fetchers : Acquire(f) => Goal,
         \A f \in Fetchers : Wake(f) => Goal,
         \A f \in Fetchers, redirected \in BOOLEAN : Answered(f, redirected) => Goal,
         \A f \in Fetchers : Abandoned(f) => Goal,
         \A f \in Fetchers, delay \in 0..MaxBackoff : BackOff(f, delay) => Goal,
         \A f \in Fetchers : Fail(f) => Goal,
         \A f \in Fetchers : OpenCircuit(f) => Goal,
         \A f \in Fetchers : ClearCounter(f) => Goal
  PROVE  Goal
BY DEF FetchNext, FetchStep

-----------------------------------------------------------------------------
(* Arithmetic on the bucket.                                               *)

LEMMA UnitsAddUp ==
  ASSUME NEW a \in Int, NEW b \in Int, NEW c \in Int
  PROVE  a * (b + c) = a * b + a * c
OBVIOUS

LEMMA MoreTimeMoreUnits ==
  ASSUME NEW a \in Nat, NEW b \in Int, NEW c \in Int, b <= c
  PROVE  a * b <= a * c
<1>1. a * (c - b) >= 0
  OBVIOUS
<1>2. a * (c - b) = a * c - a * b
  OBVIOUS
<1> QED
  BY <1>1, <1>2

LEMMA RefillType ==
  ASSUME FetchTypeOK, NEW f \in Fetchers
  PROVE  /\ Clock(f) \in Nat
         /\ Elapsed(f) \in Nat
         /\ Refilled(f) \in 0..Burst
<1>0. /\ now \in Nat /\ bucket.at \in Nat /\ bucket.units \in -1..Burst
      /\ Burst \in Nat /\ Rate \in Nat /\ Skew[f] \in Nat
  BY FetchAssumption DEF FetchTypeOK
<1>1. Clock(f) \in Nat
  BY <1>0 DEF Clock
<1>2. Elapsed(f) \in Nat
  BY <1>0, <1>1 DEF Elapsed
<1>3. Rate * Elapsed(f) \in Nat
  BY <1>0, <1>2
<1>4. Refilled(f) \in 0..Burst
  BY <1>0, <1>3 DEF Refilled, Lesser
<1> QED
  BY <1>1, <1>2, <1>4

LEMMA WaitType ==
  ASSUME NEW units \in Nat, units < Cost
  PROVE  WaitFor(units) \in Nat
<1> USE FetchAssumption
<1> DEFINE n == Cost - units + Rate - 1
<1>1. n \in Nat /\ Rate \in Nat /\ Rate > 0
  OBVIOUS
<1> HIDE DEF n
<1>2. n \div Rate \in Nat
  BY <1>1
<1> QED
  BY <1>2 DEF WaitFor, n

-----------------------------------------------------------------------------
(* Types.  Who backs off has an attempt left.                              *)

PlaceRecord == [at : Places, hop : 0..MaxRedirects, try : 1..MaxAttempts,
           waited : 0..MaxWait, until : Nat]
Place  == {p \in PlaceRecord : p.at = "resting" => p.try < MaxAttempts}

FetchInv == FetchTypeOK /\ fetch \in [Fetchers -> Place]

LEMMA Numbers ==
  /\ MaxAttempts \in Nat \ {0} /\ Threshold \in Nat
  /\ Rate \in Nat /\ Cost \in Nat /\ Burst \in Nat /\ BucketTtl \in Nat
  /\ MaxWait \in Nat /\ MaxBackoff \in Nat /\ MaxRedirects \in Nat
  /\ Cooldown \in Nat /\ CounterTtl \in Nat
  /\ Idle \in Place
  /\ Idle.at = "idle" /\ Idle.try = 1 /\ Idle.waited = 0 /\ Idle.until = 0
BY FetchAssumption DEF Idle, Place, PlaceRecord, Places

LEMMA PlaceFields ==
  ASSUME NEW p \in PlaceRecord
  PROVE  p.hop \in Nat /\ p.waited \in Nat
<1>1. p.hop \in 0..MaxRedirects /\ p.waited \in 0..MaxWait
  BY DEF PlaceRecord
<1> QED
  BY <1>1, Numbers

LEMMA PlacesAreTyped ==
  ASSUME fetch \in [Fetchers -> Place], NEW f \in Fetchers, NEW p \in Place,
         fetch' = [fetch EXCEPT ![f] = p]
  PROVE  fetch' \in [Fetchers -> Place] /\ fetch' \in [Fetchers -> PlaceRecord]
BY DEF Place

LEMMA GoIsTyped ==
  ASSUME fetch \in [Fetchers -> Place], NEW f \in Fetchers,
         NEW place \in Places \ {"resting"}, Go(f, place)
  PROVE  fetch' \in [Fetchers -> Place] /\ fetch' \in [Fetchers -> PlaceRecord]
<1>1. [fetch[f] EXCEPT !.at = place] \in Place
  BY DEF Place, PlaceRecord
<1>2. fetch' = [fetch EXCEPT ![f] = [fetch[f] EXCEPT !.at = place]]
  BY DEF Go
<1> QED
  BY <1>1, <1>2, PlacesAreTyped

LEMMA FetchTypeStep == FetchInv /\ [FetchNext]_fetchVars => FetchInv'
<1> SUFFICES ASSUME FetchInv, [FetchNext]_fetchVars PROVE FetchInv'
  OBVIOUS
<1>0. /\ now \in Nat /\ bucket \in [units : -1..Burst, at : Nat]
      /\ failures \in [count : Nat, until : Nat] /\ openUntil \in Nat
      /\ granted \in Seq(Nat) /\ sour \in Nat /\ cause \in [Fetchers -> Nat]
      /\ fetch \in [Fetchers -> Place] /\ FetchTypeOK
      /\ \A f \in Fetchers : fetch[f] \in PlaceRecord
  BY DEF FetchInv, FetchTypeOK, PlaceRecord
<1>split. ASSUME fetch' \in [Fetchers -> Place], fetch' \in [Fetchers -> PlaceRecord],
                 now' \in Nat, bucket' \in [units : -1..Burst, at : Nat],
                 failures' \in [count : Nat, until : Nat], openUntil' \in Nat,
                 granted' \in Seq(Nat), sour' \in Nat, cause' \in [Fetchers -> Nat]
          PROVE  FetchInv'
  BY <1>split DEF FetchInv, FetchTypeOK, PlaceRecord
<1>same. fetch \in [Fetchers -> PlaceRecord]
  BY <1>0 DEF Place
<1>1. ASSUME Tick PROVE FetchInv'
  BY <1>0, <1>1, <1>same, <1>split DEF Tick
<1>2. ASSUME Expire PROVE FetchInv'
  <2>1. Fresh \in [units : -1..Burst, at : Nat]
    BY Numbers DEF Fresh
  <2> QED
    BY <1>0, <1>2, <1>same, <1>split, <2>1 DEF Expire
<1>3. ASSUME NEW f \in Fetchers, Start(f) PROVE FetchInv'
  <2>1. fetch' \in [Fetchers -> Place] /\ fetch' \in [Fetchers -> PlaceRecord]
    BY <1>0, <1>3, GoIsTyped DEF Start, Places
  <2> QED
    BY <1>0, <1>3, <1>split, <2>1 DEF Start
<1>4. ASSUME NEW f \in Fetchers, Acquire(f) PROVE FetchInv'
  <2> DEFINE units == Refilled(f)
             wait  == WaitFor(units)
  <2>1. units \in 0..Burst /\ Clock(f) \in Nat
    BY <1>0, RefillType
  <2> HIDE DEF units
  <2>2. CASE units >= Cost /\ bucket' = [units |-> units - Cost, at |-> Clock(f)]
             /\ granted' = Append(granted, now) /\ Go(f, "sending")
    <3>1. fetch' \in [Fetchers -> Place] /\ fetch' \in [Fetchers -> PlaceRecord]
      BY <1>0, <2>2, GoIsTyped DEF Places
    <3>2. bucket' \in [units : -1..Burst, at : Nat]
      BY <2>1, <2>2, Numbers
    <3> QED
      BY <1>0, <1>4, <1>split, <2>2, <3>1, <3>2 DEF Acquire
  <2>3. CASE units < Cost /\ bucket' = [units |-> units, at |-> Clock(f)] /\ UNCHANGED granted
             /\ fetch' = [fetch EXCEPT ![f] =
                  IF @.waited + wait > MaxWait THEN Idle ELSE Slept(@, wait)]
    <3>1. wait \in Nat
      BY <2>1, <2>3, WaitType
    <3> HIDE DEF wait
    <3> DEFINE q == IF fetch[f].waited + wait > MaxWait THEN Idle ELSE Slept(fetch[f], wait)
    <3>2. fetch[f].waited \in Nat /\ fetch[f] \in PlaceRecord /\ fetch[f].waited + wait \in Int
      <4>1. fetch[f] \in PlaceRecord
        BY <1>0 DEF Place
      <4>2. fetch[f].waited \in Nat
        BY <4>1, PlaceFields
      <4> QED
        BY <3>1, <4>1, <4>2
    <3>3. q \in Place
      <4>1. CASE fetch[f].waited + wait <= MaxWait
        <5>0. fetch[f].waited + wait \in 0..MaxWait /\ now + wait \in Nat
          <6>1. now \in Nat /\ MaxWait \in Nat
            BY <1>0, Numbers
          <6> QED
            BY <3>1, <3>2, <4>1, <6>1
        <5>1. Slept(fetch[f], wait) \in PlaceRecord /\ Slept(fetch[f], wait).at = "asleep"
          BY <3>2, <5>0 DEF PlaceRecord, Slept, Places
        <5> QED
          BY <3>2, <4>1, <5>1, Numbers DEF Place
      <4> QED
        BY <3>2, <4>1, Numbers
    <3>4. fetch' = [fetch EXCEPT ![f] = q]
      BY <2>3
    <3> HIDE DEF q
    <3>5. fetch' \in [Fetchers -> Place] /\ fetch' \in [Fetchers -> PlaceRecord]
      BY <1>0, <3>3, <3>4, PlacesAreTyped
    <3> QED
      BY <1>0, <1>4, <1>split, <2>1, <2>3, <3>5, Numbers DEF Acquire
  <2> QED
    BY <1>4, <2>2, <2>3 DEF Acquire, units
<1>5. ASSUME NEW f \in Fetchers, Wake(f) PROVE FetchInv'
  <2>1. fetch[f].at \in {"asleep", "resting"} /\ fetch[f] \in Place /\ fetch[f] \in PlaceRecord
    BY <1>0, <1>5 DEF Wake
  <2>2. Woken(fetch[f]) \in Place
    <3>1. CASE fetch[f].at = "asleep"
      BY <2>1, <3>1, Numbers DEF Place, PlaceRecord, Places, Woken
    <3>2. CASE fetch[f].at = "resting"
      <4>1. fetch[f].try + 1 \in 1..MaxAttempts
        BY <2>1, <3>2, Numbers DEF Place, PlaceRecord
      <4> QED
        BY <2>1, <3>2, <4>1, Numbers DEF Place, PlaceRecord, Places, Woken
    <3> QED
      BY <2>1, <3>1, <3>2
  <2>3. fetch' = [fetch EXCEPT ![f] = Woken(fetch[f])]
    BY <1>5 DEF Wake
  <2>4. fetch' \in [Fetchers -> Place] /\ fetch' \in [Fetchers -> PlaceRecord]
    BY <1>0, <2>2, <2>3, PlacesAreTyped
  <2> QED
    BY <1>0, <1>5, <1>split, <2>4 DEF Wake
<1>6. ASSUME NEW f \in Fetchers, NEW redirected \in BOOLEAN, Answered(f, redirected)
      PROVE  FetchInv'
  <2> DEFINE p == IF redirected /\ fetch[f].hop < MaxRedirects
                    THEN [Idle EXCEPT !.at = "asking", !.hop = fetch[f].hop + 1]
                    ELSE Idle
  <2>1. p \in Place
    <3>1. CASE redirected /\ fetch[f].hop < MaxRedirects
      <4>1. fetch[f].hop + 1 \in 0..MaxRedirects /\ 1 \in 1..MaxAttempts /\ 0 \in 0..MaxWait
        <5>1. fetch[f] \in PlaceRecord
          BY <1>0 DEF Place
        <5>2. fetch[f].hop \in Nat
          BY <5>1, PlaceFields
        <5>3. MaxRedirects \in Nat /\ MaxAttempts \in Nat \ {0} /\ MaxWait \in Nat
          BY Numbers
        <5> QED
          BY <3>1, <5>2, <5>3
      <4>2. p = [at |-> "asking", hop |-> fetch[f].hop + 1, try |-> 1, waited |-> 0, until |-> 0]
        BY <3>1 DEF Idle
      <4> HIDE DEF p
      <4>3. p \in PlaceRecord
        BY <4>1, <4>2 DEF PlaceRecord, Places
      <4> QED
        BY <4>2, <4>3 DEF Place
    <3> QED
      BY <3>1, Numbers
  <2>2. fetch' = [fetch EXCEPT ![f] = p]
    BY <1>6 DEF Answered
  <2> HIDE DEF p
  <2>3. fetch' \in [Fetchers -> Place] /\ fetch' \in [Fetchers -> PlaceRecord]
    BY <1>0, <2>1, <2>2, PlacesAreTyped
  <2> QED
    BY <1>0, <1>6, <1>split, <2>3 DEF Answered
<1>7. ASSUME NEW f \in Fetchers, Abandoned(f) PROVE FetchInv'
  <2>1. fetch' \in [Fetchers -> Place] /\ fetch' \in [Fetchers -> PlaceRecord]
    BY <1>0, <1>7, PlacesAreTyped, Numbers DEF Abandoned
  <2> QED
    BY <1>0, <1>7, <1>split, <2>1 DEF Abandoned
<1>8. ASSUME NEW f \in Fetchers, NEW delay \in 0..MaxBackoff, BackOff(f, delay) PROVE FetchInv'
  <2>0. now + delay \in Nat /\ fetch[f] \in PlaceRecord /\ fetch[f].try < MaxAttempts
    <3>1. now \in Nat /\ delay \in Nat /\ fetch[f] \in PlaceRecord
      BY <1>0, Numbers
    <3>2. fetch[f].try < MaxAttempts
      BY <1>8 DEF BackOff
    <3> QED
      BY <3>1, <3>2
  <2>1. [fetch[f] EXCEPT !.at = "resting", !.until = now + delay] \in Place
    BY <2>0 DEF Place, PlaceRecord, Places
  <2>2. fetch' = [fetch EXCEPT ![f] = [fetch[f] EXCEPT !.at = "resting", !.until = now + delay]]
    BY <1>8 DEF BackOff
  <2>3. fetch' \in [Fetchers -> Place] /\ fetch' \in [Fetchers -> PlaceRecord]
    BY <1>0, <2>1, <2>2, PlacesAreTyped
  <2> QED
    BY <1>0, <1>8, <1>split, <2>3 DEF BackOff
<1>9. ASSUME NEW f \in Fetchers, Fail(f) PROVE FetchInv'
  <2> DEFINE p == IF Counted >= Threshold THEN [fetch[f] EXCEPT !.at = "opening"] ELSE Idle
  <2>1. Counted \in Nat
    BY <1>0 DEF Counted
  <2>2. p \in Place
    BY <1>0, Numbers DEF Place, PlaceRecord, Places
  <2>3. fetch' = [fetch EXCEPT ![f] = p]
    BY <1>9 DEF Fail
  <2> HIDE DEF p
  <2>4. fetch' \in [Fetchers -> Place] /\ fetch' \in [Fetchers -> PlaceRecord]
    BY <1>0, <2>2, <2>3, PlacesAreTyped
  <2>5. failures' \in [count : Nat, until : Nat]
    <3>1. failures' = [count |-> Counted, until |-> now + CounterTtl]
      BY <1>9 DEF Fail
    <3>2. now + CounterTtl \in Nat
      BY <1>0, Numbers
    <3> QED
      BY <2>1, <3>1, <3>2
  <2>6. sour' \in Nat /\ cause' \in [Fetchers -> Nat]
    BY <1>0, <1>9 DEF Fail
  <2> QED
    BY <1>0, <1>9, <1>split, <2>4, <2>5, <2>6 DEF Fail
<1>10. ASSUME NEW f \in Fetchers, OpenCircuit(f) PROVE FetchInv'
  <2>1. fetch' \in [Fetchers -> Place] /\ fetch' \in [Fetchers -> PlaceRecord]
    BY <1>0, <1>10, GoIsTyped DEF OpenCircuit, Places
  <2> QED
    BY <1>0, <1>10, <1>split, <2>1, Numbers DEF OpenCircuit
<1>11. ASSUME NEW f \in Fetchers, ClearCounter(f) PROVE FetchInv'
  <2>1. fetch' \in [Fetchers -> Place] /\ fetch' \in [Fetchers -> PlaceRecord]
    BY <1>0, <1>11, PlacesAreTyped, Numbers DEF ClearCounter
  <2> QED
    BY <1>0, <1>11, <1>split, <2>1 DEF ClearCounter
<1>12. CASE UNCHANGED fetchVars
  BY <1>0, <1>12, <1>same, <1>split DEF fetchVars
<1> DEFINE Goal == FetchInv'
<1> HIDE DEF Goal
<1>13. CASE FetchNext
  <2>1. Goal
    BY <1>1, <1>2, <1>3, <1>4, <1>5, <1>6, <1>7, <1>8, <1>9, <1>10, <1>11, <1>13, FetchCases
       DEF Goal
  <2> QED
    BY <2>1 DEF Goal
<1> QED
  BY <1>12, <1>13

(* Every fetch stays within its attempts, redirects and waits, and the     *)
(* bucket between empty and its burst, whatever the clocks show.           *)
THEOREM FetchTypeCorrect == FetchSpec => []FetchTypeOK
<1>1. FetchInit => FetchInv
  BY Numbers DEF FetchInit, FetchInv, FetchTypeOK, Fresh, Place, PlaceRecord
<1>2. FetchInv /\ [FetchNext]_fetchVars => FetchInv'
  BY FetchTypeStep
<1>3. FetchInv => FetchTypeOK
  BY DEF FetchInv
<1> QED
  BY <1>1, <1>2, <1>3, PTL DEF FetchSpec

-----------------------------------------------------------------------------
(* The pace.  What the bucket still holds counts against the burst as much *)
(* as what it has given out, up to the time it was last written; a bucket  *)
(* that expired had been idle long enough to be full.                      *)

Since(i) == Cost * (Len(granted) - i + 1)

KeptPace(i) ==
  IF bucket.units = -1
    THEN Since(i) <= Rate * (now - granted[i])
    ELSE Since(i) + bucket.units <= Burst + Rate * (bucket.at - granted[i])

PaceInv ==
  /\ bucket.units # -1 => bucket.at <= now /\ Fetchers # {}
  /\ \A i \in DOMAIN granted : KeptPace(i)

LEMMA PaceTypes ==
  ASSUME FetchTypeOK
  PROVE  /\ now \in Nat /\ bucket.at \in Nat /\ bucket.units \in -1..Burst
         /\ Rate \in Nat /\ Cost \in Nat /\ Burst \in Nat /\ BucketTtl \in Nat
         /\ granted \in Seq(Nat) /\ Len(granted) \in Nat
         /\ \A i \in DOMAIN granted : /\ i \in Nat /\ granted[i] \in Nat
                                      /\ Since(i) \in Int
                                      /\ Rate * (now - granted[i]) \in Int
                                      /\ Rate * (bucket.at - granted[i]) \in Int
<1>1. /\ now \in Nat /\ bucket.at \in Nat /\ bucket.units \in -1..Burst
      /\ granted \in Seq(Nat) /\ Len(granted) \in Nat
      /\ \A i \in DOMAIN granted : i \in Nat /\ granted[i] \in Nat
  BY DEF FetchTypeOK
<1>2. Rate \in Nat /\ Cost \in Nat /\ Burst \in Nat /\ BucketTtl \in Nat
  BY Numbers
<1>3. ASSUME NEW i \in DOMAIN granted
      PROVE  /\ Since(i) \in Int
             /\ Rate * (now - granted[i]) \in Int
             /\ Rate * (bucket.at - granted[i]) \in Int
  <2>1. /\ Len(granted) - i + 1 \in Int /\ now - granted[i] \in Int
        /\ bucket.at - granted[i] \in Int
    BY <1>1
  <2> QED
    BY <1>2, <2>1 DEF Since
<1> QED
  BY <1>1, <1>2, <1>3

(* Refilled up to now, the bucket is still within the burst.               *)
LEMMA Level ==
  ASSUME FetchTypeOK, PaceInv, NEW f \in Fetchers, Clock(f) = now,
         NEW i \in DOMAIN granted
  PROVE  Since(i) + Refilled(f) <= Burst + Rate * (now - granted[i])
<1>0. /\ now \in Nat /\ bucket.at \in Nat /\ bucket.units \in -1..Burst
      /\ Rate \in Nat /\ Burst \in Nat /\ granted[i] \in Nat /\ Since(i) \in Int
      /\ Rate * (now - granted[i]) \in Int /\ Rate * (bucket.at - granted[i]) \in Int
  BY PaceTypes
<1>1. CASE bucket.units = -1
  BY <1>0, <1>1 DEF PaceInv, KeptPace, Refilled
<1>2. CASE bucket.units # -1
  <2>1. bucket.at <= now /\ Since(i) + bucket.units <= Burst + Rate * (bucket.at - granted[i])
    BY <1>2 DEF PaceInv, KeptPace
  <2>2. Elapsed(f) = now - bucket.at
    BY <1>0, <2>1 DEF Elapsed
  <2>3. Rate * (now - bucket.at) \in Int
    BY <1>0
  <2>4. Refilled(f) \in Int /\ Refilled(f) <= bucket.units + Rate * (now - bucket.at)
    BY <1>0, <1>2, <2>2, <2>3 DEF Refilled, Lesser
  <2>5. Rate * (now - granted[i]) = Rate * (now - bucket.at) + Rate * (bucket.at - granted[i])
    BY <1>0
  <2> QED
    BY <1>0, <2>1, <2>3, <2>4, <2>5
<1> QED
  BY <1>1, <1>2

LEMMA KeptMeansPaced == FetchTypeOK /\ PaceInv => PaceIsKept
<1> SUFFICES ASSUME FetchTypeOK, PaceInv, NEW i \in DOMAIN granted
             PROVE  Since(i) <= Burst + Rate * (now - granted[i])
  BY DEF PaceIsKept, Since
<1>0. /\ now \in Nat /\ bucket.at \in Nat /\ bucket.units \in -1..Burst
      /\ Rate \in Nat /\ Burst \in Nat /\ granted[i] \in Nat /\ Since(i) \in Int
      /\ Rate * (now - granted[i]) \in Int /\ Rate * (bucket.at - granted[i]) \in Int
  BY PaceTypes
<1>1. CASE bucket.units = -1
  BY <1>0, <1>1 DEF PaceInv, KeptPace
<1>2. CASE bucket.units # -1
  <2>1. bucket.at <= now /\ Since(i) + bucket.units <= Burst + Rate * (bucket.at - granted[i])
    BY <1>2 DEF PaceInv, KeptPace
  <2>2. Rate * (bucket.at - granted[i]) <= Rate * (now - granted[i])
    BY <1>0, <2>1, MoreTimeMoreUnits
  <2>3. bucket.units \in Nat
    BY <1>0, <1>2
  <2> QED
    BY <1>0, <2>1, <2>2, <2>3
<1> QED
  BY <1>1, <1>2

LEMMA PaceStep ==
  ASSUME FetchInv, \A f \in Fetchers : Skew[f] = 0, PaceInv, [FetchNext]_fetchVars
  PROVE  PaceInv'
<1> DEFINE Goal == PaceInv'
<1>0. FetchTypeOK /\ \A f \in Fetchers : Clock(f) = now
  BY DEF FetchInv, FetchTypeOK, Clock
<1>t. /\ now \in Nat /\ bucket.at \in Nat /\ bucket.units \in -1..Burst
      /\ Rate \in Nat /\ Cost \in Nat /\ Burst \in Nat /\ BucketTtl \in Nat
      /\ granted \in Seq(Nat) /\ Len(granted) \in Nat
      /\ \A i \in DOMAIN granted : /\ i \in Nat /\ granted[i] \in Nat
                                   /\ Since(i) \in Int
                                   /\ Rate * (now - granted[i]) \in Int
                                   /\ Rate * (bucket.at - granted[i]) \in Int
  BY <1>0, PaceTypes
<1>same. ASSUME UNCHANGED <<now, bucket, granted>> PROVE Goal
  BY <1>same DEF PaceInv, KeptPace, Since
<1>1. ASSUME Tick PROVE Goal
  <2>1. now' = now + 1 /\ UNCHANGED <<bucket, granted>>
    BY <1>1 DEF Tick
  <2>2. ASSUME NEW i \in DOMAIN granted PROVE KeptPace(i)'
    <3>1. Since(i)' = Since(i) /\ KeptPace(i)
      BY <2>1 DEF Since, PaceInv
    <3>2. Rate * (now - granted[i]) <= Rate * (now' - granted[i])
      BY <1>t, <2>1, MoreTimeMoreUnits
    <3>3. Rate * (now' - granted[i]) \in Int
      BY <1>t, <2>1
    <3>4. CASE bucket.units = -1
      BY <1>t, <2>1, <3>1, <3>2, <3>3, <3>4 DEF KeptPace
    <3>5. CASE bucket.units # -1
      BY <2>1, <3>1, <3>5 DEF KeptPace
    <3> QED
      BY <3>4, <3>5
  <2> QED
    BY <1>t, <2>1, <2>2 DEF PaceInv
<1>2. ASSUME Expire PROVE Goal
  <2>1. bucket.units # -1 /\ bucket'.units = -1 /\ UNCHANGED <<now, granted>>
    BY <1>2 DEF Expire, Fresh
  <2>2. bucket.at <= now /\ now - bucket.at >= BucketTtl
    BY <1>0, <1>2, <2>1 DEF Expire, PaceInv
  <2>3. ASSUME NEW i \in DOMAIN granted PROVE KeptPace(i)'
    <3> DEFINE idle == now - bucket.at
    <3>0. /\ Rate \in Nat /\ Burst \in Nat /\ BucketTtl \in Nat /\ idle \in Int
          /\ bucket.at - granted[i] \in Int /\ Since(i) \in Int
          /\ now - granted[i] = idle + (bucket.at - granted[i])
      <4>1. granted[i] \in Nat /\ now \in Nat /\ bucket.at \in Nat
        BY <1>t, <2>1
      <4>2. Rate \in Nat /\ Burst \in Nat /\ BucketTtl \in Nat /\ Since(i) \in Int
        BY <1>t, <2>1
      <4> QED
        BY <4>1, <4>2
    <3>1. Since(i) + bucket.units <= Burst + Rate * (bucket.at - granted[i])
      BY <2>1 DEF PaceInv, KeptPace
    <3>2. BucketTtl <= idle
      BY <1>t, <2>2
    <3> HIDE DEF idle
    <3>3. Rate * BucketTtl <= Rate * idle
      BY <3>0, <3>2, MoreTimeMoreUnits
    <3>4. Burst <= Rate * BucketTtl
      BY FetchAssumption
    <3>5. Rate * (now - granted[i]) = Rate * idle + Rate * (bucket.at - granted[i])
      <4>1. Rate * (idle + (bucket.at - granted[i]))
              = Rate * idle + Rate * (bucket.at - granted[i])
        BY <3>0, UnitsAddUp
      <4> QED
        BY <3>0, <4>1
    <3>6. bucket.units \in Nat
      <4>1. bucket.units \in -1..Burst /\ Burst \in Nat
        BY <1>t
      <4> QED
        BY <2>1, <4>1
    <3>7. /\ Rate * BucketTtl \in Int /\ Rate * idle \in Int
          /\ Rate * (bucket.at - granted[i]) \in Int
      <4>1. Rate \in Int /\ BucketTtl \in Int /\ idle \in Int
        BY <3>0
      <4>2. Rate * BucketTtl \in Int
        BY <4>1
      <4>3. Rate * idle \in Int
        BY <4>1
      <4>4. Rate * (bucket.at - granted[i]) \in Int
        BY <1>t
      <4> QED
        BY <4>2, <4>3, <4>4
    <3>8. Since(i) <= Rate * (now - granted[i])
      <4> DEFINE full == Rate * BucketTtl
                 idled == Rate * idle
                 before == Rate * (bucket.at - granted[i])
                 after == Rate * (now - granted[i])
      <4>1. full \in Int /\ idled \in Int /\ before \in Int /\ after = idled + before
        BY <3>5, <3>7
      <4>2. Burst <= full /\ full <= idled /\ Since(i) + bucket.units <= Burst + before
        BY <3>1, <3>3, <3>4
      <4> HIDE DEF full, idled, before, after
      <4>3. Since(i) <= after
        BY <3>0, <3>6, <4>1, <4>2
      <4> QED
        BY <4>3 DEF after
    <3> QED
      BY <2>1, <3>8 DEF KeptPace, Since
  <2> QED
    BY <2>1, <2>3 DEF PaceInv
<1>3. ASSUME NEW f \in Fetchers, Acquire(f) PROVE Goal
  <2> DEFINE units == Refilled(f)
  <2>0. units \in 0..Burst /\ now' = now
    BY <1>0, <1>3, RefillType DEF Acquire
  <2>1. \A i \in DOMAIN granted : Since(i) + units <= Burst + Rate * (now - granted[i])
    BY <1>0, Level
  <2>2. CASE units >= Cost /\ bucket' = [units |-> units - Cost, at |-> now]
             /\ granted' = Append(granted, now)
    <3> HIDE DEF units
    <3>1. ASSUME NEW i \in DOMAIN granted' PROVE Since(i)' + bucket'.units <= Burst + Rate * (now - granted'[i])
      <4>1. CASE i \in DOMAIN granted
        <5>1. granted'[i] = granted[i] /\ Len(granted') = Len(granted) + 1
          BY <1>t, <2>2, <4>1
        <5>2. Since(i)' = Since(i) + Cost
          <6>1. Cost * (Len(granted) + 1 - i + 1) = Cost * (Len(granted) - i + 1) + Cost
            <7> DEFINE after == Len(granted) - i + 1
            <7>1. after \in Int /\ Cost \in Int /\ Len(granted) + 1 - i + 1 = after + 1
              <8>1. Len(granted) \in Int /\ i \in Int /\ Cost \in Int
                BY <1>t, <4>1
              <8> QED
                BY <8>1
            <7> HIDE DEF after
            <7>2. Cost * (after + 1) = Cost * after + Cost
              BY <7>1
            <7> QED
              BY <7>1, <7>2 DEF after
          <6> QED
            BY <5>1, <6>1 DEF Since
        <5>3. Since(i) + units <= Burst + Rate * (now - granted[i])
          BY <2>1, <4>1
        <5>4. bucket'.units = units - Cost
          BY <2>2
        <5>5. /\ units \in Int /\ Cost \in Int /\ Since(i) \in Int
              /\ Burst + Rate * (now - granted[i]) \in Int
          BY <1>t, <2>0, <4>1
        <5>6. Since(i)' + bucket'.units = Since(i) + units
          BY <5>2, <5>4, <5>5
        <5> QED
          BY <5>1, <5>3, <5>6
      <4>2. CASE i \notin DOMAIN granted
        <5>1. i = Len(granted) + 1 /\ granted'[i] = now /\ Len(granted') = Len(granted) + 1
          BY <1>t, <2>2, <4>2
        <5>2. Since(i)' = Cost
          <6>1. Cost * (Len(granted) + 1 - (Len(granted) + 1) + 1) = Cost
            BY <1>t
          <6> QED
            BY <5>1, <6>1 DEF Since
        <5>3. Rate * (now - now) = 0
          BY <1>t
        <5> QED
          BY <1>t, <2>0, <2>2, <5>1, <5>2, <5>3
      <4> QED
        BY <4>1, <4>2
    <3>2. bucket'.units # -1 /\ bucket'.at = now
      BY <1>t, <2>0, <2>2
    <3> QED
      BY <1>t, <2>0, <3>1, <3>2 DEF PaceInv, KeptPace
  <2>3. CASE bucket' = [units |-> units, at |-> now] /\ UNCHANGED granted
    <3> HIDE DEF units
    <3>1. bucket'.units = units /\ units # -1 /\ bucket'.at = now
      BY <1>t, <2>0, <2>3
    <3>2. \A i \in DOMAIN granted : Since(i)' = Since(i)
      BY <2>3 DEF Since
    <3> QED
      BY <1>t, <2>0, <2>1, <2>3, <3>1, <3>2 DEF PaceInv, KeptPace
  <2> QED
    BY <1>0, <1>3, <2>2, <2>3 DEF Acquire
<1>4. ASSUME NEW f \in Fetchers,
             \/ Start(f) \/ Wake(f) \/ Abandoned(f) \/ Fail(f) \/ OpenCircuit(f) \/ ClearCounter(f)
             \/ \E redirected \in BOOLEAN : Answered(f, redirected)
             \/ \E delay \in 0..MaxBackoff : BackOff(f, delay)
      PROVE  Goal
  BY <1>4, <1>same DEF Start, Wake, Abandoned, Fail, OpenCircuit, ClearCounter, Answered, BackOff
<1>5. CASE UNCHANGED fetchVars
  BY <1>5, <1>same DEF fetchVars
<1>6. CASE FetchNext
  <2> HIDE DEF Goal
  <2>1. Goal
    BY <1>1, <1>2, <1>3, <1>4, <1>6, FetchCases
  <2> QED
    BY <2>1 DEF Goal
<1> QED
  BY <1>5, <1>6

(* Where every clock shows the same time, no window of requests, however   *)
(* long, however many fetchers and whatever the bucket idled, is more than *)
(* the burst and what the rate allows.                                     *)
THEOREM ThePaceIsKept ==
  ASSUME \A f \in Fetchers : Skew[f] = 0 PROVE FetchSpec => []PaceIsKept
<1>1. FetchInit => FetchInv /\ PaceInv
  BY Numbers DEF FetchInit, FetchInv, FetchTypeOK, Fresh, Place, PlaceRecord, PaceInv, KeptPace
<1>2. FetchInv /\ PaceInv /\ [FetchNext]_fetchVars => FetchInv' /\ PaceInv'
  BY FetchTypeStep, PaceStep
<1>3. FetchInv /\ PaceInv => PaceIsKept
  BY KeptMeansPaced DEF FetchInv
<1> QED
  BY <1>1, <1>2, <1>3, PTL DEF FetchSpec

-----------------------------------------------------------------------------
(* The breaker: its counter never runs ahead of the failures since the     *)
(* last success.                                                           *)

CauseInv ==
  /\ failures.count <= sour
  /\ \A f \in Fetchers : fetch[f].at = "opening" => cause[f] >= Threshold

LEMMA CauseStep ==
  ASSUME FetchInv, CauseInv, [FetchNext]_fetchVars
  PROVE  CauseInv'
<1> DEFINE Goal == CauseInv'
<1>0. /\ failures.count \in Nat /\ sour \in Nat /\ cause \in [Fetchers -> Nat]
      /\ fetch \in [Fetchers -> Place] /\ Threshold \in Nat
  BY Numbers DEF FetchInv, FetchTypeOK
<1>1. ASSUME NEW f \in Fetchers, NEW p, p.at # "opening", UNCHANGED cause,
             fetch' = [fetch EXCEPT ![f] = p],
             \/ UNCHANGED <<failures, sour>>
             \/ failures'.count = 0 /\ sour' \in Nat
      PROVE  Goal
  <2>1. \A g \in Fetchers : fetch'[g].at = "opening" => fetch[g].at = "opening"
    BY <1>0, <1>1
  <2> QED
    BY <1>0, <1>1, <2>1 DEF CauseInv
<1>2. ASSUME NEW f \in Fetchers, NEW place, place # "opening", UNCHANGED cause, Go(f, place),
             UNCHANGED <<failures, sour>>
      PROVE  Goal
  <2>1. \A g \in Fetchers : fetch'[g].at = "opening" => fetch[g].at = "opening"
    BY <1>0, <1>2 DEF Go, Place, PlaceRecord
  <2> QED
    BY <1>0, <1>2, <2>1 DEF CauseInv
<1>3. ASSUME Tick \/ Expire \/ UNCHANGED fetchVars PROVE Goal
  BY <1>3 DEF Tick, Expire, fetchVars, CauseInv
<1>4. ASSUME NEW f \in Fetchers, Start(f) PROVE Goal
  BY <1>2, <1>4 DEF Start
<1>5. ASSUME NEW f \in Fetchers, Acquire(f) PROVE Goal
  <2>1. CASE Go(f, "sending")
    BY <1>2, <1>5, <2>1 DEF Acquire
  <2>2. ASSUME NEW wait, fetch' = [fetch EXCEPT ![f] =
                 IF @.waited + wait > MaxWait THEN Idle ELSE Slept(@, wait)]
        PROVE  Goal
    <3>1. Idle.at # "opening" /\ Slept(fetch[f], wait).at # "opening"
      BY <1>0, Numbers DEF Slept, Place, PlaceRecord
    <3> DEFINE p == IF fetch[f].waited + wait > MaxWait THEN Idle ELSE Slept(fetch[f], wait)
    <3>2. p.at # "opening" /\ fetch' = [fetch EXCEPT ![f] = p]
      BY <2>2, <3>1
    <3> QED
      BY <1>1, <1>5, <3>2 DEF Acquire
  <2> QED
    BY <1>5, <2>1, <2>2 DEF Acquire
<1>6. ASSUME NEW f \in Fetchers, Wake(f) PROVE Goal
  <2>1. Woken(fetch[f]).at # "opening"
    BY <1>0 DEF Woken, Place, PlaceRecord
  <2> QED
    BY <1>1, <1>6, <2>1 DEF Wake
<1>7. ASSUME NEW f \in Fetchers, NEW redirected \in BOOLEAN, Answered(f, redirected) PROVE Goal
  <2> DEFINE p == IF redirected /\ fetch[f].hop < MaxRedirects
                    THEN [Idle EXCEPT !.at = "asking", !.hop = fetch[f].hop + 1]
                    ELSE Idle
  <2>1. p.at # "opening" /\ fetch' = [fetch EXCEPT ![f] = p]
    BY <1>7 DEF Answered, Idle
  <2>2. UNCHANGED cause /\ failures'.count = 0 /\ sour' \in Nat
    BY <1>7 DEF Answered
  <2> QED
    BY <1>1, <2>1, <2>2
<1>8. ASSUME NEW f \in Fetchers, Abandoned(f) \/ ClearCounter(f) PROVE Goal
  <2>1. Idle.at # "opening" /\ fetch' = [fetch EXCEPT ![f] = Idle] /\ UNCHANGED <<cause, sour>>
    BY <1>8, Numbers DEF Abandoned, ClearCounter
  <2>2. UNCHANGED <<failures, sour>> \/ (failures'.count = 0 /\ sour' \in Nat)
    BY <1>0, <1>8 DEF Abandoned, ClearCounter
  <2> QED
    BY <1>1, <2>1, <2>2
<1>9. ASSUME NEW f \in Fetchers, NEW delay \in 0..MaxBackoff, BackOff(f, delay) PROVE Goal
  <2> DEFINE p == [fetch[f] EXCEPT !.at = "resting", !.until = now + delay]
  <2>1. p.at # "opening"
    BY <1>0 DEF Place, PlaceRecord
  <2>2. fetch' = [fetch EXCEPT ![f] = p]
    BY <1>9 DEF BackOff
  <2> QED
    BY <1>1, <1>9, <2>1, <2>2 DEF BackOff
<1>10. ASSUME NEW f \in Fetchers, Fail(f) PROVE Goal
  <2>1. Counted \in Nat /\ Counted <= sour + 1
    BY <1>0 DEF Counted, CauseInv
  <2>2. failures'.count = Counted /\ sour' = sour + 1 /\ cause' = [cause EXCEPT ![f] = sour + 1]
    BY <1>10 DEF Fail
  <2>3. ASSUME NEW g \in Fetchers, fetch'[g].at = "opening" PROVE cause'[g] >= Threshold
    <3>1. CASE g = f
      <4>1. Counted >= Threshold
        BY <1>0, <1>10, <2>3, <3>1, Numbers DEF Fail
      <4> QED
        BY <1>0, <2>1, <2>2, <3>1, <4>1
    <3>2. CASE g # f
      BY <1>0, <1>10, <2>2, <2>3, <3>2 DEF Fail, CauseInv
    <3> QED
      BY <3>1, <3>2
  <2> QED
    BY <2>1, <2>2, <2>3 DEF CauseInv
<1>11. ASSUME NEW f \in Fetchers, OpenCircuit(f) PROVE Goal
  BY <1>2, <1>11 DEF OpenCircuit
<1>12. CASE FetchNext
  <2> HIDE DEF Goal
  <2>1. Goal
    BY <1>3, <1>4, <1>5, <1>6, <1>7, <1>8, <1>9, <1>10, <1>11, <1>12, FetchCases
  <2> QED
    BY <2>1 DEF Goal
<1> QED
  BY <1>3, <1>12

(* Whoever opens the circuit has seen the provider fail Threshold times    *)
(* since its last success, whatever was counted, cleared or expired        *)
(* between its own count and its opening.                                  *)
THEOREM TheCircuitOpensForCause == FetchSpec => CircuitOpensForCause
<1>1. FetchInit => FetchInv /\ CauseInv
  BY Numbers DEF FetchInit, FetchInv, FetchTypeOK, Fresh, Place, PlaceRecord, CauseInv
<1>2. FetchInv /\ CauseInv /\ [FetchNext]_fetchVars => FetchInv' /\ CauseInv'
  BY FetchTypeStep, CauseStep
<1>3. CauseInv => \A f \in Fetchers : OpenCircuit(f) => cause[f] >= Threshold
  BY DEF CauseInv, OpenCircuit
<1> QED
  BY <1>1, <1>2, <1>3, PTL DEF FetchSpec, CircuitOpensForCause

-----------------------------------------------------------------------------
(* The end of a fetch.  Its steps are counted down in four places, as on a *)
(* clock face: the hops left, the attempts left in this one, the ticks it  *)
(* may still wait in this attempt, and how far it has got with it.         *)

HopsLeft(p)  == (MaxRedirects - p.hop) * StepsOfAHop
TriesLeft(p) == (MaxAttempts - p.try) * StepsOfATry
WaitLeft(p)  == 2 * (MaxWait - p.waited)

LEMMA StepsAddUp ==
  ASSUME NEW p \in PlaceRecord
  PROVE  /\ StepsOfATry \in Nat /\ StepsOfAHop \in Nat
         /\ HopsLeft(p) \in Nat /\ TriesLeft(p) \in Nat /\ WaitLeft(p) \in Nat
         /\ WaitLeft(p) <= 2 * MaxWait
         /\ p.at # "idle" =>
              /\ StepsFrom(p.at) \in 1..5
              /\ StepsToGo(p) = HopsLeft(p) + TriesLeft(p) + WaitLeft(p) + StepsFrom(p.at)
         /\ p.at = "idle" => StepsToGo(p) = 0
<1> USE Numbers
<1>1. StepsOfATry \in Nat
  BY DEF StepsOfATry
<1>2. StepsOfAHop \in Nat
  BY <1>1 DEF StepsOfAHop
<1>3. MaxRedirects - p.hop \in Nat /\ MaxAttempts - p.try \in Nat
  BY DEF PlaceRecord
<1>4. HopsLeft(p) \in Nat /\ TriesLeft(p) \in Nat
  BY <1>1, <1>2, <1>3 DEF HopsLeft, TriesLeft
<1>5. WaitLeft(p) \in Nat /\ WaitLeft(p) <= 2 * MaxWait
  BY DEF WaitLeft, PlaceRecord
<1>6. p.at # "idle" => StepsFrom(p.at) \in 1..5
  BY DEF StepsFrom, PlaceRecord, Places
<1>7. p.at # "idle" =>
        StepsToGo(p) = HopsLeft(p) + TriesLeft(p) + WaitLeft(p) + StepsFrom(p.at)
  BY DEF StepsToGo, HopsLeft, TriesLeft, WaitLeft
<1>8. p.at = "idle" => StepsToGo(p) = 0
  BY DEF StepsToGo
<1> QED
  BY <1>1, <1>2, <1>4, <1>5, <1>6, <1>7, <1>8

(* Ending a fetch, and going on within an attempt.                         *)
LEMMA OnwardIsLess ==
  ASSUME NEW p \in PlaceRecord, NEW q \in PlaceRecord, p.at # "idle",
         \/ q.at = "idle"
         \/ /\ q.hop = p.hop /\ q.try = p.try /\ q.waited = p.waited
            /\ StepsFrom(q.at) < StepsFrom(p.at)
         \/ /\ q.hop = p.hop /\ q.try = p.try /\ q.waited > p.waited
            /\ p.at = "asking" /\ q.at = "asleep"
  PROVE  StepsToGo(q) < StepsToGo(p)
<1>1. CASE q.at = "idle"
  BY <1>1, StepsAddUp
<1>2. CASE /\ q.at # "idle" /\ q.hop = p.hop /\ q.try = p.try /\ q.waited = p.waited
           /\ StepsFrom(q.at) < StepsFrom(p.at)
  <2>1. HopsLeft(q) = HopsLeft(p) /\ TriesLeft(q) = TriesLeft(p) /\ WaitLeft(q) = WaitLeft(p)
    BY <1>2 DEF HopsLeft, TriesLeft, WaitLeft
  <2> QED
    BY <1>2, <2>1, StepsAddUp
<1>3. CASE /\ q.hop = p.hop /\ q.try = p.try /\ q.waited > p.waited
           /\ p.at = "asking" /\ q.at = "asleep"
  <2>1. HopsLeft(q) = HopsLeft(p) /\ TriesLeft(q) = TriesLeft(p)
    BY <1>3 DEF HopsLeft, TriesLeft
  <2>2. WaitLeft(q) <= WaitLeft(p) - 2
    BY <1>3, Numbers DEF WaitLeft, PlaceRecord
  <2>3. StepsFrom(p.at) = 4 /\ StepsFrom(q.at) = 5
    BY <1>3 DEF StepsFrom
  <2> QED
    BY <1>3, <2>1, <2>2, <2>3, StepsAddUp
<1> QED
  BY <1>1, <1>2, <1>3

(* A retry is one attempt less, whatever it may wait again.                *)
LEMMA RetryIsLess ==
  ASSUME NEW p \in PlaceRecord, NEW q \in PlaceRecord,
         p.at = "resting", q.at = "asking", q.hop = p.hop, q.try = p.try + 1
  PROVE  StepsToGo(q) < StepsToGo(p)
<1> USE Numbers
<1>1. HopsLeft(q) = HopsLeft(p)
  BY DEF HopsLeft
<1>2. TriesLeft(p) = TriesLeft(q) + StepsOfATry
  <2> DEFINE a == MaxAttempts - q.try
  <2>1. a \in Int /\ MaxAttempts - p.try = a + 1
    BY DEF PlaceRecord
  <2>2. StepsOfATry \in Nat
    BY StepsAddUp
  <2> HIDE DEF a
  <2>3. (a + 1) * StepsOfATry = a * StepsOfATry + StepsOfATry
    BY <2>1, <2>2
  <2> QED
    BY <2>1, <2>3 DEF TriesLeft, a
<1>3. StepsFrom(p.at) = 2 /\ StepsFrom(q.at) = 4
  BY DEF StepsFrom
<1>4. StepsOfATry = 2 * MaxWait + 5
  BY DEF StepsOfATry
<1> QED
  BY <1>1, <1>2, <1>3, <1>4, StepsAddUp

(* A redirect is one hop less, whatever it may try again.                  *)
LEMMA RedirectIsLess ==
  ASSUME NEW p \in PlaceRecord, NEW q \in PlaceRecord,
         p.at = "sending", q.at = "asking", q.hop = p.hop + 1, q.try = 1
  PROVE  StepsToGo(q) < StepsToGo(p)
<1> USE Numbers
<1>0. StepsOfATry \in Nat /\ StepsOfAHop \in Nat
  BY StepsAddUp
<1>1. HopsLeft(p) = HopsLeft(q) + StepsOfAHop
  <2> DEFINE a == MaxRedirects - q.hop
  <2>1. a \in Int /\ MaxRedirects - p.hop = a + 1
    BY DEF PlaceRecord
  <2> HIDE DEF a
  <2>2. (a + 1) * StepsOfAHop = a * StepsOfAHop + StepsOfAHop
    BY <1>0, <2>1
  <2> QED
    BY <2>1, <2>2 DEF HopsLeft, a
<1>2. StepsOfAHop = TriesLeft(q) + StepsOfATry
  <2>1. MaxAttempts * StepsOfATry = (MaxAttempts - 1) * StepsOfATry + StepsOfATry
    BY <1>0
  <2> QED
    BY <2>1 DEF TriesLeft, StepsOfAHop
<1>3. StepsFrom(p.at) = 3 /\ StepsFrom(q.at) = 4
  BY DEF StepsFrom
<1>4. StepsOfATry = 2 * MaxWait + 5
  BY DEF StepsOfATry
<1> QED
  BY <1>1, <1>2, <1>3, <1>4, StepsAddUp

(* Who has to wait for tokens waits at least a tick.                       *)
LEMMA WaitsAreReal ==
  ASSUME NEW units \in Nat, units < Cost
  PROVE  WaitFor(units) \in Nat /\ WaitFor(units) >= 1
<1> USE FetchAssumption
<1> DEFINE n == Cost - units + Rate - 1
<1>1. n \in Nat /\ Rate \in Nat /\ Rate > 0 /\ n >= Rate
  OBVIOUS
<1> HIDE DEF n
<1>2. n \div Rate \in Nat /\ n \div Rate >= 1
  BY <1>1
<1> QED
  BY <1>2 DEF WaitFor, n

(* What a step does to the fetch that takes it, and to its sleep.          *)
Onward(f, p) ==
  /\ fetch' = [fetch EXCEPT ![f] = p]
  /\ fetch[f].at # "idle" => StepsToGo(p) < StepsToGo(fetch[f])
  /\ p.at \in {"asleep", "resting"} => p.until <= now + MaxWait \/ p.until <= now + MaxBackoff

LEMMA EveryStepIsOnward ==
  ASSUME FetchInv, FetchInv', FetchNext
  PROVE  \/ UNCHANGED fetch /\ now' \in {now, now + 1}
         \/ now' = now /\ \E f \in Fetchers, p \in PlaceRecord : Onward(f, p)
<1> DEFINE Goal == \/ UNCHANGED fetch /\ now' \in {now, now + 1}
                   \/ now' = now /\ \E f \in Fetchers, p \in PlaceRecord : Onward(f, p)
<1>0. /\ \A f \in Fetchers : fetch[f] \in PlaceRecord /\ fetch'[f] \in PlaceRecord
      /\ fetch \in [Fetchers -> PlaceRecord]
      /\ now \in Nat
  BY DEF FetchInv, FetchTypeOK, PlaceRecord
<1>here. ASSUME NEW f \in Fetchers, NEW p, fetch' = [fetch EXCEPT ![f] = p], now' = now,
                fetch[f].at # "idle" => StepsToGo(p) < StepsToGo(fetch[f]),
                p.at \in {"asleep", "resting"} =>
                  p.until <= now + MaxWait \/ p.until <= now + MaxBackoff
         PROVE  Goal
  <2>1. fetch'[f] = p
    BY <1>0, <1>here
  <2> QED
    BY <1>0, <1>here, <2>1 DEF Onward
<1>typed. ASSUME NEW f \in Fetchers, NEW p, fetch' = [fetch EXCEPT ![f] = p]
          PROVE  p \in PlaceRecord
  BY <1>0, <1>typed
<1> USE Numbers
<1>1. Tick => Goal
  BY DEF Tick
<1>2. Expire => Goal
  BY <1>0 DEF Expire
<1>3. ASSUME NEW f \in Fetchers, Start(f) PROVE Goal
  <2> DEFINE p == [fetch[f] EXCEPT !.at = "asking"]
  <2>1. fetch' = [fetch EXCEPT ![f] = p] /\ now' = now /\ fetch[f].at = "idle"
    BY <1>3 DEF Start, Go
  <2>2. p.at = "asking"
    BY <1>0 DEF PlaceRecord
  <2> QED
    BY <1>here, <2>1, <2>2
<1>go. ASSUME NEW f \in Fetchers, NEW at \in {"sending", "clearing", "asking"},
              Go(f, at), now' = now, fetch[f].at # "idle",
              StepsFrom(at) < StepsFrom(fetch[f].at)
       PROVE  Goal
  <2> DEFINE p == [fetch[f] EXCEPT !.at = at]
  <2>1. fetch' = [fetch EXCEPT ![f] = p]
    BY <1>go DEF Go
  <2>2. p \in PlaceRecord
    BY <1>typed, <2>1
  <2>3. p.at = at /\ p.hop = fetch[f].hop /\ p.try = fetch[f].try /\ p.waited = fetch[f].waited
    BY <1>0 DEF PlaceRecord
  <2>4. StepsToGo(p) < StepsToGo(fetch[f])
    BY <1>0, <1>go, <2>2, <2>3, OnwardIsLess
  <2> QED
    BY <1>go, <1>here, <2>1, <2>3, <2>4
<1>end. ASSUME NEW f \in Fetchers, fetch' = [fetch EXCEPT ![f] = Idle], now' = now,
               fetch[f].at # "idle"
        PROVE  Goal
  <2>1. Idle \in PlaceRecord
    BY DEF Place
  <2>2. StepsToGo(Idle) < StepsToGo(fetch[f])
    BY <1>0, <1>end, <2>1, OnwardIsLess
  <2> QED
    BY <1>end, <1>here, <2>2
<1>4. ASSUME NEW f \in Fetchers, Acquire(f) PROVE Goal
  <2> DEFINE units == Refilled(f)
             wait  == WaitFor(units)
  <2>1. fetch[f].at = "asking" /\ now' = now
    BY <1>4 DEF Acquire
  <2>2. units \in Nat
    BY RefillType DEF FetchInv
  <2>3. CASE units >= Cost
    <3>1. Go(f, "sending")
      BY <1>4, <2>2, <2>3 DEF Acquire
    <3>2. StepsFrom("sending") < StepsFrom("asking")
      BY DEF StepsFrom
    <3> QED
      BY <1>go, <2>1, <3>1, <3>2
  <2>4. CASE units < Cost /\ fetch[f].waited + wait > MaxWait
    <3>1. fetch' = [fetch EXCEPT ![f] = Idle]
      BY <1>4, <2>2, <2>4 DEF Acquire
    <3> QED
      BY <1>end, <2>1, <3>1
  <2>5. CASE units < Cost /\ ~(fetch[f].waited + wait > MaxWait)
    <3> DEFINE p == Slept(fetch[f], wait)
    <3>1. fetch' = [fetch EXCEPT ![f] = p]
      BY <1>4, <2>2, <2>5 DEF Acquire
    <3>2. wait \in Nat /\ wait >= 1
      BY <2>2, <2>5, WaitsAreReal
    <3>3. p \in PlaceRecord
      BY <1>typed, <3>1
    <3> HIDE DEF wait
    <3>4. /\ p.at = "asleep" /\ p.hop = fetch[f].hop /\ p.try = fetch[f].try
          /\ p.waited = fetch[f].waited + wait /\ p.until = now + wait
      BY <1>0 DEF PlaceRecord, Slept
    <3>5. fetch[f].waited \in Nat /\ wait <= MaxWait
      BY <1>0, <2>5, <3>2 DEF PlaceRecord
    <3>6. StepsToGo(p) < StepsToGo(fetch[f])
      BY <1>0, <2>1, <3>2, <3>3, <3>4, <3>5, OnwardIsLess
    <3>7. p.until <= now + MaxWait
      BY <1>0, <3>2, <3>4, <3>5
    <3> HIDE DEF p
    <3> QED
      BY <1>here, <2>1, <3>1, <3>6, <3>7
  <2> QED
    BY <2>2, <2>3, <2>4, <2>5
<1>5. ASSUME NEW f \in Fetchers, Wake(f) PROVE Goal
  <2> DEFINE p == Woken(fetch[f])
  <2>1. fetch' = [fetch EXCEPT ![f] = p] /\ now' = now /\ fetch[f].at \in {"asleep", "resting"}
    BY <1>5 DEF Wake
  <2>2. p \in PlaceRecord
    BY <1>typed, <2>1
  <2>3. CASE fetch[f].at = "asleep"
    <3>1. /\ p.at = "asking" /\ p.hop = fetch[f].hop
          /\ p.try = fetch[f].try /\ p.waited = fetch[f].waited
      BY <1>0, <2>3 DEF Woken, PlaceRecord
    <3>2. StepsFrom(p.at) < StepsFrom(fetch[f].at)
      BY <2>3, <3>1 DEF StepsFrom
    <3>3. StepsToGo(p) < StepsToGo(fetch[f])
      BY <1>0, <2>1, <2>2, <3>1, <3>2, OnwardIsLess
    <3> HIDE DEF p
    <3> QED
      BY <1>here, <2>1, <3>1, <3>3
  <2>4. CASE fetch[f].at = "resting"
    <3>1. p.at = "asking" /\ p.hop = fetch[f].hop /\ p.try = fetch[f].try + 1
      BY <1>0, <2>4 DEF Woken, PlaceRecord
    <3>2. StepsToGo(p) < StepsToGo(fetch[f])
      BY <1>0, <2>2, <2>4, <3>1, RetryIsLess
    <3> HIDE DEF p
    <3> QED
      BY <1>here, <2>1, <3>1, <3>2
  <2> QED
    BY <2>1, <2>3, <2>4
<1>6. ASSUME NEW f \in Fetchers, NEW redirected \in BOOLEAN, Answered(f, redirected) PROVE Goal
  <2>1. fetch[f].at = "sending" /\ now' = now
    BY <1>6 DEF Answered
  <2>2. CASE redirected /\ fetch[f].hop < MaxRedirects
    <3> DEFINE p == [Idle EXCEPT !.at = "asking", !.hop = fetch[f].hop + 1]
    <3>1. fetch' = [fetch EXCEPT ![f] = p]
      BY <1>6, <2>2 DEF Answered
    <3>2. p \in PlaceRecord
      BY <1>typed, <3>1
    <3>3. p.at = "asking" /\ p.hop = fetch[f].hop + 1 /\ p.try = 1
      BY DEF Idle
    <3>4. StepsToGo(p) < StepsToGo(fetch[f])
      BY <1>0, <2>1, <3>2, <3>3, RedirectIsLess
    <3> HIDE DEF p
    <3> QED
      BY <1>here, <2>1, <3>1, <3>3, <3>4
  <2>3. CASE ~(redirected /\ fetch[f].hop < MaxRedirects)
    <3>1. fetch' = [fetch EXCEPT ![f] = Idle]
      BY <1>6, <2>3 DEF Answered
    <3> QED
      BY <1>end, <2>1, <3>1
  <2> QED
    BY <2>2, <2>3
<1>7. ASSUME NEW f \in Fetchers, Abandoned(f) PROVE Goal
  <2>1. fetch' = [fetch EXCEPT ![f] = Idle] /\ now' = now /\ fetch[f].at = "sending"
    BY <1>7 DEF Abandoned
  <2> QED
    BY <1>end, <2>1
<1>8. ASSUME NEW f \in Fetchers, NEW delay \in 0..MaxBackoff, BackOff(f, delay) PROVE Goal
  <2> DEFINE p == [fetch[f] EXCEPT !.at = "resting", !.until = now + delay]
  <2>1. fetch' = [fetch EXCEPT ![f] = p] /\ now' = now /\ fetch[f].at = "sending"
    BY <1>8 DEF BackOff
  <2>2. p \in PlaceRecord
    BY <1>typed, <2>1
  <2>3. /\ p.at = "resting" /\ p.hop = fetch[f].hop /\ p.try = fetch[f].try
        /\ p.waited = fetch[f].waited /\ p.until = now + delay
    BY <1>0 DEF PlaceRecord
  <2>4. StepsFrom(p.at) < StepsFrom(fetch[f].at)
    BY <2>1, <2>3 DEF StepsFrom
  <2>5. StepsToGo(p) < StepsToGo(fetch[f])
    BY <1>0, <2>1, <2>2, <2>3, <2>4, OnwardIsLess
  <2>6. p.until <= now + MaxBackoff
    BY <1>0, <2>3
  <2> HIDE DEF p
  <2> QED
    BY <1>here, <2>1, <2>5, <2>6
<1>9. ASSUME NEW f \in Fetchers, Fail(f) PROVE Goal
  <2>1. fetch[f].at = "sending" /\ now' = now
    BY <1>9 DEF Fail
  <2>2. CASE Counted >= Threshold
    <3> DEFINE p == [fetch[f] EXCEPT !.at = "opening"]
    <3>1. fetch' = [fetch EXCEPT ![f] = p]
      BY <1>9, <2>2 DEF Fail
    <3>2. p \in PlaceRecord
      BY <1>typed, <3>1
    <3>3. /\ p.at = "opening" /\ p.hop = fetch[f].hop /\ p.try = fetch[f].try
          /\ p.waited = fetch[f].waited
      BY <1>0 DEF PlaceRecord
    <3>4. StepsFrom(p.at) < StepsFrom(fetch[f].at)
      BY <2>1, <3>3 DEF StepsFrom
    <3>5. StepsToGo(p) < StepsToGo(fetch[f])
      BY <1>0, <2>1, <3>2, <3>3, <3>4, OnwardIsLess
    <3> HIDE DEF p
    <3> QED
      BY <1>here, <2>1, <3>1, <3>3, <3>5
  <2>3. CASE ~(Counted >= Threshold)
    <3>1. fetch' = [fetch EXCEPT ![f] = Idle]
      BY <1>9, <2>3 DEF Fail
    <3> QED
      BY <1>end, <2>1, <3>1
  <2> QED
    BY <2>2, <2>3
<1>10. ASSUME NEW f \in Fetchers, OpenCircuit(f) PROVE Goal
  <2>1. fetch[f].at = "opening" /\ Go(f, "clearing") /\ now' = now
    BY <1>10 DEF OpenCircuit
  <2>2. StepsFrom("clearing") < StepsFrom("opening")
    BY DEF StepsFrom
  <2> QED
    BY <1>go, <2>1, <2>2
<1>11. ASSUME NEW f \in Fetchers, ClearCounter(f) PROVE Goal
  <2>1. fetch' = [fetch EXCEPT ![f] = Idle] /\ now' = now /\ fetch[f].at = "clearing"
    BY <1>11 DEF ClearCounter
  <2> QED
    BY <1>end, <2>1
<1> HIDE DEF Goal
<1>12. Goal
  BY <1>1, <1>2, <1>3, <1>4, <1>5, <1>6, <1>7, <1>8, <1>9, <1>10, <1>11, FetchCases
<1> QED
  BY <1>12 DEF Goal

(* Whatever the others take out of the bucket and whatever the provider    *)
(* answers, each step of a fetch brings its end nearer.                    *)
THEOREM EveryFetchGetsShorter == FetchSpec => FetchesGetShorter
<1> DEFINE Shorter == \A f \in Fetchers : fetch[f].at # "idle" =>
                        \/ fetch'[f] = fetch[f]
                        \/ StepsToGo(fetch'[f]) < StepsToGo(fetch[f])
<1>1. FetchInit => FetchInv
  BY Numbers DEF FetchInit, FetchInv, FetchTypeOK, Fresh, Place, PlaceRecord
<1>2. FetchInv /\ [FetchNext]_fetchVars => FetchInv'
  BY FetchTypeStep
<1>3. ASSUME FetchInv, FetchInv', FetchNext PROVE Shorter
  <2>1. ASSUME NEW f \in Fetchers, NEW p \in PlaceRecord, Onward(f, p) PROVE Shorter
    <3>1. fetch' = [fetch EXCEPT ![f] = p] /\ fetch \in [Fetchers -> Place]
      BY <1>3, <2>1 DEF Onward, FetchInv
    <3> QED
      BY <2>1, <3>1 DEF Onward
  <2>2. CASE UNCHANGED fetch
    BY <2>2
  <2> QED
    BY <1>3, <2>1, <2>2, EveryStepIsOnward
<1>4. FetchInv /\ FetchInv' /\ [FetchNext]_fetchVars => [Shorter]_fetchVars
  BY <1>3
<1> HIDE DEF Shorter
<1> QED
  BY <1>1, <1>2, <1>4, PTL DEF FetchSpec, FetchesGetShorter, Shorter

(* No fetch sleeps longer than the longest wait or back-off.               *)
THEOREM NoSleepIsLong == FetchSpec => []SleepsAreShort
<1> DEFINE ShortInv == \A f \in Fetchers : fetch[f].at \in {"asleep", "resting"} =>
             fetch[f].until <= now + MaxWait \/ fetch[f].until <= now + MaxBackoff
<1>1. FetchInit => FetchInv /\ ShortInv
  BY Numbers DEF FetchInit, FetchInv, FetchTypeOK, Fresh, Place, PlaceRecord
<1>2. FetchInv /\ [FetchNext]_fetchVars => FetchInv'
  BY FetchTypeStep
<1>3. ASSUME FetchInv, FetchInv', ShortInv, FetchNext PROVE ShortInv'
  <2>0. /\ fetch \in [Fetchers -> Place] /\ now \in Nat
        /\ \A f \in Fetchers : fetch[f].until \in Nat
    BY <1>3 DEF FetchInv, FetchTypeOK, Place
  <2>1. ASSUME now' = now, NEW f \in Fetchers, NEW p \in PlaceRecord, Onward(f, p)
        PROVE  ShortInv'
    <3>1. fetch' = [fetch EXCEPT ![f] = p]
      BY <2>1 DEF Onward
    <3> QED
      BY <1>3, <2>0, <2>1, <3>1 DEF Onward
  <2>2. CASE UNCHANGED fetch /\ now' \in {now, now + 1}
    BY <1>3, <2>0, <2>2, Numbers
  <2> QED
    BY <1>3, <2>1, <2>2, EveryStepIsOnward
<1>4. FetchInv /\ FetchInv' /\ ShortInv /\ [FetchNext]_fetchVars => ShortInv'
  BY <1>3 DEF fetchVars
<1>5. ShortInv => SleepsAreShort
  BY DEF SleepsAreShort, Resting
<1> HIDE DEF ShortInv
<1> QED
  BY <1>1, <1>2, <1>4, <1>5, PTL DEF FetchSpec

-----------------------------------------------------------------------------
(* ArtefactStore.                                                          *)

(* The actions by what they change.                                        *)
LEMMA StoreCases ==
  ASSUME StoreNext,
         NEW Goal,
         \A a \in Archivers, doc \in Document : Put(a, doc) => Goal,
         \A a \in Archivers : RecordFetched(a) => Goal,
         \A a \in Archivers : CommitDocument(a) => Goal,
         \A a \in Archivers : LoseArchiver(a) => Goal,
         \A doc \in documents : DropDocument(doc) => Goal,
         \A d \in Digests : BeginPurge(d) => Goal,
         \A d \in Digests : CollectBytes(d) => Goal,
         \A d \in Digests : Rot(d) => Goal,
         \A d \in Digests : CopyFile(d) => Goal,
         EmptyStore => Goal,
         CommitPurge => Goal,
         BeginCollection => Goal,
         CommitCollection => Goal,
         LoseKeeper => Goal,
         DumpDatabase => Goal,
         Restore => Goal
  PROVE  Goal
BY DEF StoreNext

-----------------------------------------------------------------------------
(* Types.                                                                  *)

ArchiverStates == [at : {"rest", "stored", "found", "inserted"}, on : SUBSET Document]
KeeperStates   == [at : {"rest", "purging", "emptied", "collecting"},
                    on : SUBSET Digests, left : SUBSET Digests]
Dumps          == [artefacts : SUBSET Digests, documents : SUBSET Document,
                   purges : SUBSET Digests]

LEMMA AtRestTyped == AtRest \in ArchiverStates /\ Unused \in KeeperStates
BY DEF AtRest, Unused, ArchiverStates, KeeperStates

LEMMA StoreTypeInit == StoreInit => StoreTypeOK
<1> SUFFICES ASSUME StoreInit PROVE StoreTypeOK
  OBVIOUS
<1>1. file \in [Digests -> Files] /\ copy \in [Digests -> Files \cup {"uncopied"}]
  BY DEF StoreInit, Files
<1>2. archiver \in [Archivers -> ArchiverStates] /\ keeper \in KeeperStates
  BY AtRestTyped DEF StoreInit
<1>3. artefacts \subseteq Digests /\ documents \subseteq Document /\ purges \subseteq Digests
  BY DEF StoreInit
<1>4. dump \in SUBSET Dumps
  BY DEF StoreInit, NotTaken
<1>5. torn \in BOOLEAN /\ rots \in Nat /\ deaths \in Nat
  BY DEF StoreInit
<1> QED
  BY <1>1, <1>2, <1>3, <1>4, <1>5 DEF StoreTypeOK, ArchiverStates, KeeperStates, Dumps

LEMMA StoreTypeStep == StoreTypeOK /\ [StoreNext]_storeVars => StoreTypeOK'
<1> SUFFICES ASSUME StoreTypeOK, [StoreNext]_storeVars PROVE StoreTypeOK'
  OBVIOUS
<1> DEFINE Goal == StoreTypeOK'
<1> USE DEF rows, backup, bounds
<1>typed. /\ file \in [Digests -> Files]
          /\ artefacts \subseteq Digests
          /\ documents \subseteq Document
          /\ purges \subseteq Digests
          /\ archiver \in [Archivers -> ArchiverStates]
          /\ keeper \in KeeperStates
          /\ dump \in SUBSET Dumps
          /\ copy \in [Digests -> Files \cup {"uncopied"}]
          /\ torn \in BOOLEAN
          /\ rots \in Nat
          /\ deaths \in Nat
  BY DEF StoreTypeOK, ArchiverStates, KeeperStates, Dumps
<1>goal. ASSUME file' \in [Digests -> Files],
                artefacts' \subseteq Digests,
                documents' \subseteq Document,
                purges' \subseteq Digests,
                archiver' \in [Archivers -> ArchiverStates],
                keeper' \in KeeperStates,
                dump' \in SUBSET Dumps,
                copy' \in [Digests -> Files \cup {"uncopied"}],
                torn' \in BOOLEAN,
                rots' \in Nat,
                deaths' \in Nat
         PROVE  Goal
  BY <1>goal DEF StoreTypeOK, ArchiverStates, KeeperStates, Dumps
<1> HIDE DEF Goal
<1>1. ASSUME NEW a \in Archivers, NEW doc \in Document, Put(a, doc) PROVE Goal
  <2>1. file' \in [Digests -> Files]
    BY <1>1, <1>typed DEF Put, Files
  <2>2. [at |-> "stored", on |-> {doc}] \in ArchiverStates
    BY DEF ArchiverStates
  <2>3. archiver' \in [Archivers -> ArchiverStates]
    BY <1>1, <1>typed, <2>2 DEF Put
  <2> QED
    BY <1>1, <1>typed, <1>goal, <2>1, <2>3 DEF Put
<1>2. ASSUME NEW a \in Archivers, RecordFetched(a) PROVE Goal
  <2>1. PICK doc \in archiver[a].on : archiver' = [archiver EXCEPT ![a] =
          IF InStore(doc.of)
          THEN [at |-> IF doc.of \in artefacts THEN "found" ELSE "inserted", on |-> {doc}]
          ELSE AtRest]
    BY <1>2 DEF RecordFetched
  <2>2. doc \in Document
    BY <1>typed, <2>1 DEF ArchiverStates
  <2>3. [at |-> IF doc.of \in artefacts THEN "found" ELSE "inserted", on |-> {doc}]
          \in ArchiverStates
    BY <2>2 DEF ArchiverStates
  <2>4. archiver' \in [Archivers -> ArchiverStates]
    BY <1>typed, <2>1, <2>3, AtRestTyped
  <2> QED
    BY <1>2, <1>typed, <1>goal, <2>4 DEF RecordFetched
<1>3. ASSUME NEW a \in Archivers, CommitDocument(a) PROVE Goal
  <2>1. archiver' \in [Archivers -> ArchiverStates]
    BY <1>3, <1>typed, AtRestTyped DEF CommitDocument
  <2>2. \A doc \in archiver[a].on : doc \in Document /\ doc.of \in Digests
    BY <1>typed DEF ArchiverStates, Document
  <2>3. artefacts' \subseteq Digests /\ documents' \subseteq Document
    BY <1>3, <1>typed, <2>2 DEF CommitDocument
  <2> QED
    BY <1>3, <1>typed, <1>goal, <2>1, <2>3 DEF CommitDocument
<1>4. ASSUME NEW a \in Archivers, LoseArchiver(a) PROVE Goal
  <2>1. archiver' \in [Archivers -> ArchiverStates] /\ deaths' \in Nat
    BY <1>4, <1>typed, AtRestTyped DEF LoseArchiver
  <2> QED
    BY <1>4, <1>typed, <1>goal, <2>1 DEF LoseArchiver
<1>5. ASSUME NEW doc \in documents, DropDocument(doc) PROVE Goal
  BY <1>5, <1>typed, <1>goal DEF DropDocument
<1>6. ASSUME NEW d \in Digests, BeginPurge(d) PROVE Goal
  <2>1. keeper' \in KeeperStates
    BY <1>6 DEF BeginPurge, KeeperStates
  <2> QED
    BY <1>6, <1>typed, <1>goal, <2>1 DEF BeginPurge
<1>7. ASSUME NEW d \in Digests, CollectBytes(d) PROVE Goal
  <2>1. file' \in [Digests -> Files]
    BY <1>7, <1>typed DEF CollectBytes, Files
  <2>2. keeper' \in KeeperStates
    BY <1>7, <1>typed DEF CollectBytes, KeeperStates
  <2>3. torn' \in BOOLEAN
    BY <1>7, <1>typed DEF CollectBytes, Copying, Complete
  <2> QED
    BY <1>7, <1>typed, <1>goal, <2>1, <2>2, <2>3 DEF CollectBytes
<1>8. ASSUME NEW d \in Digests, Rot(d) PROVE Goal
  <2>1. file' \in [Digests -> Files] /\ rots' \in Nat
    BY <1>8, <1>typed DEF Rot, Files
  <2> QED
    BY <1>8, <1>typed, <1>goal, <2>1 DEF Rot
<1>9. ASSUME NEW d \in Digests, CopyFile(d) PROVE Goal
  <2>1. copy' \in [Digests -> Files \cup {"uncopied"}]
    BY <1>9, <1>typed DEF CopyFile
  <2> QED
    BY <1>9, <1>typed, <1>goal, <2>1 DEF CopyFile
<1>10. ASSUME EmptyStore PROVE Goal
  <2>1. file' \in [Digests -> Files]
    BY <1>10, <1>typed DEF EmptyStore, Files
  <2>2. keeper' \in KeeperStates
    BY <1>10, <1>typed DEF EmptyStore, KeeperStates
  <2>3. torn' \in BOOLEAN
    BY <1>10, <1>typed DEF EmptyStore, Copying, Complete
  <2> QED
    BY <1>10, <1>typed, <1>goal, <2>1, <2>2, <2>3 DEF EmptyStore
<1>11. ASSUME CommitPurge PROVE Goal
  <2>1. keeper.on \subseteq Digests
    BY <1>typed DEF KeeperStates
  <2> QED
    BY <1>11, <1>typed, <1>goal, <2>1, AtRestTyped DEF CommitPurge
<1>12. ASSUME BeginCollection PROVE Goal
  <2>1. keeper' \in KeeperStates
    BY <1>12, <1>typed DEF BeginCollection, KeeperStates, Orphans
  <2> QED
    BY <1>12, <1>typed, <1>goal, <2>1 DEF BeginCollection
<1>13. ASSUME CommitCollection PROVE Goal
  BY <1>13, <1>typed, <1>goal, AtRestTyped DEF CommitCollection
<1>14. ASSUME LoseKeeper PROVE Goal
  <2>1. deaths' \in Nat
    BY <1>14, <1>typed DEF LoseKeeper
  <2> QED
    BY <1>14, <1>typed, <1>goal, <2>1, AtRestTyped DEF LoseKeeper
<1>15. ASSUME DumpDatabase PROVE Goal
  <2>1. Dumped \in Dumps
    BY <1>typed DEF Dumped, Dumps
  <2>2. torn' \in BOOLEAN
    BY <1>15 DEF DumpDatabase
  <2> QED
    BY <1>15, <1>typed, <1>goal, <2>1, <2>2 DEF DumpDatabase
<1>16. ASSUME Restore PROVE Goal
  <2>1. \A d \in Digests : RestoredFile(d) \in Files
    BY <1>16, <1>typed DEF Restore, Complete, RestoredFile
  <2>2. file' \in [Digests -> Files]
    BY <1>16, <2>1 DEF Restore
  <2>3. /\ artefacts' \subseteq Digests
        /\ documents' \subseteq Document
        /\ purges' \subseteq Digests
    BY <1>16, <1>typed DEF Restore, Dumps
  <2> QED
    BY <1>16, <1>typed, <1>goal, <2>2, <2>3 DEF Restore
<1>17. ASSUME UNCHANGED storeVars PROVE Goal
  BY <1>17, <1>typed, <1>goal DEF storeVars
<1>18. ASSUME StoreNext PROVE Goal
  BY <1>1, <1>2, <1>3, <1>4, <1>5, <1>6, <1>7, <1>8, <1>9, <1>10, <1>11, <1>12, <1>13,
     <1>14, <1>15, <1>16, <1>18, StoreCases
<1>19. Goal
  BY <1>17, <1>18
<1> QED
  BY <1>19 DEF Goal

(* The store, the rows, the keeper and the backup keep their types.        *)
THEOREM StoreTypeCorrect == StoreSpec => []StoreTypeOK
BY StoreTypeInit, StoreTypeStep, PTL DEF StoreSpec

-----------------------------------------------------------------------------
(* What a sweep that is kept away from the runs may delete, nothing cites; *)
(* what a purge deletes goes on record next; and a backup nothing was      *)
(* erased under has the bytes of all its database cites.                   *)

KeptOrErased(doc) == file[doc.of] = "absent" => Erased(doc.of)

DumpIsWhole(saved) == \A doc \in saved.documents :
  doc.of \notin saved.purges =>
    /\ copy[doc.of] # "absent"
    /\ copy[doc.of] = "uncopied" => file[doc.of] # "absent"

Clean == CollectsAlone /\ deaths = 0 /\ ~torn

CleanInv ==
  /\ \A doc \in documents : KeptOrErased(doc)
  /\ \A a \in Archivers : archiver[a].at \in {"found", "inserted"} =>
       \A doc \in archiver[a].on : KeptOrErased(doc)
  /\ keeper.at = "collecting" =>
       /\ keeper.left \subseteq keeper.on
       /\ \A a \in Archivers : archiver[a] = AtRest
       /\ \A doc \in documents : doc.of \notin keeper.on
  /\ \A saved \in dump : DumpIsWhole(saved)

(* A copy not yet begun copies nothing; an erasure is only torn once the   *)
(* database is dumped.                                                     *)
Unbegun == dump = NotTaken => ~torn /\ \A d \in Digests : copy[d] = "uncopied"

LEMMA UnbegunStep ==
  ASSUME StoreTypeOK, Unbegun, [StoreNext]_storeVars PROVE Unbegun'
<1> DEFINE Goal == Unbegun'
<1> USE DEF rows, backup, bounds
<1>same. ASSUME dump' # NotTaken \/ UNCHANGED <<dump, torn, copy>> PROVE Goal
  BY <1>same DEF Unbegun
<1>1. ASSUME UNCHANGED storeVars PROVE Goal
  BY <1>1, <1>same DEF storeVars
<1>2. ASSUME StoreNext PROVE Goal
  <2>1. \A d \in Digests : CollectBytes(d) => Goal
    BY DEF CollectBytes, Copying, Unbegun
  <2>2. EmptyStore => Goal
    BY DEF EmptyStore, Copying, Unbegun
  <2>3. DumpDatabase => Goal
    BY <1>same DEF DumpDatabase, NotTaken
  <2>4. \A d \in Digests : CopyFile(d) => Goal
    BY <1>same DEF CopyFile
  <2>5. \A a \in Archivers :
          /\ \A doc \in Document : Put(a, doc) => Goal
          /\ RecordFetched(a) \/ CommitDocument(a) \/ LoseArchiver(a) => Goal
    BY <1>same DEF Put, RecordFetched, CommitDocument, LoseArchiver
  <2>6. \A doc \in documents : DropDocument(doc) => Goal
    BY <1>same DEF DropDocument
  <2>7. \A d \in Digests : BeginPurge(d) \/ Rot(d) => Goal
    BY <1>same DEF BeginPurge, Rot
  <2>8. CommitPurge \/ BeginCollection \/ CommitCollection \/ LoseKeeper \/ Restore => Goal
    BY <1>same DEF CommitPurge, BeginCollection, CommitCollection, LoseKeeper, Restore
  <2> HIDE DEF Goal
  <2> QED
    BY <1>2, <2>1, <2>2, <2>3, <2>4, <2>5, <2>6, <2>7, <2>8, StoreCases
<1> QED
  BY <1>1, <1>2

LEMMA KeptStep ==
  ASSUME StoreTypeOK, Unbegun, Clean => CleanInv, [StoreNext]_storeVars, Clean'
  PROVE  CleanInv'
<1> DEFINE Goal == CleanInv'
<1> USE DEF rows, backup, bounds
<1>typed. /\ file \in [Digests -> Files]
          /\ documents \subseteq Document
          /\ archiver \in [Archivers -> ArchiverStates]
          /\ keeper \in KeeperStates
          /\ dump \in SUBSET Dumps
          /\ copy \in [Digests -> Files \cup {"uncopied"}]
          /\ deaths \in Nat
  BY DEF StoreTypeOK, ArchiverStates, KeeperStates, Dumps
<1>of. /\ \A doc \in Document : doc.of \in Digests
       /\ \A doc \in documents : doc.of \in Digests
       /\ \A a \in Archivers : archiver[a].on \subseteq Document
       /\ \A saved \in dump : saved.documents \subseteq Document
       /\ keeper.on \subseteq Digests
  BY <1>typed DEF Document, ArchiverStates, KeeperStates, Dumps
<1>rest. /\ AtRest.at = "rest" /\ AtRest.on = {}
         /\ Unused.at = "rest" /\ Unused.on = {} /\ Unused.left = {}
  BY DEF AtRest, Unused
<1>clean. ASSUME torn' = torn, deaths' = deaths PROVE CleanInv
  BY <1>clean DEF Clean
(* nothing is erased, dumped or collected                                  *)
<1>calm. ASSUME torn' = torn, deaths' = deaths, UNCHANGED <<dump, copy, purges>>,
                \A d \in Digests : file'[d] = "absent" => file[d] = "absent",
                keeper' = keeper
         PROVE  /\ CleanInv
                /\ \A doc \in Document : KeptOrErased(doc) => KeptOrErased(doc)'
                /\ \A saved \in dump' : DumpIsWhole(saved)'
  <2>1. CleanInv
    BY <1>calm, <1>clean
  <2>2. \A doc \in Document : KeptOrErased(doc) => KeptOrErased(doc)'
    BY <1>calm, <1>of DEF KeptOrErased, Erased
  <2>3. \A saved \in dump' : DumpIsWhole(saved)'
    BY <1>calm, <1>of, <2>1 DEF CleanInv, DumpIsWhole
  <2> QED
    BY <2>1, <2>2, <2>3
<1>1. ASSUME NEW a \in Archivers, NEW doc \in Document, Put(a, doc) PROVE Goal
  <2>1. \A d \in Digests : file'[d] = "absent" => file[d] = "absent"
    BY <1>1, <1>typed DEF Put
  <2>2. /\ CleanInv
        /\ \A c \in Document : KeptOrErased(c) => KeptOrErased(c)'
        /\ \A saved \in dump' : DumpIsWhole(saved)'
    BY <1>1, <1>calm, <2>1 DEF Put
  <2>3. keeper'.at # "collecting"
    BY <1>1 DEF Put, Clean
  <2>4. documents' = documents /\ \A b \in Archivers : archiver'[b].at \in {"found", "inserted"} =>
          b # a /\ archiver'[b] = archiver[b]
    BY <1>1, <1>typed DEF Put
  <2> QED
    BY <1>typed, <1>of, <2>2, <2>3, <2>4 DEF CleanInv
<1>2. ASSUME NEW a \in Archivers, RecordFetched(a) PROVE Goal
  <2>1. PICK doc \in archiver[a].on : archiver' = [archiver EXCEPT ![a] =
          IF InStore(doc.of)
          THEN [at |-> IF doc.of \in artefacts THEN "found" ELSE "inserted", on |-> {doc}]
          ELSE AtRest]
    BY <1>2 DEF RecordFetched
  <2>2. /\ CleanInv
        /\ \A c \in Document : KeptOrErased(c) => KeptOrErased(c)'
        /\ \A saved \in dump' : DumpIsWhole(saved)'
    BY <1>2, <1>calm DEF RecordFetched
  <2>3. archiver[a] # AtRest /\ keeper'.at # "collecting"
    BY <1>2, <1>rest, <2>2 DEF RecordFetched, CleanInv
  <2>4. \A b \in Archivers : b # a => archiver'[b] = archiver[b]
    BY <1>typed, <2>1
  <2>5. archiver'[a].at \in {"found", "inserted"} => \A c \in archiver'[a].on : KeptOrErased(c)'
    <3> SUFFICES ASSUME archiver'[a].at \in {"found", "inserted"}
                 PROVE  \A c \in archiver'[a].on : KeptOrErased(c)'
      OBVIOUS
    <3>1. InStore(doc.of)
      BY <1>typed, <1>rest, <2>1
    <3>2. archiver'[a].on = {doc}
      BY <1>typed, <2>1, <3>1
    <3>3. file' = file
      BY <1>2 DEF RecordFetched
    <3> QED
      BY <3>1, <3>2, <3>3 DEF KeptOrErased, InStore
  <2>6. documents' = documents
    BY <1>2 DEF RecordFetched
  <2>7. \A b \in Archivers : archiver'[b].at \in {"found", "inserted"} =>
          \A c \in archiver'[b].on : KeptOrErased(c)'
    BY <1>of, <2>2, <2>4, <2>5 DEF CleanInv
  <2> QED
    BY <1>typed, <2>2, <2>3, <2>6, <2>7 DEF CleanInv
<1>3. ASSUME NEW a \in Archivers, CommitDocument(a) PROVE Goal
  <2>1. /\ CleanInv
        /\ \A c \in Document : KeptOrErased(c) => KeptOrErased(c)'
        /\ \A saved \in dump' : DumpIsWhole(saved)'
    BY <1>3, <1>calm DEF CommitDocument
  <2>2. archiver[a] # AtRest /\ keeper'.at # "collecting"
    BY <1>3, <1>rest, <2>1 DEF CommitDocument, CleanInv
  <2>3. \A c \in documents' : KeptOrErased(c)
    BY <1>3, <2>1 DEF CommitDocument, CleanInv
  <2>4. documents' \subseteq Document
    BY <1>3, <1>typed, <1>of DEF CommitDocument
  <2>5. \A b \in Archivers : archiver'[b].at \in {"found", "inserted"} => archiver'[b] = archiver[b]
    BY <1>3, <1>typed, <1>rest DEF CommitDocument
  <2>6. \A b \in Archivers : archiver'[b].at \in {"found", "inserted"} =>
          \A c \in archiver'[b].on : KeptOrErased(c)'
    BY <1>of, <2>1, <2>5 DEF CleanInv
  <2> QED
    BY <2>1, <2>2, <2>3, <2>4, <2>6 DEF CleanInv
<1>4. ASSUME NEW doc \in documents, DropDocument(doc) PROVE Goal
  <2>1. /\ CleanInv
        /\ \A c \in Document : KeptOrErased(c) => KeptOrErased(c)'
        /\ \A saved \in dump' : DumpIsWhole(saved)'
    BY <1>4, <1>calm DEF DropDocument
  <2>2. documents' \subseteq documents /\ UNCHANGED <<archiver, keeper>>
    BY <1>4 DEF DropDocument
  <2> QED
    BY <1>typed, <1>of, <2>1, <2>2 DEF CleanInv
<1>5. ASSUME NEW d \in Digests, BeginPurge(d) PROVE Goal
  <2>1. CleanInv /\ keeper = Unused /\ keeper'.at = "purging"
    BY <1>5, <1>clean DEF BeginPurge
  <2>2. \A doc : KeptOrErased(doc) => KeptOrErased(doc)'
    BY <1>5, <1>rest, <2>1 DEF BeginPurge, KeptOrErased, Erased
  <2> QED
    BY <1>5, <2>1, <2>2 DEF BeginPurge, CleanInv, DumpIsWhole
<1>6. ASSUME NEW d \in Digests, Rot(d) PROVE Goal
  <2>1. \A e \in Digests : file'[e] = "absent" => file[e] = "absent"
    BY <1>6, <1>typed DEF Rot
  <2>2. /\ CleanInv
        /\ \A c \in Document : KeptOrErased(c) => KeptOrErased(c)'
        /\ \A saved \in dump' : DumpIsWhole(saved)'
    BY <1>6, <1>calm, <2>1 DEF Rot
  <2>3. UNCHANGED <<documents, archiver, keeper>>
    BY <1>6 DEF Rot
  <2> QED
    BY <1>typed, <1>of, <2>2, <2>3 DEF CleanInv
<1>7. ASSUME NEW d \in Digests, CollectBytes(d) PROVE Goal
  <2>1. Clean /\ CleanInv /\ ~Copying
    BY <1>7 DEF CollectBytes, Clean
  <2>2. /\ keeper.at = "collecting" /\ d \in keeper.left
        /\ file' = [file EXCEPT ![d] = "absent"]
        /\ keeper'.at = "collecting" /\ keeper'.on = keeper.on /\ keeper'.left \subseteq keeper.left
        /\ UNCHANGED <<documents, purges, archiver, dump, copy>>
    BY <1>7, <1>typed DEF CollectBytes, KeeperStates
  <2>3. /\ d \in keeper.on
        /\ \A a \in Archivers : archiver[a] = AtRest
        /\ \A doc \in documents : doc.of # d
    BY <2>1, <2>2 DEF CleanInv
  <2>4. \A doc \in documents' : KeptOrErased(doc)'
    BY <1>typed, <1>of, <2>1, <2>2, <2>3 DEF CleanInv, KeptOrErased, Erased
  <2>5. \A saved \in dump' : DumpIsWhole(saved)'
    BY <1>typed, <1>of, <2>1, <2>2 DEF CleanInv, DumpIsWhole, Copying, Complete, NotTaken
  <2>6. \A a \in Archivers : archiver'[a].at = "rest"
    BY <1>rest, <2>2, <2>3
  <2> QED
    BY <2>1, <2>2, <2>3, <2>4, <2>5, <2>6 DEF CleanInv
<1>8. ASSUME NEW d \in Digests, CopyFile(d) PROVE Goal
  <2>1. CleanInv
    BY <1>8, <1>clean DEF CopyFile
  <2>2. /\ copy' = [copy EXCEPT ![d] = file[d]] /\ copy[d] = "uncopied"
        /\ UNCHANGED <<file, documents, purges, archiver, keeper, dump>>
    BY <1>8 DEF CopyFile
  <2>3. file[d] # "uncopied"
    BY <1>typed DEF Files
  <2>4. \A saved \in dump' : DumpIsWhole(saved)'
    BY <1>typed, <1>of, <2>1, <2>2, <2>3 DEF CleanInv, DumpIsWhole
  <2> QED
    BY <2>1, <2>2, <2>4 DEF CleanInv, KeptOrErased, Erased
<1>9. ASSUME EmptyStore PROVE Goal
  <2>1. PICK d \in keeper.on : file' = [file EXCEPT ![d] = "absent"]
    BY <1>9 DEF EmptyStore
  <2>2. /\ keeper.at = "purging"
        /\ keeper'.at = "emptied" /\ keeper'.on = keeper.on
        /\ UNCHANGED <<documents, purges, archiver, dump, copy>>
        /\ ~Copying /\ CleanInv
    BY <1>9, <1>typed DEF EmptyStore, KeeperStates, Clean
  <2>3. \A doc \in Document : KeptOrErased(doc) => KeptOrErased(doc)'
    BY <1>typed, <1>of, <2>1, <2>2 DEF KeptOrErased, Erased
  <2>4. \A saved \in dump' : DumpIsWhole(saved)'
    BY <1>typed, <1>of, <2>1, <2>2 DEF CleanInv, DumpIsWhole, Copying, Complete, NotTaken
  <2> QED
    BY <1>typed, <1>of, <2>2, <2>3, <2>4 DEF CleanInv
<1>10. ASSUME CommitPurge PROVE Goal
  <2>1. /\ CleanInv /\ purges' = purges \cup keeper.on /\ keeper' = Unused
        /\ UNCHANGED <<file, documents, archiver, dump, copy>>
    BY <1>10, <1>clean DEF CommitPurge
  <2>2. \A doc : KeptOrErased(doc) => KeptOrErased(doc)'
    BY <2>1 DEF KeptOrErased, Erased
  <2> QED
    BY <1>rest, <2>1, <2>2 DEF CleanInv, DumpIsWhole
<1>11. ASSUME BeginCollection PROVE Goal
  <2>1. /\ CleanInv /\ keeper = Unused
        /\ \A a \in Archivers : archiver[a] = AtRest
        /\ keeper' = [at |-> "collecting", on |-> Orphans, left |-> Orphans]
        /\ UNCHANGED <<file, documents, purges, archiver, dump, copy>>
    BY <1>11, <1>clean DEF BeginCollection, Clean
  <2>2. keeper'.at = "collecting" /\ keeper'.left = keeper'.on /\ keeper'.on = Orphans
    BY <2>1
  <2>3. \A doc \in documents : doc.of \notin Orphans
    BY DEF Orphans, Referenced
  <2>4. \A doc : KeptOrErased(doc) => KeptOrErased(doc)'
    BY <1>rest, <2>1 DEF KeptOrErased, Erased
  <2> QED
    BY <2>1, <2>2, <2>3, <2>4 DEF CleanInv, DumpIsWhole
<1>12. ASSUME CommitCollection PROVE Goal
  <2>1. /\ CleanInv /\ keeper.at = "collecting" /\ keeper' = Unused
        /\ UNCHANGED <<file, documents, purges, archiver, dump, copy>>
    BY <1>12, <1>clean DEF CommitCollection
  <2>2. \A doc : KeptOrErased(doc) => KeptOrErased(doc)'
    BY <2>1 DEF KeptOrErased, Erased
  <2> QED
    BY <1>rest, <2>1, <2>2 DEF CleanInv, DumpIsWhole
<1>13. ASSUME LoseKeeper \/ \E a \in Archivers : LoseArchiver(a) PROVE FALSE
  BY <1>13, <1>typed DEF LoseKeeper, LoseArchiver, Clean
<1>14. ASSUME DumpDatabase PROVE Goal
  <2>1. /\ dump = NotTaken /\ dump' = {Dumped} /\ keeper = Unused
        /\ UNCHANGED <<file, documents, purges, archiver, keeper, copy>>
    BY <1>14 DEF DumpDatabase, Clean
  <2>2. CleanInv
    BY <1>14, <2>1 DEF DumpDatabase, Unbegun, Clean
  <2>3. \A d \in Digests : copy[d] = "uncopied"
    BY <2>1 DEF Unbegun
  <2>4. DumpIsWhole(Dumped)'
    BY <1>of, <1>rest, <2>1, <2>2, <2>3 DEF DumpIsWhole, Dumped, CleanInv, KeptOrErased, Erased
  <2>5. Dumped' = Dumped
    BY <1>14 DEF Dumped, DumpDatabase
  <2>6. \A saved \in dump' : DumpIsWhole(saved)'
    BY <2>1, <2>4, <2>5
  <2>7. \A doc : KeptOrErased(doc) => KeptOrErased(doc)'
    BY <2>1 DEF KeptOrErased, Erased
  <2> QED
    BY <2>1, <2>2, <2>6, <2>7 DEF CleanInv
<1>15. ASSUME Restore PROVE Goal
  <2>1. PICK saved \in dump :
          /\ \A d \in Digests : copy[d] # "uncopied"
          /\ \A a \in Archivers : archiver[a] = AtRest
          /\ file' = [d \in Digests |-> RestoredFile(d)]
          /\ documents' = saved.documents
          /\ purges' = saved.purges
          /\ keeper = Unused
          /\ UNCHANGED <<archiver, keeper, dump, copy>>
    BY <1>15 DEF Restore, Complete
  <2>2. CleanInv
    BY <1>15, <1>clean DEF Restore
  <2>3. \A doc \in documents' : KeptOrErased(doc)'
    BY <1>of, <2>1, <2>2 DEF CleanInv, DumpIsWhole, KeptOrErased, Erased, RestoredFile
  <2>4. \A any \in dump' : DumpIsWhole(any)'
    BY <1>of, <2>1, <2>2 DEF CleanInv, DumpIsWhole
  <2> QED
    BY <1>rest, <2>1, <2>3, <2>4 DEF CleanInv
<1>16. ASSUME UNCHANGED storeVars PROVE Goal
  BY <1>16, <1>clean DEF storeVars, CleanInv, KeptOrErased, Erased, DumpIsWhole
<1>17. ASSUME StoreNext PROVE Goal
  <2> HIDE DEF Goal
  <2> QED
    BY <1>1, <1>2, <1>3, <1>4, <1>5, <1>6, <1>7, <1>8, <1>9, <1>10, <1>11, <1>12, <1>13,
       <1>14, <1>15, <1>17, StoreCases
<1> QED
  BY <1>16, <1>17

(* Whatever archives, purges, is swept, dumped and restored, evidence that *)
(* is cited is in the store or its erasure is on record, as long as the    *)
(* sweep is kept away from runs, no process is lost between two steps and  *)
(* nothing is erased under a backup.                                       *)
THEOREM CitedEvidenceIsKept == StoreSpec => []CitedBytesAreKept
<1> DEFINE Inv == StoreTypeOK /\ Unbegun /\ (Clean => CleanInv)
<1>1. StoreInit => Inv
  <2> SUFFICES ASSUME StoreInit PROVE Unbegun /\ CleanInv
    BY StoreTypeInit
  <2>1. Unbegun
    BY DEF StoreInit, Unbegun
  <2>2. CleanInv
    BY DEF StoreInit, CleanInv, AtRest, Unused, NotTaken
  <2> QED
    BY <2>1, <2>2
<1>2. Inv /\ [StoreNext]_storeVars => Inv'
  BY StoreTypeStep, UnbegunStep, KeptStep
<1>3. Inv => CitedBytesAreKept
  BY DEF Clean, CleanInv, KeptOrErased, CitedBytesAreKept
<1> HIDE DEF Inv
<1> QED
  BY <1>1, <1>2, <1>3, PTL DEF StoreSpec

-----------------------------------------------------------------------------
(* AuditTrail.                                                             *)

(* The actions by what they change.                                        *)
LEMMA AuditCases ==
  ASSUME AuditNext,
         NEW Goal,
         \A w \in Writers, p \in Payloads, x \in Actors : Record(w, p, x) => Goal,
         \A w \in Writers : CommitEvents(w) => Goal,
         \A w \in Writers : RollBackEvents(w) => Goal,
         \A e \in log : Harm(e) => Goal,
         BeginWalk => Goal,
         ReadPage => Goal,
         FindBreak => Goal,
         EndWalk => Goal
  PROVE  Goal
BY DEF AuditNext, Verify

-----------------------------------------------------------------------------
(* The rows.  An id is given to one row, and harm leaves a row its id and  *)
(* its hashes; a row whose hash is not that of what it says was edited.    *)
Flushed == UNION {drafts[w] : w \in Writers}
LogRows    == log \cup Flushed
Known   == LogRows \cup edited \cup deleted

Whole(e) == e.hash = Hash(e.prev, e.payload)

LogInv ==
  /\ AuditTypeOK /\ nextId > 0
  /\ IsFiniteSet(log) /\ \A w \in Writers : IsFiniteSet(drafts[w])
  /\ \A w \in Writers : drafts[w] \cap log = {}
  /\ \A v, w \in Writers : v # w => drafts[v] \cap drafts[w] = {}
  /\ \A e \in Known : 0 < e.id /\ e.id < nextId
  /\ \A e, f \in Known : e.id = f.id => e.prev = f.prev /\ e.hash = f.hash
  /\ \A e, f \in LogRows : e.id = f.id => e = f
  /\ \A e \in Flushed \cup edited \cup deleted : Whole(e)
  /\ \A e \in log : Whole(e) \/ \E o \in edited : o.id = e.id

LEMMA NewestOf ==
  ASSUME NEW S, IsFiniteSet(S), S # {}, S \subseteq Events
  PROVE  /\ \E e \in S : IsNewest(e, S)
         /\ IsNewest(CHOOSE e \in S : IsNewest(e, S), S)
         /\ (CHOOSE e \in S : IsNewest(e, S)) \in S
<1> DEFINE ids == [e \in S |-> e.id]
<1>1. \A e \in S : ids[e] = e.id /\ ids[e] \in Int
  BY DEF Events
<1>2. PICK e \in S : \A f \in S : ids[f] <= ids[e]
  <2> HIDE DEF ids
  <2> QED
    BY <1>1, Greatest
<1>3. IsNewest(e, S)
  BY <1>1, <1>2 DEF IsNewest
<1> QED
  BY <1>3

LEMMA NoHistory == Genesis \in Seq(Payloads)
BY DEF Genesis

LEMMA KnownAreEvents == ASSUME AuditTypeOK PROVE Known \subseteq Events
BY DEF AuditTypeOK, Known, LogRows, Flushed

(* What a recorded row is.                                                 *)
LEMMA RecordedRow ==
  ASSUME LogInv, NEW w \in Writers, NEW p \in Payloads, NEW x \in Actors, Record(w, p, x)
  PROVE  \E n \in Events :
           /\ n.id = nextId /\ Whole(n)
           /\ \/ Seen(w) = {} /\ n.prev = Genesis
              \/ \E e \in Seen(w) : IsNewest(e, Seen(w)) /\ n.prev = e.hash
           /\ drafts' = [drafts EXCEPT ![w] = @ \cup {n}]
           /\ nextId' = nextId + 1
           /\ UNCHANGED <<log, harm, reader>>
<1> DEFINE prev == IF Seen(w) = {} THEN Genesis
                   ELSE (CHOOSE e \in Seen(w) : IsNewest(e, Seen(w))).hash
           n == [id |-> nextId, prev |-> prev, payload |-> p, actor |-> x, hash |-> Hash(prev, p)]
<1>1. /\ drafts' = [drafts EXCEPT ![w] = @ \cup {n}]
      /\ nextId' = nextId + 1
      /\ UNCHANGED <<log, harm, reader>>
  BY DEF Record
<1>2. IsFiniteSet(Seen(w)) /\ Seen(w) \subseteq Events
  BY FS_Union DEF LogInv, AuditTypeOK, Seen
<1>3. \/ Seen(w) = {} /\ prev = Genesis
      \/ \E e \in Seen(w) : IsNewest(e, Seen(w)) /\ prev = e.hash
  <2>1. Seen(w) # {} => /\ IsNewest(CHOOSE e \in Seen(w) : IsNewest(e, Seen(w)), Seen(w))
                        /\ (CHOOSE e \in Seen(w) : IsNewest(e, Seen(w))) \in Seen(w)
    BY <1>2, NewestOf
  <2> QED
    BY <2>1
<1>4. prev \in Seq(Payloads)
  BY <1>2, <1>3 DEF Events, Genesis
<1> HIDE DEF prev
<1>5. n \in Events /\ n.id = nextId /\ n.prev = prev /\ Whole(n)
  BY <1>4 DEF Events, LogInv, AuditTypeOK, Hash, Whole
<1> QED
  BY <1>1, <1>3, <1>5

(* What a harmed row was and is.                                           *)
LEMMA HarmedRow ==
  ASSUME LogInv, NEW e \in log, Harm(e)
  PROVE  \E o \in Events :
           /\ o.id = e.id /\ o.prev = e.prev /\ o.hash = e.hash /\ Whole(o)
           /\ \/ log' = log \ {e} /\ deleted' = deleted \cup {o} /\ edited' = edited
              \/ \E n \in Events :
                   /\ n.id = e.id /\ n.prev = e.prev /\ n.hash = e.hash
                   /\ log' = (log \ {e}) \cup {n}
                   /\ edited' = edited \cup {o} /\ deleted' = deleted
           /\ disturbed' = TRUE
           /\ UNCHANGED <<drafts, nextId, walk, lastId, anchor, missed>>
<1>1. PICK o \in Written(e) :
        /\ \/ log' = log \ {e} /\ deleted' = deleted \cup {o} /\ UNCHANGED edited
           \/ /\ \/ \E p \in Payloads \ {e.payload} :
                      log' = (log \ {e}) \cup {[e EXCEPT !.payload = p]}
                 \/ \E x \in Actors \ {e.actor} :
                      log' = (log \ {e}) \cup {[e EXCEPT !.actor = x]}
              /\ edited' = edited \cup {o}
              /\ UNCHANGED deleted
        /\ disturbed' = TRUE
        /\ UNCHANGED <<drafts, nextId, walk, lastId, anchor, missed>>
  BY DEF Harm
<1>2. o.id = e.id /\ (o \in edited \/ (o = e /\ ~\E q \in edited : q.id = e.id))
  BY DEF Written
<1>3. o \in Events /\ e \in Events /\ o.prev = e.prev /\ o.hash = e.hash /\ Whole(o)
  BY <1>2 DEF LogInv, AuditTypeOK, Known, LogRows
<1>4. ASSUME NEW p \in Payloads
      PROVE  LET n == [e EXCEPT !.payload = p] IN
             n \in Events /\ n.id = e.id /\ n.prev = e.prev /\ n.hash = e.hash
  BY <1>3 DEF Events
<1>5. ASSUME NEW x \in Actors
      PROVE  LET n == [e EXCEPT !.actor = x] IN
             n \in Events /\ n.id = e.id /\ n.prev = e.prev /\ n.hash = e.hash
  BY <1>3 DEF Events
<1> QED
  BY <1>1, <1>2, <1>3, <1>4, <1>5

LEMMA LogStep ==
  ASSUME LogInv, [AuditNext]_auditVars PROVE LogInv'
<1> DEFINE Goal == LogInv'
<1>0. Known \subseteq Events /\ nextId \in Nat
  BY KnownAreEvents DEF LogInv, AuditTypeOK
<1>1. ASSUME NEW w \in Writers, NEW p \in Payloads, NEW x \in Actors, Record(w, p, x) PROVE Goal
  <2>1. PICK n \in Events :
          /\ n.id = nextId /\ Whole(n)
          /\ drafts' = [drafts EXCEPT ![w] = @ \cup {n}]
          /\ nextId' = nextId + 1
          /\ UNCHANGED <<log, harm, reader>>
    BY <1>1, RecordedRow
  <2>2. \A e \in Known : e # n /\ e.id # n.id /\ e.id \in Int
    BY <1>0, <2>1 DEF LogInv, Events
  <2>3. \A v \in Writers : drafts'[v] = IF v = w THEN drafts[w] \cup {n} ELSE drafts[v]
    BY <2>1 DEF LogInv, AuditTypeOK
  <2>4. Flushed' = Flushed \cup {n} /\ LogRows' = LogRows \cup {n} /\ Known' = Known \cup {n}
    BY <2>1, <2>3 DEF Flushed, LogRows, Known, harm
  <2>5. AuditTypeOK'
    <3>1. drafts' \in [Writers -> SUBSET Events] /\ nextId' \in Nat
      BY <1>0, <2>1 DEF LogInv, AuditTypeOK
    <3>2. UNCHANGED <<log, edited, deleted, walk, lastId, anchor, disturbed, missed>>
      BY <2>1 DEF harm, reader
    <3> QED
      BY <3>1, <3>2 DEF LogInv, AuditTypeOK
  <2>6. IsFiniteSet(log)' /\ \A v \in Writers : IsFiniteSet(drafts[v])'
    <3>1. IsFiniteSet(drafts[w]) /\ IsFiniteSet({n})
      BY FS_Singleton DEF LogInv
    <3>2. IsFiniteSet(drafts[w] \cup {n})
      BY <3>1, FS_Union
    <3> QED
      BY <2>1, <2>3, <3>2 DEF LogInv
  <2>7. /\ \A v \in Writers : drafts'[v] \cap log' = {}
        /\ \A u, v \in Writers : u # v => drafts'[u] \cap drafts'[v] = {}
    BY <2>1, <2>2, <2>3 DEF LogInv, Known, LogRows, Flushed
  <2>8. \A e \in Known' : 0 < e.id /\ e.id < nextId'
    BY <1>0, <2>1, <2>2, <2>4 DEF LogInv
  <2>9. /\ \A e, f \in Known' : e.id = f.id => e.prev = f.prev /\ e.hash = f.hash
        /\ \A e, f \in LogRows' : e.id = f.id => e = f
    BY <2>2, <2>4 DEF LogInv, Known
  <2>10. /\ \A e \in (Flushed \cup edited \cup deleted)' : Whole(e)
         /\ \A e \in log' : Whole(e) \/ \E o \in edited' : o.id = e.id
    BY <2>1, <2>4 DEF LogInv, harm
  <2>11. nextId' > 0
    BY <1>0, <2>1
  <2> QED
    BY <2>5, <2>6, <2>7, <2>8, <2>9, <2>10, <2>11 DEF LogInv
<1>2. ASSUME NEW w \in Writers, CommitEvents(w) PROVE Goal
  <2>1. /\ log' = log \cup drafts[w] /\ drafts' = [drafts EXCEPT ![w] = {}]
        /\ missed' \subseteq missed \cup drafts[w]
        /\ UNCHANGED <<nextId, harm, walk, lastId, anchor, disturbed>>
    BY <1>2 DEF CommitEvents
  <2>2. \A v \in Writers : drafts'[v] = IF v = w THEN {} ELSE drafts[v]
    BY <2>1 DEF LogInv, AuditTypeOK
  <2>3. Flushed' \subseteq Flushed /\ LogRows' = LogRows /\ Known' = Known
    BY <2>1, <2>2 DEF Flushed, LogRows, Known, harm
  <2>4. AuditTypeOK' /\ nextId' > 0
    BY <2>1 DEF LogInv, AuditTypeOK, harm
  <2>5. IsFiniteSet(log)' /\ \A v \in Writers : IsFiniteSet(drafts[v])'
    BY <2>1, <2>2, FS_EmptySet, FS_Union DEF LogInv
  <2>6. /\ \A v \in Writers : drafts'[v] \cap log' = {}
        /\ \A u, v \in Writers : u # v => drafts'[u] \cap drafts'[v] = {}
    BY <2>1, <2>2 DEF LogInv
  <2>7. /\ \A e \in (Flushed \cup edited \cup deleted)' : Whole(e)
        /\ \A e \in log' : Whole(e) \/ \E o \in edited' : o.id = e.id
    BY <2>1, <2>3 DEF LogInv, harm, Flushed
  <2> QED
    BY <2>1, <2>3, <2>4, <2>5, <2>6, <2>7 DEF LogInv
<1>3. ASSUME NEW w \in Writers, RollBackEvents(w) PROVE Goal
  <2>1. /\ drafts' = [drafts EXCEPT ![w] = {}]
        /\ UNCHANGED <<log, nextId, harm, reader>>
    BY <1>3 DEF RollBackEvents
  <2>2. \A v \in Writers : drafts'[v] = IF v = w THEN {} ELSE drafts[v]
    BY <2>1 DEF LogInv, AuditTypeOK
  <2>3. Flushed' \subseteq Flushed /\ LogRows' \subseteq LogRows /\ Known' \subseteq Known
    BY <2>1, <2>2 DEF Flushed, LogRows, Known, harm
  <2>4. AuditTypeOK' /\ nextId' > 0
    BY <2>1 DEF LogInv, AuditTypeOK, harm, reader
  <2>5. IsFiniteSet(log)' /\ \A v \in Writers : IsFiniteSet(drafts[v])'
    BY <2>1, <2>2, FS_EmptySet DEF LogInv
  <2>6. /\ \A v \in Writers : drafts'[v] \cap log' = {}
        /\ \A u, v \in Writers : u # v => drafts'[u] \cap drafts'[v] = {}
    BY <2>1, <2>2 DEF LogInv
  <2>7. /\ \A e \in (Flushed \cup edited \cup deleted)' : Whole(e)
        /\ \A e \in log' : Whole(e) \/ \E o \in edited' : o.id = e.id
    BY <2>1, <2>3 DEF LogInv, harm
  <2> QED
    BY <2>1, <2>3, <2>4, <2>5, <2>6, <2>7 DEF LogInv
<1>4. ASSUME NEW e \in log, Harm(e) PROVE Goal
  <2>1. PICK o \in Events :
           /\ o.id = e.id /\ o.prev = e.prev /\ o.hash = e.hash /\ Whole(o)
           /\ \/ log' = log \ {e} /\ deleted' = deleted \cup {o} /\ edited' = edited
              \/ \E n \in Events :
                   /\ n.id = e.id /\ n.prev = e.prev /\ n.hash = e.hash
                   /\ log' = (log \ {e}) \cup {n}
                   /\ edited' = edited \cup {o} /\ deleted' = deleted
           /\ disturbed' = TRUE
           /\ UNCHANGED <<drafts, nextId, walk, lastId, anchor, missed>>
    BY <1>4, HarmedRow
  <2>2. PICK new \in SUBSET Events :
          /\ \A n \in new : n.id = e.id /\ n.prev = e.prev /\ n.hash = e.hash
          /\ \A n, m \in new : n = m
          /\ log' = (log \ {e}) \cup new /\ IsFiniteSet(new)
          /\ edited' \cup deleted' = edited \cup deleted \cup {o}
          /\ edited \subseteq edited' /\ new # {} => o \in edited'
    <3>1. CASE log' = log \ {e} /\ deleted' = deleted \cup {o} /\ edited' = edited
      BY <3>1, FS_EmptySet
    <3>2. CASE ~(log' = log \ {e} /\ deleted' = deleted \cup {o} /\ edited' = edited)
      <4>1. PICK n \in Events :
              /\ n.id = e.id /\ n.prev = e.prev /\ n.hash = e.hash
              /\ log' = (log \ {e}) \cup {n}
              /\ edited' = edited \cup {o} /\ deleted' = deleted
        BY <2>1, <3>2
      <4>2. IsFiniteSet({n})
        BY FS_Singleton
      <4> WITNESS {n} \in SUBSET Events
      <4> QED
        BY <4>1, <4>2
    <3> QED
      BY <3>1, <3>2
  <2>3. e \in Known /\ e \in LogRows
    BY DEF Known, LogRows
  <2>4. Flushed' = Flushed /\ LogRows' = (log \ {e}) \cup new \cup Flushed
        /\ Known' \subseteq Known \cup new \cup {o}
    BY <2>1, <2>2 DEF Flushed, LogRows, Known
  <2>5. AuditTypeOK' /\ nextId' > 0
    BY <2>1, <2>2 DEF LogInv, AuditTypeOK
  <2>6. IsFiniteSet(log)' /\ \A v \in Writers : IsFiniteSet(drafts[v])'
    <3>1. IsFiniteSet(log \ {e})
      BY FS_RemoveElement DEF LogInv
    <3> QED
      BY <2>1, <2>2, <3>1, FS_Union DEF LogInv
  <2>7. \A f \in LogRows : f # e => f.id # e.id
    BY <2>3 DEF LogInv
  <2>8. e \notin Flushed
    BY DEF LogInv, Flushed
  <2>9. \A f \in Flushed : f.id # e.id
    BY <2>7, <2>8 DEF LogRows
  <2>10. /\ \A v \in Writers : drafts'[v] \cap log' = {}
         /\ \A u, v \in Writers : u # v => drafts'[u] \cap drafts'[v] = {}
    BY <2>1, <2>2, <2>9 DEF LogInv, Flushed
  <2>11. \A f \in Known' : 0 < f.id /\ f.id < nextId'
    BY <2>1, <2>2, <2>3, <2>4 DEF LogInv
  <2>12. \A f, g \in Known' : f.id = g.id => f.prev = g.prev /\ f.hash = g.hash
    <3>1. \A f \in Known' : \E g \in Known : f.id = g.id /\ f.prev = g.prev /\ f.hash = g.hash
      BY <2>1, <2>2, <2>3, <2>4
    <3> QED
      BY <3>1 DEF LogInv
  <2>13. \A f, g \in LogRows' : f.id = g.id => f = g
    BY <2>2, <2>4, <2>7, <2>9 DEF LogInv, LogRows
  <2>14. \A f \in (Flushed \cup edited \cup deleted)' : Whole(f)
    BY <2>1, <2>2, <2>4 DEF LogInv
  <2>15. \A f \in log' : Whole(f) \/ \E q \in edited' : q.id = f.id
    BY <2>1, <2>2 DEF LogInv
  <2> QED
    BY <2>5, <2>6, <2>10, <2>11, <2>12, <2>13, <2>14, <2>15 DEF LogInv
<1>5. ASSUME UNCHANGED <<log, drafts, nextId, harm>>, AuditTypeOK' PROVE Goal
  <2>1. Flushed' = Flushed /\ LogRows' = LogRows /\ Known' = Known
    BY <1>5 DEF Flushed, LogRows, Known, harm
  <2> QED
    BY <1>5, <2>1 DEF LogInv, harm
<1>6. ASSUME BeginWalk PROVE Goal
  <2>1. AuditTypeOK'
    BY <1>6, NoHistory DEF LogInv, AuditTypeOK, BeginWalk, harm
  <2> QED
    BY <1>5, <1>6, <2>1 DEF BeginWalk
<1>7. ASSUME ReadPage PROVE Goal
  <2>1. AuditTypeOK'
    BY <1>7 DEF LogInv, AuditTypeOK, ReadPage, harm, Page, Unread, Events
  <2> QED
    BY <1>5, <1>7, <2>1 DEF ReadPage
<1>8. ASSUME FindBreak PROVE Goal
  <2>1. AuditTypeOK'
    BY <1>8 DEF LogInv, AuditTypeOK, FindBreak, harm, Page, Unread, Events, Verdict, Verdicts
  <2> QED
    BY <1>5, <1>8, <2>1 DEF FindBreak
<1>9. ASSUME EndWalk PROVE Goal
  <2>1. AuditTypeOK'
    BY <1>9 DEF LogInv, AuditTypeOK, EndWalk, harm, Verdicts
  <2> QED
    BY <1>5, <1>9, <2>1 DEF EndWalk
<1>10. ASSUME UNCHANGED auditVars PROVE Goal
  BY <1>5, <1>10 DEF auditVars, LogInv, AuditTypeOK, harm, reader
<1>11. AuditNext => Goal
  <2> HIDE DEF Goal
  <2> QED
    BY <1>1, <1>2, <1>3, <1>4, <1>6, <1>7, <1>8, <1>9, AuditCases
<1> QED
  BY <1>10, <1>11

LEMMA LogInit == AuditInit => LogInv
<1> SUFFICES ASSUME AuditInit PROVE LogInv
  OBVIOUS
<1>1. Flushed = {} /\ LogRows = {} /\ Known = {}
  BY DEF AuditInit, Flushed, LogRows, Known
<1>2. AuditTypeOK
  BY NoHistory DEF AuditInit, AuditTypeOK
<1> QED
  BY <1>1, <1>2, FS_EmptySet DEF AuditInit, LogInv

(* The log keeps its types, whoever writes, walks or harms it.             *)
THEOREM AuditTypeCorrect == AuditSpec => []AuditTypeOK
<1>1. LogInv => AuditTypeOK
  BY DEF LogInv
<1> QED
  BY <1>1, LogInit, LogStep, PTL DEF AuditSpec

-----------------------------------------------------------------------------
(* The chain.  A row is linked to one that its writer saw: an earlier row  *)
(* that is in the log, or was.  And a walk stands at a row it has read,    *)
(* whose hash is its anchor; what lies behind it, undisturbed, is whole,   *)
(* and was committed behind it or is linked.                               *)
LinkedTo(e, chain) == e.prev = Genesis \/ \E p \in chain : p.id < e.id /\ p.hash = e.prev

ParentInv ==
  /\ \A e \in log : LinkedTo(e, log \cup deleted)
  /\ \A w \in Writers : \A e \in drafts[w] : LinkedTo(e, log \cup deleted \cup drafts[w])

WalkInv == walk = "walking" =>
  /\ \/ lastId = 0 /\ anchor = Genesis
     \/ \E r \in log \cup deleted : r.id = lastId /\ r.hash = anchor
  /\ ~disturbed =>
       /\ lastId = 0 \/ \E r \in log : r.id = lastId
       /\ \A e \in log : e.id <= lastId => Whole(e) /\ (e \in missed \/ LinkedTo(e, log))

(* Harm leaves of every row, or of what it was, one with its id and hashes.*)
Twins(e, f) == e.id = f.id /\ e.prev = f.prev /\ e.hash = f.hash

LEMMA HarmLeavesTwins ==
  ASSUME LogInv, NEW e \in log, Harm(e)
  PROVE  /\ \A f \in log' : \E g \in log : Twins(f, g)
         /\ \A f \in log \cup deleted : \E g \in log' \cup deleted' : Twins(f, g)
         /\ edited \subseteq edited' /\ deleted \subseteq deleted'
         /\ disturbed' = TRUE /\ UNCHANGED <<drafts, walk, lastId, anchor, nextId>>
<1>1. PICK o \in Events :
           /\ o.id = e.id /\ o.prev = e.prev /\ o.hash = e.hash /\ Whole(o)
           /\ \/ log' = log \ {e} /\ deleted' = deleted \cup {o} /\ edited' = edited
              \/ \E n \in Events :
                   /\ n.id = e.id /\ n.prev = e.prev /\ n.hash = e.hash
                   /\ log' = (log \ {e}) \cup {n}
                   /\ edited' = edited \cup {o} /\ deleted' = deleted
           /\ disturbed' = TRUE
           /\ UNCHANGED <<drafts, nextId, walk, lastId, anchor, missed>>
  BY HarmedRow
<1>2. CASE log' = log \ {e} /\ deleted' = deleted \cup {o} /\ edited' = edited
  BY <1>1, <1>2 DEF Twins
<1>3. CASE \E n \in Events :
             /\ n.id = e.id /\ n.prev = e.prev /\ n.hash = e.hash
             /\ log' = (log \ {e}) \cup {n}
             /\ edited' = edited \cup {o} /\ deleted' = deleted
  BY <1>1, <1>3 DEF Twins
<1> QED
  BY <1>1, <1>2, <1>3

LEMMA ParentStep ==
  ASSUME LogInv, ParentInv, [AuditNext]_auditVars PROVE ParentInv'
<1> DEFINE Goal == ParentInv'
<1>0. nextId \in Nat /\ \A w \in Writers : Seen(w) \subseteq Known /\ Seen(w) \subseteq Events
  BY KnownAreEvents DEF LogInv, AuditTypeOK, Seen, Known, LogRows, Flushed
<1>1. ASSUME NEW w \in Writers, NEW p \in Payloads, NEW x \in Actors, Record(w, p, x) PROVE Goal
  <2>1. PICK n \in Events :
          /\ n.id = nextId
          /\ \/ Seen(w) = {} /\ n.prev = Genesis
             \/ \E e \in Seen(w) : IsNewest(e, Seen(w)) /\ n.prev = e.hash
          /\ drafts' = [drafts EXCEPT ![w] = @ \cup {n}]
          /\ UNCHANGED <<log, harm, reader>>
    BY <1>1, RecordedRow
  <2>2. \A v \in Writers : drafts'[v] = IF v = w THEN drafts[w] \cup {n} ELSE drafts[v]
    BY <2>1 DEF LogInv, AuditTypeOK
  <2>3. LinkedTo(n, log \cup deleted \cup drafts[w])
    <3>1. CASE Seen(w) = {} /\ n.prev = Genesis
      BY <3>1 DEF LinkedTo
    <3>2. CASE \E e \in Seen(w) : n.prev = e.hash
      <4>1. PICK e \in Seen(w) : n.prev = e.hash
        BY <3>2
      <4>2. e.id < n.id
        BY <1>0, <2>1 DEF LogInv
      <4> QED
        BY <4>1, <4>2 DEF LinkedTo, Seen
    <3> QED
      BY <2>1, <3>1, <3>2
  <2>4. log' = log /\ deleted' = deleted
    BY <2>1 DEF harm
  <2> QED
    BY <2>2, <2>3, <2>4 DEF ParentInv, LinkedTo
<1>2. ASSUME NEW w \in Writers, CommitEvents(w) PROVE Goal
  <2>1. log' = log \cup drafts[w] /\ drafts' = [drafts EXCEPT ![w] = {}] /\ deleted' = deleted
    BY <1>2 DEF CommitEvents, harm
  <2>2. \A v \in Writers : drafts'[v] = IF v = w THEN {} ELSE drafts[v]
    BY <2>1 DEF LogInv, AuditTypeOK
  <2> QED
    BY <2>1, <2>2 DEF ParentInv, LinkedTo
<1>3. ASSUME NEW w \in Writers, RollBackEvents(w) PROVE Goal
  <2>1. log' = log /\ drafts' = [drafts EXCEPT ![w] = {}] /\ deleted' = deleted
    BY <1>3 DEF RollBackEvents, harm
  <2>2. \A v \in Writers : drafts'[v] = IF v = w THEN {} ELSE drafts[v]
    BY <2>1 DEF LogInv, AuditTypeOK
  <2> QED
    BY <2>1, <2>2 DEF ParentInv, LinkedTo
<1>4. ASSUME NEW e \in log, Harm(e) PROVE Goal
  <2>1. /\ \A f \in log' : \E g \in log : Twins(f, g)
        /\ \A f \in log \cup deleted : \E g \in log' \cup deleted' : Twins(f, g)
        /\ drafts' = drafts
    BY <1>4, HarmLeavesTwins
  <2>2. ASSUME NEW f \in log' PROVE LinkedTo(f, log' \cup deleted')
    <3>1. PICK g \in log : Twins(f, g)
      BY <2>1
    <3>2. g.prev = Genesis \/ \E p \in log \cup deleted : p.id < g.id /\ p.hash = g.prev
      BY DEF ParentInv, LinkedTo
    <3> QED
      BY <2>1, <3>1, <3>2 DEF LinkedTo, Twins
  <2>3. ASSUME NEW w \in Writers, NEW f \in drafts[w]
        PROVE  LinkedTo(f, log' \cup deleted' \cup drafts[w])
    <3>1. f.prev = Genesis \/ \E p \in log \cup deleted \cup drafts[w] : p.id < f.id /\ p.hash = f.prev
      BY DEF ParentInv, LinkedTo
    <3>2. \A p \in log \cup deleted \cup drafts[w] :
            \E q \in log' \cup deleted' \cup drafts[w] : Twins(p, q)
      BY <2>1 DEF Twins
    <3> QED
      BY <3>1, <3>2 DEF LinkedTo, Twins
  <2> QED
    BY <2>1, <2>2, <2>3 DEF ParentInv
<1>5. BeginWalk \/ ReadPage \/ FindBreak \/ EndWalk \/ UNCHANGED auditVars => Goal
  BY DEF BeginWalk, ReadPage, FindBreak, EndWalk, auditVars, harm, ParentInv, LinkedTo
<1>6. AuditNext => Goal
  <2> HIDE DEF Goal
  <2> QED
    BY <1>1, <1>2, <1>3, <1>4, <1>5, AuditCases
<1> QED
  BY <1>5, <1>6

(* A page holds, of a row it holds, every unread row before it.            *)
LEMMA PageIsWhole ==
  ASSUME LogInv, NEW e \in Page, NEW p \in Unread, p.id < e.id
  PROVE  p \in Page
<1> DEFINE A == {f \in Unread : f.id < p.id}
           B == {f \in Unread : f.id < e.id}
<1>1. \A f \in Unread : f.id \in Int
  BY DEF LogInv, AuditTypeOK, Events, Unread
<1>2. e \in Unread /\ Cardinality(B) < PageSize /\ IsFiniteSet(B) /\ A \subseteq B
  BY <1>1, FS_Subset DEF LogInv, Page, Unread
<1>3. IsFiniteSet(A) /\ Cardinality(A) <= Cardinality(B)
      /\ Cardinality(A) \in Nat /\ Cardinality(B) \in Nat
  <2> HIDE DEF A, B
  <2> QED
    BY <1>2, FS_Subset, FS_CardinalityType
<1>4. Cardinality(A) < PageSize
  BY <1>2, <1>3, AuditAssumption
<1> QED
  BY <1>4 DEF Page

(* What a row of the page should link to.                                  *)
LEMMA WhatIsExpected ==
  ASSUME LogInv, NEW e \in Page
  PROVE  \/ Below(e) = {} /\ Expected(e) = anchor
         \/ \E f \in Below(e) : IsNewest(f, Below(e)) /\ Expected(e) = f.hash
<1>1. Below(e) \subseteq Events /\ IsFiniteSet(Below(e))
  BY FS_Subset DEF LogInv, AuditTypeOK, Below, Page, Unread
<1>2. CASE Below(e) = {}
  BY <1>2 DEF Expected
<1>3. CASE Below(e) # {}
  <2>1. /\ IsNewest(CHOOSE f \in Below(e) : IsNewest(f, Below(e)), Below(e))
        /\ (CHOOSE f \in Below(e) : IsNewest(f, Below(e))) \in Below(e)
    BY <1>1, <1>3, NewestOf
  <2> QED
    BY <1>3, <2>1 DEF Expected
<1> QED
  BY <1>2, <1>3

LEMMA WalkStep ==
  ASSUME LogInv, WalkInv, [AuditNext]_auditVars PROVE WalkInv'
<1> DEFINE Goal == WalkInv'
<1>0. /\ log \subseteq Events /\ deleted \subseteq Events /\ lastId \in Nat
      /\ \A e \in log : e.id \in Int /\ 0 < e.id
  BY DEF LogInv, AuditTypeOK, Known, LogRows, Events
<1>1. ASSUME NEW w \in Writers, NEW p \in Payloads, NEW x \in Actors, Record(w, p, x) PROVE Goal
  BY <1>1 DEF Record, WalkInv, harm, reader
<1>2. ASSUME NEW w \in Writers, CommitEvents(w) PROVE Goal
  <2>1. /\ log' = log \cup drafts[w] /\ deleted' = deleted
        /\ UNCHANGED <<walk, lastId, anchor, disturbed>>
        /\ walk = "walking" => missed' = missed \cup {e \in drafts[w] : e.id <= lastId}
    BY <1>2 DEF CommitEvents, harm
  <2>2. \A e \in drafts[w] : Whole(e)
    BY DEF LogInv, Flushed
  <2> QED
    BY <2>1, <2>2 DEF WalkInv, LinkedTo
<1>3. ASSUME NEW w \in Writers, RollBackEvents(w) PROVE Goal
  BY <1>3 DEF RollBackEvents, WalkInv, harm, reader
<1>4. ASSUME NEW e \in log, Harm(e) PROVE Goal
  <2>1. /\ \A f \in log \cup deleted : \E g \in log' \cup deleted' : Twins(f, g)
        /\ disturbed' = TRUE /\ UNCHANGED <<walk, lastId, anchor>>
    BY <1>4, HarmLeavesTwins
  <2> QED
    BY <2>1 DEF WalkInv, Twins
<1>5. BeginWalk => Goal
  BY <1>0 DEF BeginWalk, WalkInv
<1>6. ASSUME ReadPage PROVE Goal
  <2>1. PICK g \in Page : IsNewest(g, Page) /\ lastId' = g.id /\ anchor' = g.hash
    BY <1>6 DEF ReadPage
  <2>2. /\ walk = "walking" /\ \A e \in Page : ~Broken(e)
        /\ UNCHANGED <<log, deleted, walk, disturbed, missed>>
    BY <1>6 DEF ReadPage, harm
  <2>3. g \in log /\ Page \subseteq Unread /\ Unread \subseteq log
    BY DEF Page, Unread
  <2>4. ASSUME ~disturbed, NEW e \in log, e.id <= g.id
        PROVE  Whole(e) /\ (e \in missed \/ LinkedTo(e, log))
    <3>1. CASE e.id <= lastId
      BY <2>2, <2>4, <3>1 DEF WalkInv
    <3>2. CASE ~(e.id <= lastId)
      <4>1. e \in Unread
        BY <1>0, <3>2 DEF Unread
      <4>2. e \in Page
        <5>1. CASE e.id = g.id
          BY <2>3, <5>1 DEF LogInv, LogRows
        <5>2. CASE e.id # g.id
          <6>1. e.id < g.id
            BY <1>0, <2>3, <2>4, <5>2
          <6> QED
            BY <4>1, <6>1, PageIsWhole
        <5> QED
          BY <5>1, <5>2
      <4>3. e.prev = Expected(e) /\ Whole(e)
        BY <2>2, <4>2 DEF Broken, Whole
      <4>4. LinkedTo(e, log)
        <5>1. CASE Expected(e) = anchor
          <6>1. CASE lastId = 0 /\ anchor = Genesis
            BY <4>3, <5>1, <6>1 DEF LinkedTo
          <6>2. CASE ~(lastId = 0 /\ anchor = Genesis)
            <7>1. PICK r \in log \cup deleted : r.id = lastId /\ r.hash = anchor
              BY <2>2, <6>2 DEF WalkInv
            <7>2. lastId # 0
              BY <7>1 DEF LogInv, Known, LogRows
            <7>3. PICK q \in log : q.id = lastId
              BY <2>2, <2>4, <7>2 DEF WalkInv
            <7>4. q.hash = r.hash
              BY <7>1, <7>3 DEF LogInv, Known, LogRows
            <7>5. q.id < e.id
              BY <1>0, <3>2, <7>3
            <7> QED
              BY <4>3, <5>1, <7>1, <7>3, <7>4, <7>5 DEF LinkedTo
          <6> QED
            BY <6>1, <6>2
        <5>2. CASE \E f \in Below(e) : Expected(e) = f.hash
          BY <2>3, <4>3, <5>2 DEF LinkedTo, Below
        <5> QED
          BY <4>2, <5>1, <5>2, WhatIsExpected
      <4> QED
        BY <4>3, <4>4
    <3> QED
      BY <3>1, <3>2
  <2>5. \E r \in log : r.id = g.id /\ r.hash = g.hash
    BY <2>3
  <2> QED
    BY <2>1, <2>2, <2>4, <2>5 DEF WalkInv
<1>7. FindBreak => Goal
  BY DEF FindBreak, WalkInv, Verdict
<1>8. EndWalk => Goal
  BY DEF EndWalk, WalkInv
<1>9. UNCHANGED auditVars => Goal
  BY DEF auditVars, harm, reader, WalkInv
<1>10. AuditNext => Goal
  <2> HIDE DEF Goal
  <2> QED
    BY <1>1, <1>2, <1>3, <1>4, <1>5, <1>6, <1>7, <1>8, AuditCases
<1> QED
  BY <1>9, <1>10

-----------------------------------------------------------------------------
(* The verdict.  A row follows the one before it in the log, or is the     *)
(* first of it.  The least row that does not, though nothing before it was *)
(* deleted, is linked to a row that a lesser one follows: a fork.          *)
IsBefore(f, e) == f \in log /\ f.id < e.id /\ \A g \in log : g.id < e.id => g.id <= f.id

Follows(e) ==
  \/ \E f \in log : IsBefore(f, e) /\ e.prev = f.hash
  \/ e.prev = Genesis /\ \A f \in log : ~(f.id < e.id)

LEMMA LogFacts ==
  ASSUME LogInv
  PROVE  /\ log \subseteq Events /\ deleted \subseteq Events /\ lastId \in Nat
         /\ \A e \in log : e.id \in Nat /\ 0 < e.id
         /\ \A e \in deleted : e.id \in Nat /\ 0 < e.id
         /\ \A e, f \in log : e.id = f.id => e = f
BY DEF LogInv, AuditTypeOK, Known, LogRows, Events

LEMMA LeastRow ==
  ASSUME LogInv, NEW T \in SUBSET log, T # {}
  PROVE  \E m \in T : \A n \in T : m.id <= n.id
<1> DEFINE ids == {n.id : n \in T}
<1>1. ids \in SUBSET Nat /\ ids # {}
  BY LogFacts
<1> HIDE DEF ids
<1>2. PICK i \in ids : \A j \in ids : i <= j
  BY <1>1, Least
<1> QED
  BY <1>2 DEF ids

LEMMA AGapIsAFork ==
  ASSUME LogInv, ParentInv, NEW e \in log, ~Follows(e), \A d \in deleted : ~(d.id < e.id)
  PROVE  Forked(e.id)
<1> DEFINE Gaps == {g \in log : g.id <= e.id /\ ~Follows(g)}
<1>1. PICK g \in Gaps : \A h \in Gaps : g.id <= h.id
  <2>1. Gaps \in SUBSET log /\ e \in Gaps
    BY LogFacts
  <2> HIDE DEF Gaps
  <2> QED
    BY <2>1, LeastRow
<1>2. g \in log /\ g.id <= e.id /\ ~Follows(g) /\ g.id \in Nat /\ e.id \in Nat
  BY LogFacts
<1>3. ASSUME NEW h \in log, h.id < g.id PROVE Follows(h)
  BY <1>1, <1>2, <1>3, LogFacts
<1>4. \/ g.prev = Genesis
      \/ \E p \in log \cup deleted : p.id < g.id /\ p.hash = g.prev
  BY <1>2 DEF ParentInv, LinkedTo
<1>5. SUFFICES \E h \in log : h.id < g.id /\ h.prev = g.prev
  BY <1>2 DEF Forked
<1>6. CASE g.prev = Genesis
  <2> DEFINE T == {f \in log : f.id < g.id}
  <2>1. T \in SUBSET log /\ T # {}
    BY <1>2, <1>6 DEF Follows
  <2>2. PICK h \in T : \A f \in T : h.id <= f.id
    <3> HIDE DEF T
    <3> QED
      BY <2>1, LeastRow
  <2>3. \A f \in log : ~(f.id < h.id)
    BY <1>2, <2>2, LogFacts
  <2>4. h.prev = Genesis
    BY <1>3, <2>2, <2>3 DEF Follows, IsBefore
  <2> QED
    BY <1>6, <2>2, <2>4
<1>7. CASE \E p \in log \cup deleted : p.id < g.id /\ p.hash = g.prev
  <2>1. PICK p \in log : p.id < g.id /\ p.hash = g.prev
    BY <1>2, <1>7, LogFacts
  <2> DEFINE T == {f \in log : p.id < f.id /\ f.id < g.id}
  <2>2. T \in SUBSET log /\ T # {}
    BY <1>2, <2>1, LogFacts DEF Follows, IsBefore
  <2>3. PICK h \in T : \A f \in T : h.id <= f.id
    <3> HIDE DEF T
    <3> QED
      BY <2>2, LeastRow
  <2>4. h \in log /\ p.id < h.id /\ h.id < g.id /\ Follows(h)
    BY <1>3, <2>3
  <2>5. PICK q \in log : IsBefore(q, h) /\ h.prev = q.hash
    BY <2>1, <2>4 DEF Follows
  <2>6. q.id < h.id /\ p.id <= q.id
    BY <2>4, <2>5 DEF IsBefore
  <2>7. ~(p.id < q.id)
    BY <1>2, <2>3, <2>4, <2>6, LogFacts
  <2>8. p = q
    BY <2>6, <2>7, LogFacts
  <2> QED
    BY <2>1, <2>4, <2>5, <2>8
<1> QED
  BY <1>4, <1>6, <1>7

(* A row that is not linked to what the walk has before it comes after a   *)
(* deleted one, or after a fork; the first of the log after a deleted one. *)
LEMMA ARowIsMissing ==
  ASSUME LogInv, ParentInv, WalkInv, walk = "walking",
         NEW e \in Page, e.prev # Expected(e)
  PROVE  (\E d \in deleted : d.id < e.id) \/ (~First(e) /\ Forked(e.id))
<1> SUFFICES ASSUME \A d \in deleted : ~(d.id < e.id) PROVE ~First(e) /\ Forked(e.id)
  OBVIOUS
<1>1. e \in log /\ lastId < e.id /\ lastId \in Nat /\ e.id \in Nat
  BY LogFacts DEF Page, Unread
<1>2. \A f \in log : f.id \in Nat /\ 0 < f.id
  BY LogFacts
<1>3. ASSUME NEW f \in log, f.id < e.id, lastId < f.id PROVE f \in Below(e)
  BY <1>3, PageIsWhole DEF Below, Unread
<1>4. \A f \in Below(e) : f \in log /\ f.id < e.id /\ lastId < f.id
  BY DEF Below, Page, Unread
<1>5. \/ lastId = 0 /\ anchor = Genesis
      \/ \E r \in log : r.id = lastId /\ r.hash = anchor
  BY <1>1 DEF WalkInv
<1>6. \/ Below(e) = {} /\ Expected(e) = anchor
      \/ \E f \in Below(e) : IsNewest(f, Below(e)) /\ Expected(e) = f.hash
  BY WhatIsExpected
<1>7. ~First(e)
  <2> SUFFICES ASSUME lastId = 0, Below(e) = {} PROVE FALSE
    BY DEF First
  <2>1. anchor = Genesis
    BY <1>2, <1>5
  <2>2. e.prev # Genesis
    BY <1>6, <2>1
  <2>3. PICK p \in log : p.id < e.id
    BY <1>1, <2>2 DEF ParentInv, LinkedTo
  <2> QED
    BY <1>2, <1>3, <2>3
<1>8. ASSUME NEW f \in log, IsBefore(f, e), e.prev = f.hash PROVE FALSE
  <2>1. f.id < e.id /\ \A g \in log : g.id < e.id => g.id <= f.id
    BY <1>8 DEF IsBefore
  <2>2. CASE Below(e) = {} /\ Expected(e) = anchor
    <3>1. ~(lastId < f.id)
      BY <1>3, <2>1, <2>2
    <3>2. PICK r \in log : r.id = lastId /\ r.hash = anchor
      BY <1>2, <1>5, <3>1
    <3>3. r.id = f.id
      BY <1>1, <1>2, <2>1, <3>1, <3>2
    <3>4. r = f
      BY <3>3, LogFacts
    <3> QED
      BY <1>8, <2>2, <3>2, <3>4
  <2>3. CASE \E k \in Below(e) : IsNewest(k, Below(e)) /\ Expected(e) = k.hash
    <3>1. PICK k \in Below(e) : IsNewest(k, Below(e)) /\ Expected(e) = k.hash
      BY <2>3
    <3>2. k \in log /\ k.id <= f.id /\ lastId < f.id
      BY <1>1, <1>2, <1>4, <2>1
    <3>3. f.id <= k.id
      BY <1>3, <2>1, <3>1, <3>2 DEF IsNewest
    <3>4. k = f
      BY <1>2, <3>2, <3>3, LogFacts
    <3> QED
      BY <1>8, <3>1, <3>4
  <2> QED
    BY <1>6, <2>2, <2>3
<1>9. ASSUME e.prev = Genesis, \A f \in log : ~(f.id < e.id) PROVE FALSE
  BY <1>1, <1>4, <1>5, <1>6, <1>9
<1>10. ~Follows(e)
  BY <1>8, <1>9 DEF Follows
<1> QED
  BY <1>1, <1>7, <1>10, AGapIsAFork

LEMMA VerdictStep ==
  ASSUME LogInv, ParentInv, WalkInv, TheVerdictIsRight, [AuditNext]_auditVars
  PROVE  TheVerdictIsRight'
<1> DEFINE Goal == TheVerdictIsRight'
<1>1. ASSUME UNCHANGED <<walk, lastId>>, edited \subseteq edited', deleted \subseteq deleted',
             \A f \in log \cup deleted : \E g \in log' \cup deleted' : Twins(f, g)
      PROVE  Goal
  <2>1. Forked(lastId) => Forked(lastId)'
    <3> SUFFICES ASSUME Forked(lastId) PROVE Forked(lastId)'
      OBVIOUS
    <3>1. PICK e, f \in log \cup deleted : e.id < f.id /\ f.id <= lastId /\ e.prev = f.prev
      BY DEF Forked
    <3>2. PICK g \in log' \cup deleted' : Twins(e, g)
      BY <1>1
    <3>3. PICK h \in log' \cup deleted' : Twins(f, h)
      BY <1>1
    <3>4. g.id < h.id /\ h.id <= lastId' /\ g.prev = h.prev
      BY <1>1, <3>1, <3>2, <3>3 DEF Twins
    <3> QED
      BY <3>4 DEF Forked
  <2> QED
    BY <1>1, <2>1 DEF TheVerdictIsRight
<1>2. ASSUME NEW e \in log, Harm(e) PROVE Goal
  BY <1>1, <1>2, HarmLeavesTwins
<1>3. ASSUME walk' \in {"none", "walking", "sound"} PROVE Goal
  BY <1>3 DEF TheVerdictIsRight
<1>4. ASSUME FindBreak PROVE Goal
  <2>1. PICK e \in Page : Broken(e) /\ walk' = Verdict(e) /\ lastId' = e.id
    BY <1>4 DEF FindBreak
  <2>2. walk = "walking" /\ edited' = edited /\ deleted' = deleted /\ log' = log
    BY <1>4 DEF FindBreak, harm
  <2>3. CASE e.prev = Expected(e)
    <3>1. walk' = "edited"
      BY <2>1, <2>3 DEF Verdict
    <3>2. e \in log /\ ~Whole(e)
      BY <2>1, <2>3 DEF Broken, Whole, Page, Unread
    <3> QED
      BY <2>1, <2>2, <3>1, <3>2 DEF LogInv, TheVerdictIsRight
  <2>4. CASE e.prev # Expected(e)
    <3>1. (\E d \in deleted : d.id < e.id) \/ (~First(e) /\ Forked(e.id))
      BY <2>2, <2>4, ARowIsMissing
    <3>2. walk' = IF First(e) THEN "rooted" ELSE "unlinked"
      BY <2>1, <2>4 DEF Verdict
    <3>3. Forked(e.id) => Forked(lastId)'
      BY <2>1, <2>2 DEF Forked
    <3> QED
      BY <2>1, <2>2, <3>1, <3>2, <3>3 DEF TheVerdictIsRight
  <2> QED
    BY <2>3, <2>4
<1>5. ReadPage => Goal
  BY <1>3 DEF ReadPage
<1>6. ASSUME UNCHANGED <<walk, lastId, harm>>, log \subseteq log' PROVE Goal
  <2>1. \A f \in log \cup deleted : f \in log' \cup deleted' /\ Twins(f, f)
    BY <1>6 DEF harm, Twins
  <2>2. \A f \in log \cup deleted : \E g \in log' \cup deleted' : Twins(f, g)
    BY <2>1
  <2>3. edited \subseteq edited' /\ deleted \subseteq deleted'
    BY <1>6 DEF harm
  <2> HIDE DEF Goal
  <2> QED
    BY <1>1, <1>6, <2>2, <2>3
<1>7. \A w \in Writers : (\A p \in Payloads, x \in Actors : Record(w, p, x) => Goal)
                       /\ (CommitEvents(w) => Goal) /\ (RollBackEvents(w) => Goal)
  <2> SUFFICES ASSUME NEW w \in Writers
               PROVE  /\ \A p \in Payloads, x \in Actors : Record(w, p, x) => Goal
                      /\ CommitEvents(w) => Goal
                      /\ RollBackEvents(w) => Goal
    OBVIOUS
  <2>1. ASSUME NEW p \in Payloads, NEW x \in Actors, Record(w, p, x) PROVE Goal
    BY <1>6, <2>1 DEF Record, reader
  <2>2. CommitEvents(w) => Goal
    BY <1>6 DEF CommitEvents
  <2>3. RollBackEvents(w) => Goal
    BY <1>6 DEF RollBackEvents, reader
  <2> HIDE DEF Goal
  <2> QED
    BY <2>1, <2>2, <2>3
<1>8. UNCHANGED auditVars => Goal
  <2>1. UNCHANGED auditVars => UNCHANGED <<walk, lastId, harm>> /\ log \subseteq log'
    BY DEF auditVars, harm, reader
  <2> HIDE DEF Goal
  <2> QED
    BY <1>6, <2>1
<1>9. (BeginWalk => Goal) /\ (EndWalk => Goal)
  BY <1>3 DEF BeginWalk, EndWalk
<1>10. AuditNext => Goal
  <2> HIDE DEF Goal
  <2> QED
    BY <1>2, <1>4, <1>5, <1>7, <1>9, AuditCases
<1> QED
  BY <1>8, <1>10

ChainInv == LogInv /\ ParentInv /\ WalkInv

LEMMA ChainInit == AuditInit => ChainInv /\ TheVerdictIsRight
<1> SUFFICES ASSUME AuditInit PROVE ChainInv /\ TheVerdictIsRight
  OBVIOUS
<1>1. ParentInv /\ WalkInv /\ TheVerdictIsRight
  BY DEF AuditInit, ParentInv, WalkInv, TheVerdictIsRight
<1> QED
  BY <1>1, LogInit DEF ChainInv

LEMMA ChainStep ==
  ASSUME ChainInv, [AuditNext]_auditVars PROVE ChainInv'
BY LogStep, ParentStep, WalkStep DEF ChainInv

(* What the verifier says of a log it finds broken is so, however many     *)
(* sessions record at once and whatever they commit, roll back or harm.    *)
THEOREM VerdictsAreRight == AuditSpec => []TheVerdictIsRight
<1>1. ChainInv /\ TheVerdictIsRight /\ [AuditNext]_auditVars => (ChainInv /\ TheVerdictIsRight)'
  BY ChainStep, VerdictStep DEF ChainInv
<1> QED
  BY <1>1, ChainInit, PTL DEF AuditSpec

-----------------------------------------------------------------------------
(* What a walk that ends well has shown.  A hash holds what the row said,  *)
(* so two whole rows with the same hashes say the same.                    *)
LEMMA SameHashSameWords ==
  ASSUME NEW e \in Events, NEW o \in Events, Whole(e), Whole(o), Twins(e, o)
  PROVE  e.payload = o.payload
<1>1. /\ e.hash = Append(e.prev, e.payload) /\ o.hash = Append(e.prev, o.payload)
      /\ e.prev \in Seq(Payloads) /\ e.payload \in Payloads /\ o.payload \in Payloads
      /\ e.hash = o.hash
  BY DEF Events, Whole, Twins, Hash
<1>2. \A s \in Seq(Payloads), p \in Payloads : Append(s, p)[Len(s) + 1] = p
  OBVIOUS
<1>3. /\ Append(e.prev, e.payload)[Len(e.prev) + 1] = e.payload
      /\ Append(e.prev, o.payload)[Len(e.prev) + 1] = o.payload
  BY <1>1, <1>2, Zenon
<1>4. Append(e.prev, e.payload) = Append(e.prev, o.payload)
  BY <1>1, Zenon
<1> QED
  BY <1>3, <1>4, Zenon

LEMMA SoundAtTheEnd ==
  ASSUME [AuditNext]_auditVars, walk = "walking", walk' = "sound" PROVE EndWalk
<1>1. UNCHANGED walk => FALSE
  OBVIOUS
<1>2. AuditNext
  BY <1>1 DEF auditVars
<1> DEFINE Goal == EndWalk
<1>3. \A w \in Writers : (\A p \in Payloads, x \in Actors : Record(w, p, x) => Goal)
                       /\ (CommitEvents(w) => Goal) /\ (RollBackEvents(w) => Goal)
  BY <1>1 DEF Record, CommitEvents, RollBackEvents, reader
<1>4. \A e \in log : Harm(e) => Goal
  BY <1>1 DEF Harm
<1>5. (BeginWalk => Goal) /\ (ReadPage => Goal)
  BY <1>1 DEF BeginWalk, ReadPage
<1>6. FindBreak => Goal
  BY DEF FindBreak, Verdict
<1>7. EndWalk => Goal
  OBVIOUS
<1> HIDE DEF Goal
<1>8. Goal
  BY <1>2, <1>3, <1>4, <1>5, <1>6, <1>7, AuditCases
<1> QED
  BY <1>8 DEF Goal

(* However many sessions record at once, a walk that nothing harmed and    *)
(* that ends well leaves no row that says other than when it was written,  *)
(* and of the rows it could read none that is linked to a deleted one.     *)
THEOREM HarmIsSeen == AuditSpec => NoHarmGoesUnseen
<1> DEFINE Seen1 ==
      walk = "walking" /\ walk' = "sound" /\ ~disturbed =>
        /\ \A o \in edited, e \in log : e.id = o.id => e.payload = o.payload
        /\ \A d \in deleted, e \in log \ missed :
             e.prev = d.hash => \E f \in log : f.id < e.id /\ f.hash = d.hash
<1>1. ASSUME ChainInv, [AuditNext]_auditVars PROVE Seen1
  <2> SUFFICES ASSUME walk = "walking", walk' = "sound", ~disturbed
               PROVE  /\ \A o \in edited, e \in log : e.id = o.id => e.payload = o.payload
                      /\ \A d \in deleted, e \in log \ missed :
                           e.prev = d.hash => \E f \in log : f.id < e.id /\ f.hash = d.hash
    OBVIOUS
  <2>1. EndWalk
    BY <1>1, SoundAtTheEnd
  <2>2. /\ log \subseteq Events /\ edited \subseteq Events /\ deleted \subseteq Events
        /\ lastId \in Nat
    BY <1>1 DEF ChainInv, LogInv, AuditTypeOK
  <2>3. \A e \in log : e.id <= lastId
    BY <2>1, <2>2 DEF EndWalk, Unread, Events
  <2>4. \A e \in log : Whole(e) /\ (e \in missed \/ LinkedTo(e, log))
    BY <1>1, <2>3 DEF ChainInv, WalkInv
  <2>5. ASSUME NEW o \in edited, NEW e \in log, e.id = o.id PROVE e.payload = o.payload
    <3>1. Twins(e, o) /\ Whole(o)
      BY <1>1, <2>5 DEF ChainInv, LogInv, Known, LogRows, Twins
    <3> QED
      BY <2>2, <2>4, <3>1, SameHashSameWords
  <2>6. ASSUME NEW d \in deleted, NEW e \in log \ missed, e.prev = d.hash
        PROVE  \E f \in log : f.id < e.id /\ f.hash = d.hash
    <3>1. d.hash # Genesis
      <4>1. /\ d.hash = Append(d.prev, d.payload)
            /\ d.prev \in Seq(Payloads) /\ d.payload \in Payloads
        BY <1>1, <2>2 DEF ChainInv, LogInv, Whole, Hash, Events
      <4>2. Len(d.hash) = Len(d.prev) + 1 /\ Len(d.prev) \in Nat
        BY <4>1
      <4>3. Len(Genesis) = 0
        BY DEF Genesis
      <4> QED
        BY <4>2, <4>3
    <3> QED
      BY <2>4, <2>6, <3>1 DEF LinkedTo
  <2> QED
    BY <2>5, <2>6
<1>2. ASSUME ChainInv, [AuditNext]_auditVars PROVE [Seen1]_auditVars
  BY <1>1, <1>2
<1>3. ChainInv /\ [AuditNext]_auditVars => ChainInv'
  BY ChainStep
<1> QED
  BY <1>2, <1>3, ChainInit, PTL DEF AuditSpec, NoHarmGoesUnseen
=============================================================================
