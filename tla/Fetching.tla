------------------------------ MODULE Fetching ------------------------------
(***************************************************************************)
(* What every outbound fetch shares with every other one, in Redis: the    *)
(* token bucket that paces the requests to a provider (a script, so one    *)
(* step), and the circuit breaker that stops asking a provider that keeps  *)
(* failing (separate commands, so other fetches come between them).  A     *)
(* fetch takes one token for each attempt, sleeps when there is none,      *)
(* backs off after a retryable answer and gives up after MaxAttempts.      *)
(*                                                                         *)
(* One provider: the keys of two providers are unrelated.  Tokens are      *)
(* counted in units, Cost of them a request, Rate of them a tick; a tick   *)
(* stands for the real numbers of the script.                              *)
(***************************************************************************)
EXTENDS Integers, Sequences, FiniteSets

CONSTANTS
  Fetchers,      \* coroutines of the workers that fetch from the provider
  Rate, Cost,    \* units refilled in a tick, units a request takes
  Burst,         \* units the bucket holds
  BucketTtl,     \* ticks after which an idle bucket expires
  MaxWait,       \* ticks of waiting for tokens after which a fetch is refused
  MaxAttempts, MaxBackoff, MaxRedirects,
  Threshold, Cooldown, CounterTtl,   \* the breaker's policy
  Skew,          \* what each fetcher's clock shows beyond the true time
  MaxTime        \* bound: no fetch starts after it

ASSUME FetchAssumption ==
  /\ {Rate, Cost, MaxAttempts, Threshold} \subseteq Nat \ {0}
  /\ {Burst, BucketTtl, MaxWait, MaxBackoff, MaxRedirects, Cooldown, CounterTtl, MaxTime}
       \subseteq Nat
  /\ Skew \in [Fetchers -> Nat]
  /\ Burst <= Rate * BucketTtl    \* a bucket that expires would be full

VARIABLES
  now,        \* time
  bucket,     \* [units, at]: what the script's hash holds; Fresh if there is none
  failures,   \* [count, until]: the failure counter and when it expires
  openUntil,  \* the open key expires then
  fetch,      \* each fetcher's place
  granted,    \* history: when each token was taken
  sour,       \* history: failures recorded since the last success
  cause       \* history: sour, as each fetcher's own failure left it

fetchVars == <<now, bucket, failures, openUntil, fetch, granted, sour, cause>>

Fresh == [units |-> -1, at |-> 0]
Places == {"idle", "asking", "sending", "asleep", "resting", "opening", "clearing"}
Idle == [at |-> "idle", hop |-> 0, try |-> 1, waited |-> 0, until |-> 0]

FetchTypeOK ==
  /\ now \in Nat
  /\ bucket \in [units : -1..Burst, at : Nat]
  /\ failures \in [count : Nat, until : Nat]
  /\ openUntil \in Nat
  /\ fetch \in [Fetchers -> [at : Places, hop : 0..MaxRedirects, try : 1..MaxAttempts,
                             waited : 0..MaxWait, until : Nat]]
  /\ granted \in Seq(Nat)
  /\ sour \in Nat
  /\ cause \in [Fetchers -> Nat]

FetchInit ==
  /\ now = 0
  /\ bucket = Fresh
  /\ failures = [count |-> 0, until |-> 0]
  /\ openUntil = 0
  /\ fetch = [f \in Fetchers |-> Idle]
  /\ granted = <<>>
  /\ sour = 0
  /\ cause = [f \in Fetchers |-> 0]

-----------------------------------------------------------------------------
(* The bucket.                                                             *)

Clock(f) == now + Skew[f]
Lesser(a, b) == IF a < b THEN a ELSE b
Elapsed(f) == IF Clock(f) > bucket.at THEN Clock(f) - bucket.at ELSE 0

(* Mutant: an idle bucket keeps filling past the burst. *)
RefilledUncapped(f) ==
  IF bucket.units = -1 THEN Burst ELSE bucket.units + Rate * Elapsed(f)

Refilled(f) ==
  IF bucket.units = -1 THEN Burst ELSE Lesser(Burst, bucket.units + Rate * Elapsed(f))

WaitFor(units) == (Cost - units + Rate - 1) \div Rate

Go(f, place) == fetch' = [fetch EXCEPT ![f].at = place]

(* Mutant: no limit to what a fetch waits for tokens. *)
AcquireForEver(f) ==
  LET units == Refilled(f) IN
  /\ fetch[f].at = "asking"
  /\ \/ /\ units >= Cost
        /\ bucket' = [units |-> units - Cost, at |-> Clock(f)]
        /\ granted' = Append(granted, now)
        /\ Go(f, "sending")
     \/ /\ units < Cost
        /\ bucket' = [units |-> units, at |-> Clock(f)]
        /\ Go(f, "asking")
        /\ UNCHANGED granted
  /\ UNCHANGED <<now, failures, openUntil, sour, cause>>

Slept(place, wait) ==
  [place EXCEPT !.at = "asleep", !.waited = @ + wait, !.until = now + wait]

Acquire(f) ==
  LET units == Refilled(f)
      wait == WaitFor(units) IN
  /\ fetch[f].at = "asking"
  /\ \/ /\ units >= Cost
        /\ bucket' = [units |-> units - Cost, at |-> Clock(f)]
        /\ granted' = Append(granted, now)
        /\ Go(f, "sending")
     \/ /\ units < Cost
        /\ bucket' = [units |-> units, at |-> Clock(f)]
        /\ fetch' = [fetch EXCEPT ![f] =
             IF @.waited + wait > MaxWait THEN Idle
             ELSE Slept(@, wait)]
        /\ UNCHANGED granted
  /\ UNCHANGED <<now, failures, openUntil, sour, cause>>

(* Redis drops the hash after its idle time; the script then starts a new one. *)
Expire ==
  /\ bucket.units # -1
  /\ \A f \in Fetchers : Clock(f) - bucket.at >= BucketTtl
  /\ bucket' = Fresh
  /\ UNCHANGED <<now, failures, openUntil, fetch, granted, sour, cause>>

Woken(place) ==
  IF place.at = "asleep" THEN [place EXCEPT !.at = "asking"]
  ELSE [place EXCEPT !.at = "asking", !.try = @ + 1, !.waited = 0]

Wake(f) ==
  /\ fetch[f].at \in {"asleep", "resting"}
  /\ now >= fetch[f].until
  /\ fetch' = [fetch EXCEPT ![f] = Woken(@)]
  /\ UNCHANGED <<now, bucket, failures, openUntil, granted, sour, cause>>

-----------------------------------------------------------------------------
(* A fetch: the breaker is asked once, the limiter before every attempt.    *)

Open == openUntil > now

Start(f) ==
  /\ fetch[f].at = "idle"
  /\ now < MaxTime
  /\ ~Open
  /\ Go(f, "asking")
  /\ UNCHANGED <<now, bucket, failures, openUntil, granted, sour, cause>>

(* An answer that is not worth retrying clears the counter. *)
(* Mutant: only the circuit's opening clears it. *)
AnsweredUncleared(f, redirected) ==
  /\ fetch[f].at = "sending"
  /\ sour' = 0
  /\ fetch' = [fetch EXCEPT ![f] =
       IF redirected /\ @.hop < MaxRedirects
         THEN [Idle EXCEPT !.at = "asking", !.hop = fetch[f].hop + 1]
         ELSE Idle]
  /\ UNCHANGED <<now, bucket, failures, openUntil, granted, cause>>

Answered(f, redirected) ==
  /\ fetch[f].at = "sending"
  /\ failures' = [count |-> 0, until |-> 0]
  /\ sour' = 0
  /\ fetch' = [fetch EXCEPT ![f] =
       IF redirected /\ @.hop < MaxRedirects
         THEN [Idle EXCEPT !.at = "asking", !.hop = fetch[f].hop + 1]
         ELSE Idle]
  /\ UNCHANGED <<now, bucket, openUntil, granted, cause>>

(* A body over the cap, or an address that may not be reached: raised past the breaker. *)
Abandoned(f) ==
  /\ fetch[f].at = "sending"
  /\ fetch' = [fetch EXCEPT ![f] = Idle]
  /\ UNCHANGED <<now, bucket, failures, openUntil, granted, sour, cause>>

BackOff(f, delay) ==
  /\ fetch[f].at = "sending"
  /\ fetch[f].try < MaxAttempts
  /\ fetch' = [fetch EXCEPT ![f] = [@ EXCEPT !.at = "resting", !.until = now + delay]]
  /\ UNCHANGED <<now, bucket, failures, openUntil, granted, sour, cause>>

Counted == IF failures.until > now THEN failures.count + 1 ELSE 1

Fail(f) ==
  /\ fetch[f].at = "sending"
  /\ fetch[f].try = MaxAttempts
  /\ failures' = [count |-> Counted, until |-> now + CounterTtl]
  /\ sour' = sour + 1
  /\ cause' = [cause EXCEPT ![f] = sour + 1]
  /\ fetch' = [fetch EXCEPT ![f] =
       IF Counted >= Threshold THEN [@ EXCEPT !.at = "opening"] ELSE Idle]
  /\ UNCHANGED <<now, bucket, openUntil, granted>>

OpenCircuit(f) ==
  /\ fetch[f].at = "opening"
  /\ openUntil' = now + Cooldown
  /\ Go(f, "clearing")
  /\ UNCHANGED <<now, bucket, failures, granted, sour, cause>>

ClearCounter(f) ==
  /\ fetch[f].at = "clearing"
  /\ failures' = [count |-> 0, until |-> 0]
  /\ fetch' = [fetch EXCEPT ![f] = Idle]
  /\ UNCHANGED <<now, bucket, openUntil, granted, sour, cause>>

-----------------------------------------------------------------------------
Resting(f) == fetch[f].at \in {"asleep", "resting"} /\ fetch[f].until > now

(* After MaxTime the clock goes on only for fetches that sleep. *)
Tick ==
  /\ \/ now < MaxTime
     \/ /\ \E f \in Fetchers : Resting(f)
        /\ \A f \in Fetchers : Resting(f) \/ fetch[f].at = "idle"
  /\ now' = now + 1
  /\ UNCHANGED <<bucket, failures, openUntil, fetch, granted, sour, cause>>

FetchStep(f) ==
  \/ Acquire(f)
  \/ Wake(f)
  \/ \E redirected \in BOOLEAN : Answered(f, redirected)
  \/ Abandoned(f)
  \/ \E delay \in 0..MaxBackoff : BackOff(f, delay)
  \/ Fail(f)
  \/ OpenCircuit(f)
  \/ ClearCounter(f)

FetchNext ==
  \/ Tick
  \/ Expire
  \/ \E f \in Fetchers : Start(f) \/ FetchStep(f)

(* Requests time out, sleeps end, and time passes. *)
FetchFairness == WF_fetchVars(Tick) /\ \A f \in Fetchers : WF_fetchVars(FetchStep(f))

FetchSpec == FetchInit /\ [][FetchNext]_fetchVars

FairFetchSpec == FetchSpec /\ FetchFairness

-----------------------------------------------------------------------------
(* The pace is kept: however many fetchers share the bucket, whenever it    *)
(* idled or expired, the requests let through since any one of them, that   *)
(* one included, fit the burst and what was refilled since (the script's    *)
(* refill, cap and update; RateLimiter.acquire).                            *)
PaceIsKept ==
  \A i \in DOMAIN granted :
    Cost * (Len(granted) - i + 1) <= Burst + Rate * (now - granted[i])

(* The circuit opens for cause: whoever opens it has seen its provider fail *)
(* Threshold times with no success recorded in between (record_failure's    *)
(* counter, record_success's reset), even with another fetch's answer       *)
(* between its count and its opening.                                       *)
CircuitOpensForCause ==
  [][\A f \in Fetchers : OpenCircuit(f) => cause[f] >= Threshold]_fetchVars

(* Every fetch ends: retries, redirects, back-offs and waits for tokens     *)
(* that others keep taking are all limited (acquire's max_wait_seconds,     *)
(* MAX_ATTEMPTS, MAX_REDIRECTS).                                            *)
EveryFetchEnds ==
  \A f \in Fetchers : fetch[f].at # "idle" ~> fetch[f].at = "idle"

(* Why: what a fetch has still before it.  A wait for tokens takes at least *)
(* a tick off what it may still wait, a retry starts those waits over and   *)
(* takes one off its attempts, a redirect starts the attempts over and      *)
(* takes one off its hops.                                                  *)
StepsOfATry == 2 * MaxWait + 5
StepsOfAHop == MaxAttempts * StepsOfATry

StepsFrom(at) ==
  CASE at = "asleep"                   -> 5
    [] at = "asking"                   -> 4
    [] at = "sending"                  -> 3
    [] at \in {"resting", "opening"}   -> 2
    [] at = "clearing"                 -> 1

StepsToGo(place) ==
  IF place.at = "idle" THEN 0
  ELSE (MaxRedirects - place.hop) * StepsOfAHop
         + (MaxAttempts - place.try) * StepsOfATry
         + 2 * (MaxWait - place.waited)
         + StepsFrom(place.at)

(* Each step a fetch takes, and no step of another or of the clock, lowers  *)
(* that, until the next one starts; and what it sleeps for is never further *)
(* off than the longest wait or back-off.                                   *)
FetchesGetShorter ==
  [][\A f \in Fetchers : fetch[f].at # "idle" =>
       \/ fetch'[f] = fetch[f]
       \/ StepsToGo(fetch'[f]) < StepsToGo(fetch[f])]_fetchVars

SleepsAreShort ==
  \A f \in Fetchers : Resting(f) =>
    fetch[f].until <= now + MaxWait \/ fetch[f].until <= now + MaxBackoff
=============================================================================
