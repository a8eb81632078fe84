--------------------------- MODULE StandingBudget ---------------------------
(***************************************************************************)
(* The watchlist's queue and the monthly budget it spends.  An entry is    *)
(* commissioned as a research request whose run may spend up to its cap;   *)
(* the queue reserves what its live runs may yet spend and starts no run   *)
(* the room left does not hold.  A session decides on what it loaded       *)
(* before it had the entry's row lock: the lock refreshes nothing.         *)
(***************************************************************************)
EXTENDS Integers, FiniteSets, Functions

CONSTANTS
  Entries,      \* what the operator follows, numbered in the order followed
  Requests,     \* bound: the queue's requests, numbered by commissioned_at
  RunCap,       \* per_run_budget_gbp, the cap each commission carries
  Budget,       \* watchlist_budget_gbp
  Clerks,       \* sessions that commission: the page's and the terminal's
  Walkers,      \* those that walk the queue; the others commission one entry
  MaxSpent,     \* bound: what the runs of one request come to
  MaxRevived    \* bound: requests whose dead run is brought back

ASSUME StandingAssumption ==
  /\ {RunCap, Budget, MaxSpent, MaxRevived} \subseteq Nat
  /\ RunCap > 0
  /\ Entries \subseteq Nat \ {0} /\ Requests \subseteq Nat
  /\ IsFiniteSet(Requests)
  /\ Walkers \subseteq Clerks

VARIABLES
  entryOf,    \* entryOf[r]: the entry r was commissioned for, 0 before
  runOf,      \* runOf[r]: its latest run: "none", "live", "dead", "reported", "deleted"
  spent,      \* spent[r]: what the runs of r have spent
  followed,   \* entries not withdrawn
  todo,       \* todo[k]: the entries k has loaded and not dealt with
  saw,        \* saw[k]: each commission as k loaded it
  room,       \* room[k]: its reading of the budget
  locked,     \* locked[k]: the entries it has row-locked
  made,       \* made[k]: the requests it has created and not committed
  overtaken,  \* sessions whose reading misses what another has commissioned
  uncounted,  \* requests no reading of the budget was bound to count
  revived,    \* requests whose dead run was brought back
  outrun      \* entries commissioned while another session had them loaded

requestRows  == <<entryOf, runOf, spent>>
sessions     == <<todo, saw, room, locked, made, overtaken>>
standingVars == <<requestRows, followed, sessions, uncounted, revived, outrun>>

RunStatuses == {"none", "live", "dead", "reported", "deleted"}
Views    == {"unread", "fresh", "live", "dead", "gone"}

StandingTypeOK ==
  /\ entryOf \in [Requests -> Entries \cup {0}]
  /\ runOf \in [Requests -> RunStatuses]
  /\ spent \in [Requests -> Nat]
  /\ followed \subseteq Entries
  /\ todo \in [Clerks -> SUBSET Entries]
  /\ saw \in [Clerks -> [Requests -> Views]]
  /\ room \in [Clerks -> {"unread", "enough", "short"}]
  /\ locked \in [Clerks -> SUBSET Entries]
  /\ made \in [Clerks -> SUBSET Requests]
  /\ overtaken \subseteq Clerks
  /\ uncounted \subseteq Requests /\ revived \subseteq Requests
  /\ outrun \subseteq Entries

StandingInit ==
  /\ entryOf = [r \in Requests |-> 0]
  /\ runOf = [r \in Requests |-> "none"]
  /\ spent = [r \in Requests |-> 0]
  /\ followed = Entries
  /\ todo = [k \in Clerks |-> {}]
  /\ saw = [k \in Clerks |-> [r \in Requests |-> "unread"]]
  /\ room = [k \in Clerks |-> "unread"]
  /\ locked = [k \in Clerks |-> {}]
  /\ made = [k \in Clerks |-> {}]
  /\ overtaken = {}
  /\ uncounted = {} /\ revived = {}
  /\ outrun = {}

-----------------------------------------------------------------------------
Committed(r) == runOf[r] # "none" /\ \A k \in Clerks : r \notin made[k]

IsLatest(r, rows) == r \in rows /\ \A q \in rows : q <= r

(* What k takes r's run for: what the database says of a row that was not  *)
(* loaded, or of one whose run was not ("fresh"), and else what it said    *)
(* when it was loaded; of a request deleted since, no run is left to read. *)
LooksLike(k, r) == IF saw[k][r] \in {"unread", "fresh"} THEN runOf[r] ELSE saw[k][r]

-----------------------------------------------------------------------------
(* standing_budget: what each commission of the month has spent, and what  *)
(* is reserved for it.  A deleted request reserves its cap, for what it    *)
(* spent can no longer be read.                                            *)
(* Mutant: a live run reserves nothing. *)
ChargedAsSpent(k, r) ==
  CASE LooksLike(k, r) = "gone"    -> 0
    [] LooksLike(k, r) = "deleted" -> RunCap
    [] OTHER                       -> spent[r]

Charged(k, r) ==
  CASE LooksLike(k, r) = "gone"                       -> 0
    [] LooksLike(k, r) = "deleted"                    -> RunCap
    [] LooksLike(k, r) = "live" /\ spent[r] < RunCap   -> RunCap
    [] OTHER                                          -> spent[r]

(* The session's own rows are flushed, and its next reading finds them.     *)
(* Mutant: a drain reads the budget without the runs it has just started. *)
CountsCommitted(k, r) == Committed(r)

Counts(k, r) == Committed(r) \/ r \in made[k]

CanAfford(k) ==
  SumFunction([r \in Requests |-> IF Counts(k, r) THEN Charged(k, r) ELSE 0]) + RunCap <= Budget

-----------------------------------------------------------------------------
(* A session loads entries with their commissions: the page one entry, and *)
(* a drain the whole queue, whose runs it loads too.  What does not change *)
(* again, a report or a deletion, need not be remembered.                  *)
Loaded(r) == IF runOf[r] \in {"live", "dead"} THEN runOf[r] ELSE "fresh"

Quiet(k) == todo[k] = {} /\ locked[k] = {}

OpenEntry(k, e) ==
  /\ k \notin Walkers
  /\ Quiet(k)
  /\ e \in followed
  /\ todo' = [todo EXCEPT ![k] = {e}]
  /\ saw' = [saw EXCEPT ![k] = [r \in Requests |->
       IF Committed(r) /\ entryOf[r] = e THEN "fresh" ELSE "unread"]]
  /\ UNCHANGED <<requestRows, followed, room, locked, made, overtaken,
                 uncounted, revived, outrun>>

(* queue_for *)
InQueue(e) ==
  /\ e \in followed
  /\ \A r \in Requests :
       IsLatest(r, {q \in Requests : Committed(q) /\ entryOf[q] = e})
         => runOf[r] \in {"dead", "deleted"}

BeginDrain(k) ==
  /\ k \in Walkers
  /\ Quiet(k)
  /\ \E e \in Entries : InQueue(e)
  /\ todo' = [todo EXCEPT ![k] = {e \in Entries : InQueue(e)}]
  /\ saw' = [saw EXCEPT ![k] = [r \in Requests |->
       IF Committed(r) /\ entryOf[r] # 0 /\ InQueue(entryOf[r]) THEN Loaded(r) ELSE "unread"]]
  /\ UNCHANGED <<requestRows, followed, room, locked, made, overtaken,
                 uncounted, revived, outrun>>

-----------------------------------------------------------------------------
(* commission_next and commission.                                         *)
HeadOf(k, e) == e \in todo[k] /\ \A f \in todo[k] : e <= f

(* The budget is read without a lock: by a drain before it locks its first *)
(* entry and again after each run it starts, by the page under its lock.   *)
ReadBudget(k) ==
  /\ room[k] = "unread"
  /\ \E e \in todo[k] : HeadOf(k, e) /\ (k \in Walkers \/ e \in locked[k])
  /\ room' = [room EXCEPT ![k] = IF CanAfford(k) THEN "enough" ELSE "short"]
  /\ overtaken' = IF \E l \in Clerks \ {k} : made[l] # {}
                    THEN overtaken \cup {k} ELSE overtaken \ {k}
  /\ UNCHANGED <<requestRows, followed, todo, saw, locked, made,
                 uncounted, revived, outrun>>

(* state_of: the run of the latest commission the session has loaded.      *)
Alive(k, e) ==
  \E r \in Requests :
    /\ IsLatest(r, {q \in Requests : entryOf[q] = e /\ saw[k][q] # "unread"})
    /\ LooksLike(k, r) = "live"

(* An entry is done with; after the last, so is what was loaded.           *)
DealtWith(k, e) ==
  /\ todo' = [todo EXCEPT ![k] = @ \ {e}]
  /\ saw' = IF todo[k] = {e} THEN [saw EXCEPT ![k] = [r \in Requests |-> "unread"]] ELSE saw

(* Mutant: the entry is read without FOR UPDATE. *)
AnyoneMay(k, e) == TRUE

Unlocked(k, e) == \A l \in Clerks \ {k} : e \notin locked[l]

(* Wait for the row lock, then look.  An entry with a run alive is passed  *)
(* over by a drain, which keeps the lock; the page gives up (`Abandon`).   *)
LockEntry(k) == \E e \in todo[k] :
  /\ HeadOf(k, e)
  /\ e \notin locked[k] /\ Unlocked(k, e)
  /\ k \in Walkers => room[k] # "unread"
  /\ locked' = [locked EXCEPT ![k] = @ \cup {e}]
  /\ \/ Alive(k, e) /\ k \in Walkers /\ DealtWith(k, e)
     \/ ~Alive(k, e) /\ k \in Walkers /\ UNCHANGED <<todo, saw>>
     \/ /\ ~Alive(k, e) /\ k \notin Walkers
        /\ saw' = [saw EXCEPT ![k] = [r \in Requests |->
             IF @[r] = "fresh" THEN Loaded(r) ELSE @[r]]]
        /\ UNCHANGED todo
  /\ UNCHANGED <<requestRows, followed, room, made, overtaken,
                 uncounted, revived, outrun>>

(* The rules refuse the request, and a drain goes on to the next entry.    *)
PassOver(k) == \E e \in todo[k] \cap locked[k] :
  /\ HeadOf(k, e)
  /\ k \in Walkers
  /\ room[k] = "enough"
  /\ DealtWith(k, e)
  /\ UNCHANGED <<requestRows, followed, room, locked, made, overtaken,
                 uncounted, revived, outrun>>

(* The request, its run and the commission, dated after what was loaded.   *)
Commission(k) == \E e \in todo[k] \cap locked[k], r \in Requests :
  /\ HeadOf(k, e)
  /\ room[k] = "enough"
  /\ runOf[r] = "none"
  /\ \/ \A q \in Requests : runOf[q] = "none" => r <= q
     \/ \E l \in Clerks \ {k} : e \in todo[l]
  /\ \A q \in Requests : entryOf[q] = e /\ saw[k][q] # "unread" => q < r
  /\ entryOf' = [entryOf EXCEPT ![r] = e]
  /\ runOf' = [runOf EXCEPT ![r] = "live"]
  /\ made' = [made EXCEPT ![k] = @ \cup {r}]
  /\ DealtWith(k, e)
  /\ room' = [room EXCEPT ![k] = "unread"]
  /\ overtaken' = (overtaken \cup {l \in Clerks : room[l] # "unread"}) \ {k}
  /\ uncounted' = IF k \in overtaken THEN uncounted \cup {r} ELSE uncounted
  /\ UNCHANGED <<spent, followed, locked, revived, outrun>>

Leave(k) ==
  /\ todo' = [todo EXCEPT ![k] = {}]
  /\ saw' = [saw EXCEPT ![k] = [r \in Requests |-> "unread"]]
  /\ room' = [room EXCEPT ![k] = "unread"]
  /\ locked' = [locked EXCEPT ![k] = {}]
  /\ made' = [made EXCEPT ![k] = {}]
  /\ overtaken' = overtaken \ {k}
  /\ UNCHANGED <<spent, followed, revived>>

(* A drain also stops at its limit, and at an entry there is no room for.  *)
CommitClerk(k) ==
  /\ ~Quiet(k)
  /\ \/ todo[k] = {}
     \/ k \in Walkers /\ \E e \in todo[k] :
          HeadOf(k, e) /\ (e \in locked[k] => room[k] = "short")
  /\ outrun' = outrun \cup {e \in Entries :
       /\ \E r \in made[k] : entryOf[r] = e
       /\ \E l \in Clerks \ {k} : e \in todo[l]}
  /\ Leave(k)
  /\ UNCHANGED <<entryOf, runOf, uncounted>>

(* A refusal on the page, a failed session or a killed command.            *)
Abandon(k) ==
  /\ ~Quiet(k)
  /\ entryOf' = [r \in Requests |-> IF r \in made[k] THEN 0 ELSE entryOf[r]]
  /\ runOf' = [r \in Requests |-> IF r \in made[k] THEN "none" ELSE runOf[r]]
  /\ uncounted' = uncounted \ made[k]
  /\ Leave(k)
  /\ UNCHANGED outrun

(* The withdrawal waits for the row lock; a session that has loaded the    *)
(* entry does not notice it.                                               *)
StopFollowing(e) ==
  /\ e \in followed
  /\ \A k \in Clerks : e \notin locked[k]
  /\ followed' = followed \ {e}
  /\ UNCHANGED <<requestRows, sessions, uncounted, revived, outrun>>

-----------------------------------------------------------------------------
(* The runs.  The two guards a run carries hold it to more than its cap    *)
(* when its steps run side by side (`Spend`), and know nothing of the      *)
(* standing budget.                                                        *)
RunSpends(r) ==
  /\ Committed(r) /\ runOf[r] = "live"
  /\ spent[r] < MaxSpent
  /\ spent' = [spent EXCEPT ![r] = @ + 1]
  /\ UNCHANGED <<entryOf, runOf, followed, sessions, uncounted, revived, outrun>>

RunEnds(r) ==
  /\ Committed(r) /\ runOf[r] = "live"
  /\ \E how \in {"dead", "reported"} : runOf' = [runOf EXCEPT ![r] = how]
  /\ UNCHANGED <<entryOf, spent, followed, sessions, uncounted, revived, outrun>>

Resee(r, as) == [k \in Clerks |->
  [saw[k] EXCEPT ![r] = IF @ = "unread" THEN @ ELSE as]]

(* resume_run lets a dead run continue, and a session that had loaded it   *)
(* still takes it for dead; start_run puts a new one in its place, which   *)
(* no session has loaded.                                                  *)
StartOver(r) ==
  /\ Committed(r) /\ runOf[r] = "dead"
  /\ runOf' = [runOf EXCEPT ![r] = "live"]
  /\ revived' = revived \cup {r}
  /\ Cardinality(revived') <= MaxRevived
  /\ \/ UNCHANGED saw
     \/ saw' = Resee(r, "fresh")
  /\ UNCHANGED <<entryOf, spent, followed, todo, room, locked, made, overtaken,
                 uncounted, outrun>>

PurgeRequest(r) ==
  /\ Committed(r) /\ runOf[r] \in {"dead", "reported"}
  /\ runOf' = [runOf EXCEPT ![r] = "deleted"]
  /\ saw' = Resee(r, "gone")
  /\ uncounted' = IF \E k \in Clerks : saw[k][r] # "unread"
                    THEN uncounted \cup {r} ELSE uncounted
  /\ UNCHANGED <<entryOf, spent, followed, todo, room, locked, made, overtaken,
                 revived, outrun>>

StandingNext ==
  \/ \E k \in Clerks :
       \/ BeginDrain(k) \/ ReadBudget(k) \/ LockEntry(k) \/ PassOver(k)
       \/ Commission(k) \/ CommitClerk(k) \/ Abandon(k)
       \/ \E e \in Entries : OpenEntry(k, e)
  \/ \E e \in Entries : StopFollowing(e)
  \/ \E r \in Requests :
       RunSpends(r) \/ RunEnds(r) \/ StartOver(r) \/ PurgeRequest(r)

StandingSpec == StandingInit /\ [][StandingNext]_standingVars

-----------------------------------------------------------------------------
(* The promise of the row lock (watchlist.py:446-447): two sessions that   *)
(* commission one entry do not both start a run.  A session that waited    *)
(* for the lock decides on the commissions it loaded before, and does.     *)
OneRunUnderTheLock == revived = {} =>
  \A r, q \in Requests :
    runOf[r] = "live" /\ runOf[q] = "live" /\ entryOf[r] = entryOf[q] => r = q

(* What is left of it: an entry that nobody commissioned under another     *)
(* session's eyes has one live run at most, however often pages and drains *)
(* commission it, give it up, withdraw it or purge its requests; runs      *)
(* brought back by hand are not the queue's.                               *)
OneRunPerEntry ==
  \A r, q \in {p \in Requests \ revived : runOf[p] = "live" /\ entryOf[p] \notin outrun} :
    entryOf[r] = entryOf[q] => r = q

(* What the runs the queue started spend of their caps stays within the    *)
(* standing budget: ending, withdrawing, deleting, giving up or draining   *)
(* make no room that is not there.  Three kinds of request are beside it:  *)
(* commissioned on a reading another session had overtaken, purged while a *)
(* session had it loaded, or brought back after its run had died; and each *)
(* run may pass its own cap by what `Spend` allows it.                     *)
CommissionsFitTheBudget ==
  SumFunction([r \in Requests \ (uncounted \cup revived) |->
                 IF spent[r] < RunCap THEN spent[r] ELSE RunCap]) <= Budget
=============================================================================
