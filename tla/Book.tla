-------------------------------- MODULE Book --------------------------------
(***************************************************************************)
(* One security of the operator's book.  Trades are recorded in any order  *)
(* and at any date, splits are derived when a trade is recorded or when    *)
(* the feed brings one, and every reader walks the rows by trade date and  *)
(* then in the order they were recorded: the holding, the positions that   *)
(* were closed, and the reviews of those.                                  *)
(***************************************************************************)
EXTENDS Integers, Sequences, FiniteSets, SequencesExt

CONSTANTS
  Dates,        \* the dates trades and splits carry
  Lots,        \* how many shares a trade is of
  Ratios,       \* what a split multiplies by
  Recorders,    \* who records: the portfolio page, the price acquisition
  MaxRecords,   \* bound: trades and splits recorded
  MaxReviews    \* bound: reviewer passes

ASSUME BookAssumption ==
  /\ Dates \subseteq Nat /\ Lots \subseteq Nat \ {0} /\ Ratios \subseteq Nat \ {0, 1}
  /\ MaxRecords \in Nat /\ MaxReviews \in Nat

VARIABLES
  book,       \* the transactions committed
  actions,    \* the splits known
  recorder,   \* what each recorder is about to commit
  recorded,   \* records begun, which dates them (recorded_at)
  proposals,  \* reviewer passes, each with what it has read of its episode
  reviews,    \* the episodes confirmed
  backdated,  \* history: a row came to lie before the close of a position passed over
  crossed     \* history: two recorders were at work at once

bookVars == <<book, actions, recorder, recorded, proposals, reviews, backdated, crossed>>

Kinds == {"buy", "sell", "dividend", "split"}
Transaction == [kind : Kinds, day : Dates, of : Lots \cup Ratios, at : Nat, tie : 0..2]
Action  == [day : Dates, ratio : Ratios]
Episode == [opened : Dates, closed : Dates, trades : SUBSET Transaction]
Rest    == [does |-> "rest", action |-> {}, rows |-> {}]

BookTypeOK ==
  /\ book \subseteq Transaction
  /\ actions \subseteq Action
  /\ recorder \in [Recorders -> [does : {"rest", "trade", "split"}, action : SUBSET Action,
                           rows : SUBSET Transaction]]
  /\ recorded \in 0..MaxRecords
  /\ \A e \in proposals \cup reviews : e.opened \in Dates /\ e.closed \in Dates /\ e.trades \subseteq Transaction
  /\ backdated \in BOOLEAN
  /\ crossed \in BOOLEAN

BookInit ==
  /\ book = {}
  /\ actions = {}
  /\ recorder = [k \in Recorders |-> Rest]
  /\ recorded = 0
  /\ proposals = {}
  /\ reviews = {}
  /\ backdated = FALSE
  /\ crossed = FALSE

-----------------------------------------------------------------------------
(* transactions_in_force: by trade date, every row of a date taking effect *)
(* at its midnight; then by when it was recorded, then by id, which says   *)
(* nothing of which came first.                                            *)
(* Mutant: newest first within a date. *)
ComesFirstNewest(a, b) ==
  \/ a.day < b.day
  \/ a.day = b.day /\ a.at > b.at
  \/ a.day = b.day /\ a.at = b.at /\ a.tie < b.tie

ComesFirst(a, b) ==
  \/ a.day < b.day
  \/ a.day = b.day /\ a.at < b.at
  \/ a.day = b.day /\ a.at = b.at /\ a.tie < b.tie

(* Mutant: in the order they were recorded. *)
InForceAsRecorded(rows) == SetToSortSeq(rows, LAMBDA a, b : a.at < b.at)

InForce(rows) == [i \in 1..Cardinality(rows) |->
  CHOOSE row \in rows : Cardinality({r \in rows : ComesFirst(r, row)}) = i - 1]

(* _walk: one row after another.  A dividend or a split while nothing is   *)
(* held is no row of the next episode; a walk that goes short stops.       *)
Ground == [held |-> 0, current |-> <<>>, episodes |-> {}, short |-> FALSE]

Moved(held, row) ==
  CASE row.kind = "buy"   -> held + row.of
    [] row.kind = "sell"  -> held - row.of
    [] row.kind = "split" -> held * row.of
    [] OTHER              -> held

(* Mutant: a split while nothing is held opens the next episode. *)
StrayDividend(w, row) == row.kind = "dividend" /\ w.current = <<>>

Stray(w, row) ==
  \/ row.kind = "dividend" /\ w.current = <<>>
  \/ row.kind = "split" /\ w.held = 0

Dealt(rows) == {i \in DOMAIN rows : rows[i].kind # "dividend"}

EpisodeOf(rows, day) ==
  [opened |-> rows[Min(Dealt(rows))].day, closed |-> day, trades |-> Range(rows)]

Stride(w, row) ==
  LET held == Moved(w.held, row)
      current == Append(w.current, row)
  IN IF w.short \/ Stray(w, row) THEN w
     ELSE IF held < 0 THEN [w EXCEPT !.held = 0, !.short = TRUE]
     ELSE IF held = 0 /\ row.kind # "dividend"
       THEN [w EXCEPT !.held = 0, !.current = <<>>,
                      !.episodes = @ \cup {EpisodeOf(current, row.day)}]
     ELSE [w EXCEPT !.held = held, !.current = current]

Walk(rows) == FoldLeft(Stride, Ground, InForce(rows))

-----------------------------------------------------------------------------
(* Recording a trade: its splits come with it, those known and not in the  *)
(* book (ensure_for).  Recording a split: it comes to every book that has  *)
(* a row of the security (derive_for_action).  Either sees what has been   *)
(* committed.                                                              *)
SplitRow(action) ==
  [kind |-> "split", day |-> action.day, of |-> action.ratio, at |-> recorded + 1, tie |-> 1]

HasRowOf(action) == \E row \in book : row.kind = "split" /\ row.day = action.day

(* Mutant: a trade brings no split. *)
MissingNever == {}

Missing == {SplitRow(action) : action \in {a \in actions : ~HasRowOf(a)}}

BeginWork(k, work) ==
  /\ recorder[k] = Rest
  /\ recorded < MaxRecords
  /\ recorded' = recorded + 1
  /\ recorder' = [recorder EXCEPT ![k] = work]
  /\ crossed' = (crossed \/ \E l \in Recorders : recorder[l] # Rest)
  /\ UNCHANGED <<book, actions, proposals, reviews, backdated>>

Ties(day) == IF \E row \in Missing : row.day = day THEN {0, 2} ELSE {0}

RecordTransaction(k, kind, day, lot) == \E tie \in Ties(day) :
  LET trade == [kind |-> kind, day |-> day, of |-> lot, at |-> recorded + 1, tie |-> tie]
  IN BeginWork(k, [does |-> "trade", action |-> {}, rows |-> {trade} \cup Missing])

RecordAction(k, action) ==
  /\ \A a \in actions : a.day # action.day
  /\ BeginWork(k, [does |-> "split", action |-> {action},
                   rows |-> IF book = {} THEN {} ELSE {SplitRow(action)}])

(* One row for a split in a book, and one split of a date: by unique       *)
(* indexes, on which the second to come fails as a whole.                  *)
Clashes(k) ==
  \/ \E row \in recorder[k].rows : row.kind = "split" /\ HasRowOf(row)
  \/ \E a \in recorder[k].action, b \in actions : a.day = b.day

Backdates(rows) == \E row \in rows, e \in proposals : row.day < e.closed

CommitRecord(k) ==
  /\ recorder[k] # Rest
  /\ ~Clashes(k)
  /\ book' = book \cup recorder[k].rows
  /\ actions' = actions \cup recorder[k].action
  /\ recorder' = [recorder EXCEPT ![k] = Rest]
  /\ backdated' = (backdated \/ Backdates(recorder[k].rows))
  /\ UNCHANGED <<recorded, proposals, reviews, crossed>>

FailRecord(k) ==
  /\ recorder[k] # Rest
  /\ Clashes(k)
  /\ recorder' = [recorder EXCEPT ![k] = Rest]
  /\ UNCHANGED <<book, actions, recorded, proposals, reviews, backdated, crossed>>

-----------------------------------------------------------------------------
(* A pass reads the first episode of a close date; its draft is confirmed  *)
(* while the book still closes a position that day, once for the date.     *)
FirstClosed(day) ==
  LET closing == {e \in Walk(book).episodes : e.closed = day}
  IN {e \in closing : \A f \in closing : \E a \in e.trades : \A b \in f.trades : a = b \/ ComesFirst(a, b)}

Reviewed(day) == \E r \in reviews : r.closed = day

RunReview(day) == \E e \in FirstClosed(day) :
  /\ Cardinality(proposals) < MaxReviews
  /\ ~Reviewed(day)
  /\ proposals' = proposals \cup {e}
  /\ UNCHANGED <<book, actions, recorder, recorded, reviews, backdated, crossed>>

MayConfirm(e) == FirstClosed(e.closed) # {} /\ ~Reviewed(e.closed)

ConfirmReview(e) ==
  /\ MayConfirm(e)
  /\ reviews' = reviews \cup {e}
  /\ UNCHANGED <<book, actions, recorder, recorded, proposals, backdated, crossed>>

BookNext ==
  \/ \E k \in Recorders :
       \/ \E kind \in {"buy", "sell", "dividend"}, day \in Dates, lot \in Lots :
            RecordTransaction(k, kind, day, lot)
       \/ \E action \in Action : RecordAction(k, action)
       \/ CommitRecord(k)
       \/ FailRecord(k)
  \/ \E day \in Dates : RunReview(day)
  \/ \E e \in proposals : ConfirmReview(e)

BookSpec == BookInit /\ [][BookNext]_bookVars

-----------------------------------------------------------------------------
(* However many recorders are at work a split multiplies the book once,    *)
(* and unless two were at work at once a book with trades has exactly the  *)
(* splits the feed has brought, whichever came first (ensure_for and       *)
(* derive_for_action).                                                     *)
SplitsOf(rows) == {row \in rows : row.kind = "split"}
Traded == book # SplitsOf(book)

SplitsArrive ==
  /\ \A a, b \in SplitsOf(book) : a.day = b.day => a = b
  /\ ~crossed /\ Traded =>
       {[day |-> row.day, ratio |-> row.of] : row \in SplitsOf(book)} = actions

(* The walk finds the holding the book's history comes to, in whatever     *)
(* order it was recorded: what was dealt, each lot multiplied by the       *)
(* splits of later dates.  But for trades dealt on the date of a split.    *)
SplitsAfter(day) == {row \in SplitsOf(book) : row.day > day}
LotNow(row) == row.of * FoldFunctionOnSet( *, 1, [s \in book |-> s.of], SplitsAfter(row.day))
Bought(kind) == {row \in book : row.kind = kind}
Total(rows) == SumFunctionOnSet([row \in book |-> LotNow(row)], rows)
DealtOnASplit == \E a \in SplitsOf(book), b \in book \ SplitsOf(book) : a.day = b.day

HoldingIsTheHistory == ~DealtOnASplit /\ ~Walk(book).short =>
  Walk(book).held = Total(Bought("buy")) - Total(Bought("sell"))

(* The closed positions are the round trips: each is bought before it is   *)
(* sold, ends on a sale, and no trade is in two of them.                   *)
EpisodesAreRoundTrips ==
  LET episodes == Walk(book).episodes IN
  /\ \A e \in episodes :
       /\ \E row \in e.trades : row.kind = "buy" /\ row.day = e.opened
       /\ \A row \in e.trades : e.opened <= row.day /\ row.day <= e.closed
       /\ Walk(e.trades).held = 0 /\ Walk(e.trades).episodes = {e}
  /\ \A e, f \in episodes : e # f => e.trades \cap f.trades = {}

(* Once passed over and confirmed, a position stays a closed position of   *)
(* the book as it was reviewed, whatever is recorded, one at a time, after *)
(* it or for the day it closed, unless a row came for a date before its    *)
(* close.                                                                  *)
ReviewsStand == ~backdated /\ ~crossed => reviews \subseteq Walk(book).episodes
=============================================================================
