------------------------------- MODULE Ladder -------------------------------
(***************************************************************************)
(* Two published figures for one concept and period: the ladder that       *)
(* settles them or asks a person, and the check that runs every pair of    *)
(* one group through it.  Values are whole numbers, and a share of one is  *)
(* compared by multiplying out.                                            *)
(***************************************************************************)
EXTENDS Integers, FiniteSets

CONSTANTS
  Figures,  \* what a fact may say: value, unit, tier, filed and basis
  MaxFacts, \* bound: facts of the group
  MaxPairs, \* _MAX_PAIRS_PER_GROUP
  Powers    \* _SCALE_POWERS

ASSUME LadderAssumption ==
  \A figure \in Figures :
    figure.value \in Int /\ figure.tier \in Int /\ figure.filed \in Int

VARIABLES
  facts,     \* the facts the report publishes, by id
  conflicts, \* the rows recorded of them
  checked    \* has the check run

ladderVars == <<facts, conflicts, checked>>

LadderInit == facts = {} /\ conflicts = {} /\ checked = FALSE

-----------------------------------------------------------------------------
Abs(n)        == IF n < 0 THEN -n ELSE n
Larger(v, w)  == IF Abs(v) > Abs(w) THEN Abs(v) ELSE Abs(w)
Smaller(v, w) == IF Abs(v) > Abs(w) THEN Abs(w) ELSE Abs(v)

(* relative_difference, against a share of so many in ten thousand.        *)
Within(v, w, share) == 10000 * Abs(v - w) <= share * Larger(v, w)

Agree(f, g) == Within(f.value, g.value, 5)

Credible(f, g) == f.tier <= 4 /\ g.tier <= 4 /\ ~Within(f.value, g.value, 200)

PowerOfTenApart(v, w) ==
  /\ v # 0 /\ w # 0 /\ (v > 0) = (w > 0)
  /\ \E p \in Powers :
       1000 * Abs(Larger(v, w) - 10 ^ p * Smaller(v, w)) <= 5 * 10 ^ p * Smaller(v, w)

(* _canonical_order. *)
Precedes(f, g) ==
  \/ f.tier < g.tier
  \/ f.tier = g.tier /\ (f.filed < g.filed \/ (f.filed = g.filed /\ f.id < g.id))

(* resolve, after _canonical_order has put a before b: the rungs in the    *)
(* order they are tried, each with what must hold for it to fire.          *)
Rungs(a, b) ==
  << <<"unit_mismatch", a.unit # b.unit>>,
     <<"values_agree", Agree(a, b)>>,
     <<"suspected_scale_error", PowerOfTenApart(a.value, b.value)>>,
     <<"lower_tier_wins", a.tier # b.tier>>,
     <<"basis_mismatch", a.basis # b.basis>>,
     <<"later_filing_wins", a.filed # b.filed>>,
     <<"same_tier_same_date", a.value # b.value>> >>

(* Mutant: the filing dates are asked before the tiers. *)
DatesFirst(a, b) ==
  LET rung == Rungs(a, b)
      fires(i) == rung[i][2] IN
  IF ~fires(1) /\ ~fires(2) /\ ~fires(3) /\ ~fires(5) /\ fires(6)
  THEN "later_filing_wins"
  ELSE rung[CHOOSE i \in DOMAIN rung : fires(i) /\ \A j \in 1..(i - 1) : ~fires(j)][1]

Rule(a, b) ==
  LET rung == Rungs(a, b)
      fires(i) == rung[i][2] IN
  rung[CHOOSE i \in DOMAIN rung : fires(i) /\ \A j \in 1..(i - 1) : ~fires(j)][1]

Winner(a, b, rule) ==
  CASE rule = "lower_tier_wins"   -> {a}
    [] rule = "later_filing_wins" -> {b}
    [] OTHER                      -> {}

Resolution(a, b) ==
  LET rule == Rule(a, b) IN
  [a |-> a, b |-> b, rule |-> rule, winner |-> Winner(a, b, rule),
   material |-> a.unit # b.unit \/ Credible(a, b)]

Resolve(f, g) == IF Precedes(f, g) THEN Resolution(f, g) ELSE Resolution(g, f)

-----------------------------------------------------------------------------
(* check_report_consistency: the earliest fact of each value and unit, the *)
(* first pairs of them, and a row for each that does not agree.            *)
OnePerValue ==
  {f \in facts : \A g \in facts :
     g.value = f.value /\ g.unit = f.unit => f.id <= g.id}

PairedBefore(p, q) == p[1].id < q[1].id \/ (p[1].id = q[1].id /\ p[2].id < q[2].id)

Compared ==
  LET pairs == {p \in OnePerValue \X OnePerValue : p[1].id < p[2].id} IN
  {p \in pairs : Cardinality({q \in pairs : PairedBefore(q, p)}) < MaxPairs}

Recordable(resolution) == resolution.rule # "values_agree"

Publish ==
  /\ ~checked
  /\ Cardinality(facts) < MaxFacts
  /\ \E figure \in Figures :
       facts' = facts \cup
         {[id |-> Cardinality(facts) + 1, value |-> figure.value, unit |-> figure.unit,
           tier |-> figure.tier, filed |-> figure.filed, basis |-> figure.basis]}
  /\ UNCHANGED <<conflicts, checked>>

Check ==
  /\ ~checked
  /\ conflicts' = {r \in {Resolve(p[1], p[2]) : p \in Compared} : Recordable(r)}
  /\ checked' = TRUE
  /\ UNCHANGED facts

LadderNext == Publish \/ Check

LadderSpec == LadderInit /\ [][LadderNext]_ladderVars

-----------------------------------------------------------------------------
Rejects(r, f) == r.winner # {} /\ f \in {r.a, r.b} \ r.winner

Unbeaten(f) == ~\E r \in conflicts : Rejects(r, f)

Beats(f, g) == \E r \in conflicts : f \in r.winner /\ Rejects(r, g)

(* "No silent winner": what the ladder says of two facts does not depend   *)
(* on which is named first; among any of the group's figures one is not    *)
(* rejected by another, tolerances and all; and two that contradict each   *)
(* other both stand only where a person is asked about the two, as far as  *)
(* the bound on pairs reaches.                                             *)
NoSilentWinner == checked =>
  /\ \A f, g \in facts : Resolve(f, g) = Resolve(g, f)
  /\ \A group \in (SUBSET OnePerValue) \ {{}} :
       \E f \in group : ~\E g \in group : Beats(g, f)
  /\ \A p \in Compared :
       \/ p[1].unit = p[2].unit /\ Agree(p[1], p[2])
       \/ \E f \in {p[1], p[2]} : ~Unbeaten(f)
       \/ \E r \in conflicts : {r.a, r.b} = {p[1], p[2]} /\ r.winner = {}
=============================================================================
