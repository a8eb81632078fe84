---------------------------- MODULE ThesisWatch ----------------------------
(***************************************************************************)
(* The thesis monitor: passes that read the premises of one thesis against *)
(* the annual figures stored since each was last read, the findings they   *)
(* leave, and the people who decide and close those findings.              *)
(*                                                                         *)
(* A filing puts one figure of one fiscal year into the store.  A premise  *)
(* says either that the newest figure is at least Floor or that it is      *)
(* at least the one of the year before (a growth).  A pass looks at a      *)
(* premise and, after the model has answered, writes the finding: one      *)
(* transaction, with whatever others commit in between.                    *)
(***************************************************************************)
EXTENDS Integers, Sequences, FiniteSets, FiniteSetsExt

CONSTANTS
  Premises, Growth,  \* a pass reads them in the order 1, 2, ...; the growths among them
  Floor, Amounts,
  Years, Days,       \* fiscal years, and the days filings carry
  HeldOn,            \* the day each premise was written
  Monitors,          \* who runs passes: the worker, a shell
  Pages,              \* pages with a form on a finding
  MaxPasses, MaxActs \* bounds: passes, and acts of people

ASSUME WatchAssumption ==
  /\ IsFiniteSet(Premises) /\ Premises = 1..Cardinality(Premises)
  /\ Growth \subseteq Premises
  /\ IsFiniteSet(Years) /\ Years \subseteq Nat \ {0} /\ Days \subseteq Nat \ {0}
  /\ Amounts \subseteq Nat /\ Floor \in Nat
  /\ HeldOn \in Nat /\ MaxPasses \in Nat /\ MaxActs \in Nat

VARIABLES
  store,      \* each year's figure and the day it was filed; Unfiled if none
  withdrawn,  \* premises given up
  findings,   \* rows, oldest first
  acts,       \* resolutions and withdrawals, counted
  pass,       \* each monitor's pass
  form,       \* the finding each clerk's request has found open, and the act
  passes      \* passes begun

watchVars == <<store, withdrawn, findings, acts, pass, form, passes>>

Unfiled == [figure |-> 0, day |-> 0]
Filed == {y \in Years : store[y] # Unfiled}
Latest == Max(Filed)

Statuses == {"contradicted", "unobservable", "other"}
Acts == {"dismissed", "withdrawn", "reopened"}

(* against: the year a growth is from; root: its pass still exists; last:   *)
(* what the latest resolution did.                                          *)
Reading(p, status, year, against, to) ==
  [kind |-> "reading", premise |-> p, status |-> status, year |-> year, against |-> against,
   to |-> to, root |-> TRUE, last |-> "reopened"]
Stopped == [Reading(0, "other", 0, 0, 0) EXCEPT !.kind = "stopped"]

NoPass == [at |-> "off", next |-> 0, skips |-> {}, holds |-> FALSE, year |-> 0,
           against |-> 0, to |-> 0, quiet |-> TRUE]
NoForm == [row |-> 0, act |-> "dismissed"]

WatchTypeOK ==
  /\ store \in [Years -> [figure : Amounts \union {0}, day : Days \union {0}]]
  /\ withdrawn \subseteq Premises
  /\ findings \in Seq([kind : {"reading", "stopped"}, premise : Premises \union {0},
       status : Statuses, year : Years \union {0}, against : Years \union {0},
       to : Days \union {0}, root : BOOLEAN, last : Acts])
  /\ acts \in 0..MaxActs
  /\ \A m \in Monitors :
       /\ pass[m].at \in {"off", "reading", "asking"}
       /\ pass[m].next \in 0..(Cardinality(Premises) + 1)
       /\ pass[m].skips \subseteq Premises
  /\ form \in [Pages -> [row : 0..Len(findings), act : Acts]]
  /\ passes \in 0..MaxPasses

WatchInit ==
  /\ store = [y \in Years |-> Unfiled]
  /\ withdrawn = {}
  /\ findings = <<>>
  /\ acts = 0
  /\ pass = [m \in Monitors |-> NoPass]
  /\ form = [c \in Pages |-> NoForm]
  /\ passes = 0

-----------------------------------------------------------------------------
(* What the store says of a premise.                                       *)

Prior == Max(Filed \ {Latest})
YearBefore(p) == IF p \in Growth THEN Prior ELSE 0
Measurable(p) == p \in Growth => Cardinality(Filed) > 1
Holds(p) ==
  store[Latest].figure >= IF p \in Growth THEN store[Prior].figure ELSE Floor

(* Mutant: an unobservable reading counts as a reading. *)
LastReadingOfAny(p) ==
  LET of == {i \in DOMAIN findings : findings[i].kind = "reading" /\ findings[i].premise = p} IN
  IF of = {} THEN 0 ELSE Max(of)

LastReading(p) ==
  LET of == {i \in DOMAIN findings : /\ findings[i].kind = "reading"
                                     /\ findings[i].premise = p
                                     /\ findings[i].status # "unobservable"} IN
  IF of = {} THEN 0 ELSE Max(of)

ReadSince(p) ==
  IF LastReading(p) = 0 THEN HeldOn ELSE Max({HeldOn, findings[LastReading(p)].to})

Window(p) == {y \in Filed : store[y].day > ReadSince(p)}

(* Mutant: only the filing dates decide what is new. *)
NewsByDate(p) == Window(p) # {}

News(p) ==
  /\ Window(p) # {}
  /\ LastReading(p) # 0 => findings[LastReading(p)].year < Max(Window(p))

WindowTo(p) == Max({store[y].day : y \in Window(p)})

-----------------------------------------------------------------------------
(* quiet: no figure has arrived under way of the pass.                      *)
Disturbed == [m \in Monitors |-> IF pass[m].at = "off" THEN NoPass
                                 ELSE [pass[m] EXCEPT !.quiet = FALSE]]

(* A filing arrives: a new year, filed after every older one the store has, *)
(* be it an old year filed late; or a year filed again.                     *)
File(y, figure, day) ==
  /\ store[y] = Unfiled
  /\ \A z \in Filed : z < y => day > store[z].day
  /\ store' = [store EXCEPT ![y] = [figure |-> figure, day |-> day]]
  /\ pass' = Disturbed
  /\ UNCHANGED <<withdrawn, findings, acts, form, passes>>

Restate(y, figure, day) ==
  /\ y \in Filed
  /\ \A z \in Filed : day > store[z].day
  /\ store' = [store EXCEPT ![y] = [figure |-> figure, day |-> day]]
  /\ pass' = Disturbed
  /\ UNCHANGED <<withdrawn, findings, acts, form, passes>>

-----------------------------------------------------------------------------
(* A pass.                                                                  *)

BeginPass(m) ==
  /\ pass[m].at = "off"
  /\ passes < MaxPasses
  /\ passes' = passes + 1
  /\ pass' = [pass EXCEPT ![m] = [NoPass EXCEPT !.at = "reading", !.next = 1,
                                    !.skips = withdrawn]]
  /\ UNCHANGED <<store, withdrawn, findings, acts, form>>

(* The premises come with the thesis, before the pass: a withdrawal that    *)
(* commits later is not seen.                                               *)
Reads(m, p) == pass[m].at = "reading" /\ p = pass[m].next /\ p \in Premises

OnTo(m) == [pass EXCEPT ![m] =
  [NoPass EXCEPT !.at = "reading", !.next = pass[m].next + 1, !.skips = pass[m].skips,
                 !.quiet = pass[m].quiet]]

Pass(m, p) ==
  /\ Reads(m, p)
  /\ p \in pass[m].skips \/ ~News(p)
  /\ pass' = OnTo(m)
  /\ UNCHANGED <<store, withdrawn, findings, acts, form, passes>>

Unobservable(m, p) ==
  /\ Reads(m, p)
  /\ p \notin pass[m].skips
  /\ News(p)
  /\ ~Measurable(p)
  /\ findings' = Append(findings, Reading(p, "unobservable", 0, 0, WindowTo(p)))
  /\ pass' = OnTo(m)
  /\ UNCHANGED <<store, withdrawn, acts, form, passes>>

AskModel(m, p) ==
  /\ Reads(m, p)
  /\ p \notin pass[m].skips
  /\ News(p)
  /\ Measurable(p)
  /\ pass' = [pass EXCEPT ![m] = [@ EXCEPT !.at = "asking", !.holds = Holds(p),
                                    !.year = Latest, !.against = YearBefore(p), !.to = WindowTo(p)]]
  /\ UNCHANGED <<store, withdrawn, findings, acts, form, passes>>

Bounded(reply, holds) ==
  IF ~holds THEN "contradicted"
  ELSE IF reply \in {"contradicted", "unobservable"} THEN "other" ELSE reply

Answer(m, reply) ==
  /\ pass[m].at = "asking"
  /\ findings' = Append(findings,
       Reading(pass[m].next, Bounded(reply, pass[m].holds), pass[m].year, pass[m].against,
               pass[m].to))
  /\ pass' = OnTo(m)
  /\ UNCHANGED <<store, withdrawn, acts, form, passes>>

(* A cost ceiling stops the pass with a finding, anything else only fails it. *)
Refuse(m) ==
  /\ pass[m].at = "asking"
  /\ findings' = Append(findings, Stopped)
  /\ pass' = [pass EXCEPT ![m] = NoPass]
  /\ UNCHANGED <<store, withdrawn, acts, form, passes>>

FailPass(m) ==
  /\ pass[m].at \in {"reading", "asking"}
  /\ pass[m].next \in Premises
  /\ pass' = [pass EXCEPT ![m] = NoPass]
  /\ UNCHANGED <<store, withdrawn, findings, acts, form, passes>>

Finish(m) ==
  /\ pass[m].at = "reading"
  /\ pass[m].next \notin Premises
  /\ pass' = [pass EXCEPT ![m] = NoPass]
  /\ UNCHANGED <<store, withdrawn, findings, acts, form, passes>>

-----------------------------------------------------------------------------
(* People.                                                                  *)

IsOpen(i) == findings[i].last = "reopened"
OpensGate(i) == findings[i].status = "contradicted"
GateIsDecidable(i) == OpensGate(i) /\ IsOpen(i) /\ findings[i].root

MayAct(i, act) ==
  /\ IF act = "reopened" THEN ~IsOpen(i) ELSE IsOpen(i)
  /\ act = "withdrawn" => findings[i].premise # 0

(* Deciding a gate withdraws the premise or keeps it; there is no reopening it *)
(* at the gate, and any other act is refused while it can be decided there.    *)
OpenForm(c, i, act) ==
  /\ form[c].row = 0
  /\ acts < MaxActs
  /\ MayAct(i, act)
  /\ GateIsDecidable(i) => act # "reopened"
  /\ form' = [form EXCEPT ![c] = [row |-> i, act |-> act]]
  /\ acts' = acts + 1
  /\ UNCHANGED <<store, withdrawn, findings, pass, passes>>

ResolveFinding(c) ==
  LET i == form[c].row
      act == form[c].act IN
  /\ i # 0
  /\ findings' = [findings EXCEPT ![i] = [@ EXCEPT !.last = act]]
  /\ withdrawn' = IF act = "withdrawn" THEN withdrawn \union {findings[i].premise} ELSE withdrawn
  /\ form' = [form EXCEPT ![c] = NoForm]
  /\ UNCHANGED <<store, acts, pass, passes>>

(* From the thesis page. *)
Withdraw(p) ==
  /\ p \notin withdrawn
  /\ acts < MaxActs
  /\ withdrawn' = withdrawn \union {p}
  /\ acts' = acts + 1
  /\ UNCHANGED <<store, findings, pass, form, passes>>

(* reset-research takes the passes and leaves their findings; run by itself. *)
Reset ==
  /\ acts < MaxActs
  /\ \A m \in Monitors : pass[m].at = "off"
  /\ \A c \in Pages : form[c] = NoForm
  /\ \E i \in DOMAIN findings : findings[i].root
  /\ findings' = [i \in DOMAIN findings |-> [findings[i] EXCEPT !.root = FALSE]]
  /\ acts' = acts + 1
  /\ UNCHANGED <<store, withdrawn, pass, form, passes>>

-----------------------------------------------------------------------------
PassStep(m) ==
  \/ \E p \in Premises : Pass(m, p) \/ Unobservable(m, p) \/ AskModel(m, p)
  \/ \E reply \in Statuses : Answer(m, reply)
  \/ Refuse(m)
  \/ FailPass(m)
  \/ Finish(m)

WatchNext ==
  \/ \E y \in Years, figure \in Amounts, day \in Days : File(y, figure, day) \/ Restate(y, figure, day)
  \/ \E m \in Monitors : BeginPass(m) \/ PassStep(m)
  \/ \E c \in Pages : \/ \E i \in DOMAIN findings, act \in Acts : OpenForm(c, i, act)
                       \/ ResolveFinding(c)
  \/ \E p \in Premises : Withdraw(p)
  \/ Reset

WatchSpec == WatchInit /\ [][WatchNext]_watchVars

-----------------------------------------------------------------------------
(* The premises the newest figures defeat, filed since they were written.   *)
Measured(p) == {Latest} \union IF p \in Growth THEN {Prior} ELSE {}
Defeated(p) ==
  Filed # {} /\ store[Latest].day > HeldOn /\ Measurable(p) /\ ~Holds(p)

(* What its last reading measured of the newest year has changed: a figure  *)
(* was filed again, or the store has since come to hold the year before.    *)
Amended(p) ==
  /\ LastReading(p) # 0
  /\ findings[LastReading(p)].year = Latest
  /\ \/ \E y \in Measured(p) : store[y].day > findings[LastReading(p)].to
     \/ findings[LastReading(p)].against # YearBefore(p)

IsContradicted(p) == \E i \in DOMAIN findings :
  findings[i].premise = p /\ findings[i].year = Latest /\ OpensGate(i)

(* No figure has arrived under way of the pass that ends well.              *)
Undisturbed(m) == Finish(m) /\ pass[m].quiet

(* A defeat is not missed: a pass that succeeds, no figure having arrived   *)
(* under way, leaves every premise it did not skip and that the stored      *)
(* figures defeat with a contradicted reading of that year, unless a year   *)
(* read before was filed again or the year before it came to the store      *)
(* after it (_read_premise's window, _last_reading, _nothing_newer,         *)
(* _bounded_status).                                                        *)
DefeatIsNotMissed ==
  [][\A m \in Monitors : Undisturbed(m) =>
       \A p \in Premises \ pass[m].skips :
         Defeated(p) /\ ~Amended(p) => IsContradicted(p)]_watchVars

(* Nor when a year read before was filed again: the window "is the fiscal   *)
(* years whose facts were filed after the premise was held, or after its    *)
(* last reading" (adr/0103).                                                *)
AmendmentsAreRead ==
  [][\A m \in Monitors : Undisturbed(m) =>
       \A p \in Premises \ pass[m].skips :
         Defeated(p) => IsContradicted(p)]_watchVars

(* One year opens one gate of a premise, however often it is read, amended  *)
(* in its past, or its findings decided, reopened or cut from their pass.   *)
OneGatePerYear ==
  \A i, j \in DOMAIN findings :
    (/\ OpensGate(i) /\ OpensGate(j)
     /\ findings[i].premise = findings[j].premise
     /\ findings[i].year = findings[j].year) => i = j
=============================================================================
