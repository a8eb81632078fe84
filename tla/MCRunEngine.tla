---------------------------- MODULE MCRunEngine ----------------------------
(***************************************************************************)
(* RunEngine for TLC: small cuts of vertical_slice_v1.  The first has one  *)
(* gate before a wave of two paid steps and the closing step after it.     *)
(***************************************************************************)
EXTENDS RunEngine

CONSTANTS w1, c1, ask, gate, left, right, close, plan

FiveSteps == {plan, gate, left, right, close}
FiveNeeds == [s \in FiveSteps |->
                CASE s = plan -> {}
                  [] s = gate -> {plan}
                  [] s \in {left, right} -> {gate}
                  [] s = close -> {left, right}]
FiveSequence == [s \in FiveSteps |->
                   CASE s = plan -> 0 [] s = gate -> 1 [] s = left -> 2
                     [] s = right -> 3 [] s = close -> 4]
OneGate     == {gate}
NoGates     == {}
OneRank     == [g \in OneGate |-> 0]
PaidSteps   == {left, right}
OneWorker   == {w1}
OneShell    == {c1}
NoShells    == {}

(* a gate, a step beside it that may fail, a step behind the gate *)
BesideSteps == {plan, gate, left, close}
BesideNeeds == [s \in BesideSteps |->
                  CASE s = plan -> {}
                    [] s = gate -> {plan}
                    [] s = left -> {plan}
                    [] s = close -> {gate, left}]
BesideSequence == [s \in BesideSteps |->
                     CASE s = plan -> 0 [] s = left -> 1 [] s = gate -> 2 [] s = close -> 3]
OnePaid == {left}

(* a conditional gate that finds nothing to ask, a step beside it, and a   *)
(* gate behind it that meets that step in a wave when the step is retried  *)
AskSteps == {plan, ask, left, gate, close}
AskNeeds == [s \in AskSteps |->
               CASE s = plan -> {}
                 [] s \in {ask, left} -> {plan}
                 [] s = gate -> {ask}
                 [] s = close -> {gate, left}]
AskSequence == [s \in AskSteps |->
                  CASE s = plan -> 0 [] s = ask -> 1 [] s = left -> 2
                    [] s = gate -> 3 [] s = close -> 4]
TwoGates  == {ask, gate}
AskGate   == {ask}
TwoRanks  == [g \in TwoGates |-> IF g = ask THEN 0 ELSE 1]
=============================================================================
