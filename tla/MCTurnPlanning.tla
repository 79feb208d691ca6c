--------------------------- MODULE MCTurnPlanning ---------------------------
(* The planning of one turn for TLC: its rounds, two workers on two of them  *)
(* or one on three, and its token budget over three calls.  The two share no *)
(* variable.  A behaviour is one of the rounds or one of the budget, and     *)
(* every behaviour of either is among them; fairness is about the rounds.    *)
EXTENDS PlanningRounds, TurnBudget

CONSTANTS w1, w2, p1, c1, c2, c3

Bound(W, n, moves, restarts) ==
  [workers |-> W, rounds |-> n, moves |-> moves, crashes |-> restarts]

\* Two workers, with a restart and a timeline that moves; a third round.
MCLimits == {Bound({w1, w2}, 2, 1, 1), Bound({w1}, 3, 1, 1)}

\* A provider that used little, one that used more than was reserved.
MCUsages == {[prompt |-> 1, completion |-> 0], [prompt |-> 3, completion |-> 2]}

VARIABLE part   \* what moves in this behaviour

PlanningInit == Init /\ TBInit /\ part \in {"rounds", "budget"}

PlanningNext ==
  \/ part = "rounds" /\ Next /\ UNCHANGED <<TBvars, part>>
  \/ part = "budget" /\ TBNext /\ UNCHANGED <<vars, part>>

PlanningSpec ==
  PlanningInit /\ [][PlanningNext]_<<vars, TBvars, part>> /\ (part = "rounds" => Fairness)
=============================================================================
