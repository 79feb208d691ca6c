----------------------- MODULE AdventureTurnRefinement -----------------------
(* The coordinated turn keeps the promise of TurnPromise.                   *)
EXTENDS AdventureTurn

\* The rows decide what became of a proposal: mechanics outweigh a replan
\* requirement, and both outweigh the decision.
FateOf(p) ==
    CASE p \in ReceiptLinks -> "executed"
      [] p \in replan \ ReceiptLinks -> "dropped"
      [] p \in Approved \ (ReceiptLinks \cup replan) -> "approved"
      [] p \in Pending -> "pending"
      [] decision[p] \in {"rejected", "expired"} -> "refused"
      [] OTHER -> "absent"

PhaseOf ==
    CASE turn.state \in {"cancelled", "failed"} -> "abandoned"
      [] turn.state \in {"narrating", "completed"} -> turn.state
      [] OTHER -> "open"

Promise == INSTANCE TurnPromise WITH
    phase <- PhaseOf,
    fate <- [p \in Proposals |-> FateOf(p)]

\* The turn's rows, events, replays and recoveries implement the promise: each
\* step is a step of TurnPromise or changes nothing a player can see.
KeepsPromise == Promise!Spec

=============================================================================
