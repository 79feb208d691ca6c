----------------------------- MODULE TurnPromise -----------------------------
(***************************************************************************)
(* What an adventure turn promises the players, whatever planning, crashes,*)
(* retries and races happen inside: consent comes before mechanics,        *)
(* mechanics before narration, and every decision is made once.            *)
(***************************************************************************)
CONSTANT Proposals

VARIABLES
    phase,   \* the life of the turn
    fate     \* what became of each proposal

vars == <<phase, fate>>

Phase == {"open", "narrating", "completed", "abandoned"}
Fate == {"absent", "pending", "approved", "refused", "dropped", "executed"}

Init ==
    /\ phase = "open"
    /\ fate = [p \in Proposals |-> "absent"]

Propose(p) ==
    /\ phase = "open"
    /\ fate[p] = "absent"
    /\ \E f \in {"pending", "approved"} : fate' = [fate EXCEPT ![p] = f]
    /\ UNCHANGED phase

\* One verdict over a batch; a turn left with nothing to do is abandoned.
Decide(S, verdict) ==
    /\ phase = "open"
    /\ S # {} /\ \A p \in S : fate[p] = "pending"
    /\ fate' = [p \in Proposals |-> IF p \in S THEN verdict ELSE fate[p]]
    /\ \/ phase' = "open"
       \/ /\ \A p \in Proposals : fate'[p] \in {"absent", "refused"}
          /\ phase' = "abandoned"

Run(p) ==
    /\ phase = "open"
    /\ fate[p] = "approved"
    /\ fate' = [fate EXCEPT ![p] = "executed"]
    /\ UNCHANGED phase

Drop(p) ==
    /\ phase = "open"
    /\ fate[p] = "approved"
    /\ fate' = [fate EXCEPT ![p] = "dropped"]
    /\ UNCHANGED phase

Narrate ==
    /\ phase = "open"
    /\ \A p \in Proposals : fate[p] # "pending"
    /\ \/ \E p \in Proposals : fate[p] = "executed"
       \/ \A p \in Proposals : fate[p] = "absent"
    /\ phase' = "narrating"
    /\ UNCHANGED fate

Complete ==
    /\ phase = "narrating"
    /\ phase' = "completed"
    /\ UNCHANGED fate

Abandon ==
    /\ phase \in {"open", "narrating"}
    /\ phase' = "abandoned"
    /\ UNCHANGED fate

Next ==
    \/ \E p \in Proposals : Propose(p) \/ Run(p) \/ Drop(p)
    \/ \E S \in SUBSET Proposals, v \in {"approved", "refused"} : Decide(S, v)
    \/ Narrate \/ Complete \/ Abandon

Spec == Init /\ [][Next]_vars

=============================================================================
