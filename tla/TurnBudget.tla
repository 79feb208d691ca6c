----------------------------- MODULE TurnBudget -----------------------------
(***************************************************************************)
(* The token budget of one adventure turn: AdventureTurnBudgetManager of   *)
(* server/src/agent/turnBudget.ts with its callers in                      *)
(* server/src/agent/adventureOrchestrator.ts (planning) and                *)
(* server/src/routes/rpg/v1/adventureTurns.ts (narration).                 *)
(*                                                                         *)
(* The manager lives in the memory of a process.  A provider call reserves *)
(* its worst case, is sent, and is charged with what it used; the usage is *)
(* stored with the outcome of the call, and a process that has no budget   *)
(* for the turn rebuilds it from the stored outcomes.  Any stream of the   *)
(* turn that ends discards the budget of its process.  Which calls a turn  *)
(* makes is the subject of PlanningRounds and NarrationDispatch: here each *)
(* call is made at most once, by any process, in any order.                *)
(*                                                                         *)
(* The durable claims are the lock between processes, the budgets are not: *)
(* a process does not hear of what another charges later.  The properties  *)
(* are about the budgets of one process.                                   *)
(*                                                                         *)
(* The names that every specification has carry the prefix TB here: the    *)
(* proofs EXTEND this module together with another.                        *)
(***************************************************************************)
EXTENDS Integers, FiniteSets, Functions

CONSTANTS
    Processes,        \* server processes over the database
    Calls,            \* the planning and narration calls of the turn
    PromptEstimates,  \* estimated tokens of an outbound prompt
    CompletionLimit,  \* samplers.maxTokens, the request's completion cap
    Usages,           \* prompt and completion tokens a provider may measure
    MaxTotalTokens,   \* adventureTurnBudget.maxTotalTokens
    PromptPrice, CompletionPrice, MaxCost,  \* adventureTurnBudget, pricing
    MaxConcurrent,    \* maxConcurrentRequests
    MaxLosses         \* bound on crashes and on streams that end meanwhile

ASSUME PolicyAssumption ==
    /\ IsFiniteSet(Calls)
    /\ PromptEstimates \subseteq Nat /\ CompletionLimit \in Nat \ {0}
    /\ Usages \subseteq [prompt : Nat, completion : Nat]
    /\ MaxTotalTokens \in Nat \ {0} /\ MaxConcurrent \in Nat \ {0}
    /\ PromptPrice \in Nat /\ CompletionPrice \in Nat /\ MaxCost \in Nat

VARIABLES
    known,      \* processes whose manager holds the turn
    spent,      \* per process: accounting, prompt and completion tokens
    held,       \* per process and call: its reservation, or NoTokens
    call,       \* per call: where its dispatch stands
    recorded,   \* per call: the usage stored with its outcome, or NoTokens
    turnState,  \* "open", or the state that the last denial leads to
    losses,
    paid,       \* history: what a call was charged
    overran     \* history: calls that used more than they reserved

TBvars == <<known, spent, held, call, recorded, turnState, losses, paid, overran>>

-----------------------------------------------------------------------------

Tokens == [prompt : Nat, completion : Nat]
NoTokens == [prompt |-> 0, completion |-> 0]
NoReservation == [prompt |-> 0, completion |-> 0, active |-> FALSE]
Stage == {"new", "flying", "done", "lost"}

\* Type invariant.
TBTypeOK ==
    /\ known \subseteq Processes
    /\ spent \in [Processes -> Tokens]
    /\ held \in [Processes -> [Calls -> [prompt : Nat, completion : Nat, active : BOOLEAN]]]
    /\ call \in [Calls -> [stage : Stage, at : Processes]]
    /\ recorded \in [Calls -> Tokens]
    /\ turnState \in {"open", "narrating"}
    /\ paid \in [Calls -> Tokens]
    /\ overran \subseteq Calls

Prompts(f) == SumFunction([c \in Calls |-> f[c].prompt])
Completions(f) == SumFunction([c \in Calls |-> f[c].completion])
Total(usage) == usage.prompt + usage.completion
Cost(usage) == usage.prompt * PromptPrice + usage.completion * CompletionPrice

Plus(a, b) == [prompt |-> a.prompt + b.prompt,
               completion |-> a.completion + b.completion]

TBInit ==
    /\ known = {}
    /\ spent = [p \in Processes |-> NoTokens]
    /\ held = [p \in Processes |-> [c \in Calls |-> NoReservation]]
    /\ call \in [Calls -> [stage : {"new"}, at : Processes]]
    /\ recorded = [c \in Calls |-> NoTokens]
    /\ turnState = "open" /\ losses = 0
    /\ paid = [c \in Calls |-> NoTokens] /\ overran = {}

\* activeTotals: what is charged, and what the calls under way may still use.
Active(accounting, reservations) ==
    Plus(accounting, [prompt |-> Prompts(reservations),
                      completion |-> Completions(reservations)])

\* The usage of the outcomes that are stored for the turn.
StoredUsage == [prompt |-> Prompts(recorded), completion |-> Completions(recorded)]

\* Mutant: the stored outcomes are added on every dispatch.
RebuiltAgain(p) == Plus(spent[p], StoredUsage)

\* Mutant: a budget that was discarded starts from nothing.
RebuiltEmpty(p) == IF p \in known THEN spent[p] ELSE NoTokens

\* initializeAdventureTurnBudget: only a process that has no budget rebuilds it.
Rebuilt(p) == IF p \in known THEN spent[p] ELSE StoredUsage

\* Mutant: only what is charged already counts.
AdmittedOverReservations(p, c, request) ==
    LET projected == Plus(Rebuilt(p), request)
    IN  Total(projected) <= MaxTotalTokens /\ Cost(projected) <= MaxCost

\* decideTurnBudget with the policy of createAdventureTurnBudgetPolicy, whose
\* three token limits are one; its rate window is wider than any turn.
Admitted(p, c, request) ==
    LET projected == Plus(Active(Rebuilt(p), held[p]), request) IN
    /\ ~ held[p][c].active
    /\ Cardinality({d \in Calls : held[p][d].active}) < MaxConcurrent
    /\ projected.prompt <= MaxTotalTokens
    /\ projected.completion <= MaxTotalTokens
    /\ Total(projected) <= MaxTotalTokens
    /\ Cost(projected) <= MaxCost

\* A call is claimed, reserves its worst case and is sent; a denied one is
\* settled without a request, and the turn goes on to its narration.
Dispatch(p, c) ==
    \E prompt \in PromptEstimates :
      LET request == [prompt |-> prompt, completion |-> CompletionLimit] IN
      /\ call[c].stage = "new" /\ call[c].at = p
      /\ known' = known \cup {p}
      /\ spent' = [spent EXCEPT ![p] = Rebuilt(p)]
      /\ IF Admitted(p, c, request)
           THEN /\ held' = [held EXCEPT ![p][c] =
                     [prompt |-> prompt, completion |-> CompletionLimit, active |-> TRUE]]
                /\ call' = [call EXCEPT ![c].stage = "flying"]
                /\ UNCHANGED turnState
           ELSE /\ call' = [call EXCEPT ![c].stage = "done"]
                /\ turnState' = "narrating"
                /\ UNCHANGED held
      /\ UNCHANGED <<recorded, losses, paid, overran>>

\* Mutant: what was reserved is taken off what was used.
ChargesDifference(reservation) ==
    {[prompt |-> usage.prompt - reservation.prompt,
      completion |-> usage.completion - reservation.completion] : usage \in Usages}

\* What a settlement charges: the measured usage, which no reservation bounds,
\* else an estimate of what is known, else all that was reserved.
Charges(reservation) ==
    Usages \cup {[prompt |-> reservation.prompt, completion |-> n] :
                   n \in {0, reservation.completion}}

\* settle, and the outcome is stored with the usage unless somebody settled
\* the call as an orphan before.
Settle(p, c) ==
    LET reservation == held[p][c] IN
    /\ call[c].stage = "flying" /\ call[c].at = p
    /\ p \in known /\ reservation.active
    /\ \E usage \in Charges(reservation) :
         /\ spent' = [spent EXCEPT ![p] = Plus(@, usage)]
         /\ paid' = [paid EXCEPT ![c] = usage]
         /\ recorded' \in {recorded, [recorded EXCEPT ![c] = usage]}
         /\ overran' = IF \/ usage.prompt > reservation.prompt
                          \/ usage.completion > reservation.completion
                         THEN overran \cup {c} ELSE overran
    /\ held' = [held EXCEPT ![p][c] = NoReservation]
    /\ call' = [call EXCEPT ![c].stage = "done"]
    /\ UNCHANGED <<known, turnState, losses>>

\* The budget or the reservation is gone: settle throws, and so does the
\* handler of that error, so neither usage nor outcome is stored.
SettleUnknown(p, c) ==
    /\ call[c].stage = "flying" /\ call[c].at = p
    /\ p \notin known \/ ~ held[p][c].active
    /\ call' = [call EXCEPT ![c].stage = "lost"]
    /\ UNCHANGED <<known, spent, held, recorded, turnState, losses, paid, overran>>

Forget(p) ==
    /\ known' = known \ {p}
    /\ spent' = [spent EXCEPT ![p] = NoTokens]
    /\ held' = [held EXCEPT ![p] = [c \in Calls |-> NoReservation]]
    /\ losses' = losses + 1

\* A stream of the turn ends and clears the budget of its process, whatever
\* the other streams of the turn are doing.
Clear(p) ==
    /\ p \in known /\ losses < MaxLosses
    /\ Forget(p)
    /\ UNCHANGED <<call, recorded, turnState, paid, overran>>

\* The process restarts: its calls under way are never settled.
Restart(p) ==
    /\ p \in known /\ losses < MaxLosses
    /\ Forget(p)
    /\ call' = [c \in Calls |-> IF call[c].stage = "flying" /\ call[c].at = p
                                  THEN [call[c] EXCEPT !.stage = "lost"] ELSE call[c]]
    /\ UNCHANGED <<recorded, turnState, paid, overran>>

TBNext ==
    \E p \in Processes :
        \/ \E c \in Calls : Dispatch(p, c) \/ Settle(p, c) \/ SettleUnknown(p, c)
        \/ Clear(p) \/ Restart(p)

TBSpec == TBInit /\ [][TBNext]_TBvars

-----------------------------------------------------------------------------
(* Properties.                                                             *)

\* As long as no call used more than it reserved, what is charged and what the
\* calls under way may still use stay within the limits, over every crash and
\* every budget that is discarded and rebuilt.
OnlyOverrunsExceed ==
    overran = {} => \A p \in known :
        LET active == Active(spent[p], held[p])
        IN  Total(active) <= MaxTotalTokens /\ Cost(active) <= MaxCost

\* A rebuilt budget charges each call once: never more than the calls were
\* charged, never less than is stored for them (initialize, "hydrates durable
\* settlements once so restart and replay cannot reset or double charge").
EachCallChargedOnce ==
    \A p \in known :
        /\ StoredUsage.prompt <= spent[p].prompt /\ spent[p].prompt <= Prompts(paid)
        /\ StoredUsage.completion <= spent[p].completion
        /\ spent[p].completion <= Completions(paid)

\* Once the stored usage reaches the limit no further request is sent: "Budget
\* settlement records overages rather than hiding them, while all subsequent
\* dispatches fail their projected limits" (docs/provider-hardening.md).
OverageStopsDispatches ==
    [][\A c \in Calls :
         call[c].stage = "new" /\ call'[c].stage = "flying" =>
           Total(StoredUsage) < MaxTotalTokens]_TBvars

\* The accounts of a turn over its processes: only an overrun takes them past
\* the limits, and neither a replay nor a rebuild charges a call again.
BudgetIsSound == TBTypeOK /\ OnlyOverrunsExceed /\ EachCallChargedOnce
=============================================================================
