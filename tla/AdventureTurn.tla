---------------------------- MODULE AdventureTurn ----------------------------
(***************************************************************************)
(* Coordination of one original adventure turn, translated from            *)
(*   server/src/repo/adventureTurn/{write,read,agentResponseProvenance}.ts,*)
(*   server/src/repo/adventureTurnRepo.ts, the turn stream of              *)
(*   server/src/routes/rpg/v1/adventureTurns.ts and the triggers of        *)
(*   server/src/repo/db/currentSchema.sql.                                 *)
(*                                                                         *)
(* A turn has two states.  The row of adventure_turns holds the physical   *)
(* one (phys), which the database triggers guard; the newest coordination  *)
(* event holds the logical one (turn), which the repository and its        *)
(* callers read.  Every command advances both in one immediate transaction *)
(* together with the shared revision; an aborted trigger aborts the whole  *)
(* command, so a trigger is a conjunct of the action's guard.              *)
(***************************************************************************)
EXTENDS Naturals, FiniteSets

CONSTANTS
    Proposals,    \* identities of tool proposals
    Calls,        \* narration provider calls the execution limits admit
    Keys,         \* idempotency keys of the clients' confirm requests
    None,         \* no reply has been stored under a key
    Ttl,          \* lifetime of a confirmation
    MaxTime,      \* horizon of the clock
    MaxOutside,   \* bound on commands other turns commit on the timeline
    MaxEvents     \* bound on these, confirm requests and provider calls together

\* The execution limits of a turn bound its proposals.
ASSUME BoundsAssumption ==
    /\ IsFiniteSet(Proposals)
    /\ Ttl \in Nat \ {0}
    /\ MaxTime \in Nat
    /\ MaxOutside \in Nat
    /\ MaxEvents \in Nat

VARIABLES
    phys,         \* adventure_turns row: state and narration_status
    turn,         \* newest coordination event: resulting state and narration
    revision,     \* revision of both
    proposed,     \* rows of tool_proposals
    confirmable,  \* those whose server policy requires a confirmation
    onTimeline,   \* those bound to a campaign command; the others to a domain
    expires,      \* confirmation_expires_at
    observed,     \* timeline revision attested with the proposal's policy
    decision,     \* confirmation_decisions, "none" where there is no row
    replan,       \* agent_replan_requirements_v40
    command,      \* proposals whose campaign command is committed
    link,         \* proposals linked in turn_mechanics_links_v36
    receipt,      \* proposals with a domain execution row
    call,         \* provider_call_metadata, per narration call
    timeline,     \* campaign_timelines.revision
    outside,      \* commands committed by other turns so far
    now,          \* the clock
    sent,         \* confirm requests in the network: lost, reordered, repeated
    reply         \* coordination command and receipt stored per key

books   == <<proposed, confirmable, onTimeline, expires, observed>>
effects == <<command, link, receipt, timeline>>
network == <<sent, reply>>
vars == <<phys, turn, revision, books, decision, replan, effects, call,
          outside, now, network>>

-----------------------------------------------------------------------------
(* Types.                                                                  *)

PhysicalState == {"declared", "proposed", "awaiting-confirmation",
                  "mechanics-committed", "narrating",
                  "completed", "cancelled", "failed"}
LogicalState == PhysicalState \cup {"confirmed"}
Terminal == {"completed", "cancelled", "failed"}
Narration == {"none", "pending", "in-progress", "completed", "failed"}
Decision == {"none", "approved", "rejected", "expired"}
Request == [key : Keys, ids : SUBSET Proposals,
            verdict : {"approved", "rejected"}, expected : Nat]

\* Type invariant.
TypeOK ==
    /\ phys \in [state : PhysicalState, narration : Narration]
    /\ turn \in [state : LogicalState, narration : Narration]
    /\ revision \in Nat
    /\ proposed \subseteq Proposals
    /\ confirmable \subseteq proposed /\ onTimeline \subseteq proposed
    /\ expires \in [Proposals -> Nat] /\ observed \in [Proposals -> Nat]
    /\ decision \in [Proposals -> Decision]
    /\ replan \subseteq proposed
    /\ command \subseteq proposed /\ link \subseteq proposed
    /\ receipt \subseteq proposed
    /\ call \in [Calls -> {"none", "started", "succeeded", "failed"}]
    /\ timeline \in Nat /\ outside \in Nat /\ now \in Nat
    /\ sent \subseteq Request
    /\ reply \in [Keys -> Request \cup {None}]

-----------------------------------------------------------------------------
(* The database's guards on the physical row.                              *)

HasDurableMechanics == link \cup receipt # {}

\* adventure_turns_guard_update_v36: a proposed turn narrates only on a receipt.
MoveAllowed(old, new) ==
    \/ /\ old = "declared"
       /\ new \in {"declared", "proposed", "narrating", "cancelled", "failed"}
    \/ /\ old = "proposed"
       /\ \/ new \in {"proposed", "awaiting-confirmation",
                      "mechanics-committed", "cancelled", "failed"}
          \/ new = "narrating" /\ command \cup receipt # {}
    \/ /\ old = "awaiting-confirmation"
       /\ new \in {"awaiting-confirmation", "mechanics-committed",
                   "cancelled", "failed"}
    \/ /\ old = "mechanics-committed"
       /\ new \in {"mechanics-committed", "narrating"} \cup Terminal
    \/ /\ old = "narrating"
       /\ new \in {"narrating"} \cup Terminal

\* CHECK of the adventure_turns table.
RowAllowed(state, narration) ==
    /\ state \in {"declared", "proposed", "awaiting-confirmation"}
         => narration = "none"
    /\ state = "mechanics-committed" => narration \in {"none", "pending"}
    /\ state = "narrating" => narration \in {"pending", "in-progress", "failed"}
    /\ state = "completed" => narration = "completed"

\* Mutant: the row stores the logical state of the event.
AdvanceWritesLogical(physState, state, narration) ==
    /\ MoveAllowed(phys.state, physState)
    /\ RowAllowed(physState, narration)
    /\ phys' = [state |-> state, narration |-> narration]
    /\ turn' = [state |-> state, narration |-> narration]
    /\ revision' = revision + 1

\* Mutant: the row keeps its old narration status.
AdvanceKeepsNarration(physState, state, narration) ==
    /\ MoveAllowed(phys.state, physState)
    /\ RowAllowed(physState, narration)
    /\ phys' = [phys EXCEPT !.state = physState]
    /\ turn' = [state |-> state, narration |-> narration]
    /\ revision' = revision + 1

\* physicalAdvance and finish: row, event and revision move together.
Advance(physState, state, narration) ==
    /\ MoveAllowed(phys.state, physState)
    /\ RowAllowed(physState, narration)
    /\ phys' = [state |-> physState, narration |-> narration]
    /\ turn' = [state |-> state, narration |-> narration]
    /\ revision' = revision + 1

-----------------------------------------------------------------------------
(* What the repository derives from its rows.                              *)

Pending == {p \in confirmable : decision[p] = "none"}
Approved == {p \in proposed : p \in confirmable => decision[p] = "approved"}
Recoverable == command \ link
ReceiptLinks == command \cup receipt

\* getAdventureTurn throws on this, and every command ends with that read.
Readable == ~ (Recoverable # {} /\ Pending # {})

\* Mutant: a proposal without a decision counts as approved.
StatusSkipsConsent(p) ==
    CASE p \in ReceiptLinks -> "committed"
      [] p \notin ReceiptLinks /\ p \in replan -> "cancelled"
      [] p \notin ReceiptLinks \cup replan /\ decision[p] # "none" -> decision[p]
      [] OTHER -> IF turn.state = "cancelled" THEN "cancelled" ELSE "approved"

\* Mutant: the replan requirement is not consulted.
StatusForgetsReplan(p) ==
    CASE p \in ReceiptLinks -> "committed"
      [] p \notin ReceiptLinks /\ decision[p] # "none" -> decision[p]
      [] OTHER -> IF turn.state = "cancelled" THEN "cancelled"
                  ELSE IF p \in confirmable THEN "waiting-confirmation"
                  ELSE "approved"

\* The status getAdventureTurn projects for a proposal.
Status(p) ==
    CASE p \in ReceiptLinks -> "committed"
      [] p \notin ReceiptLinks /\ p \in replan -> "cancelled"
      [] p \notin ReceiptLinks \cup replan /\ decision[p] # "none" -> decision[p]
      [] OTHER -> IF turn.state = "cancelled" THEN "cancelled"
                  ELSE IF p \in confirmable THEN "waiting-confirmation"
                  ELSE "approved"

\* The state getAdventureTurn projects over committed but unrecorded mechanics.
EffectiveState ==
    IF receipt # {} /\ turn.state \in {"declared", "proposed", "confirmed"}
      THEN "mechanics-committed"
    ELSE IF /\ Recoverable # {}
            /\ turn.state \in {"proposed", "confirmed", "mechanics-committed"}
      THEN IF Cardinality(ReceiptLinks) = Cardinality(Approved \cap onTimeline)
             THEN "mechanics-committed" ELSE "confirmed"
    ELSE turn.state

\* Mutant: the first link commits the turn's mechanics.
MechanicsStateAtFirstLink(linked) ==
    IF linked # {} THEN "mechanics-committed" ELSE "confirmed"

\* mechanicsState: all approved proposals are linked, or the turn waits.
MechanicsState(linked) ==
    IF Approved # {} /\ Cardinality(linked) = Cardinality(Approved)
      THEN "mechanics-committed" ELSE "confirmed"
MechanicsNarration(linked) ==
    IF MechanicsState(linked) = "mechanics-committed" THEN "pending" ELSE "none"

\* Triggers of turn_mechanics_links_v36 and final_receipt_links.
LinkAllowed(S) ==
    /\ S \subseteq Approved \cap onTimeline
    /\ S # {} => \/ phys.state \in {"mechanics-committed", "narrating", "completed"}
                 \/ phys.state = "proposed" /\ confirmable = {}

-----------------------------------------------------------------------------
(* Initial state: createAdventureTurn in mode "original".                  *)

Init ==
    /\ phys = [state |-> "declared", narration |-> "none"]
    /\ turn = [state |-> "declared", narration |-> "none"]
    /\ revision = 0
    /\ proposed = {} /\ confirmable = {} /\ onTimeline = {}
    /\ expires = [p \in Proposals |-> 0]
    /\ observed = [p \in Proposals |-> 0]
    /\ decision = [p \in Proposals |-> "none"]
    /\ replan = {} /\ command = {} /\ link = {} /\ receipt = {}
    /\ call = [c \in Calls |-> "none"]
    /\ timeline = 0 /\ outside = 0 /\ now = 0
    /\ sent = {} /\ reply = [k \in Keys |-> None]

-----------------------------------------------------------------------------
(* Planning: proposals and the wait for consent.                           *)

\* tool_proposals_guard_insert_v35: after a replan the row may stay committed.
AppendAllowed ==
    \/ phys.state \in {"declared", "proposed"}
    \/ /\ phys.state = "mechanics-committed"
       /\ turn.state = "declared"
       /\ replan # {}

\* The physical state planning steps write; a committed row is left committed.
KeepCommitted(state) ==
    IF phys.state = "mechanics-committed" THEN "mechanics-committed" ELSE state

AppendToolProposal(p, requiresConfirmation, bindsCommand) ==
    /\ p \notin proposed
    /\ turn.state \in {"declared", "proposed"}
    /\ AppendAllowed
    /\ requiresConfirmation => now + Ttl <= MaxTime
    /\ proposed' = proposed \cup {p}
    /\ confirmable' = IF requiresConfirmation THEN confirmable \cup {p} ELSE confirmable
    /\ onTimeline' = IF bindsCommand THEN onTimeline \cup {p} ELSE onTimeline
    /\ expires' = [expires EXCEPT ![p] = IF requiresConfirmation THEN now + Ttl ELSE 0]
    /\ observed' = [observed EXCEPT ![p] = timeline]
    /\ Advance(KeepCommitted("proposed"), "proposed", "none")
    /\ UNCHANGED <<decision, replan, effects, call, outside, now, network>>
    /\ Readable'

WaitForToolConfirmation ==
    /\ turn.state = "proposed"
    /\ Pending # {}
    /\ Advance(KeepCommitted("awaiting-confirmation"), "awaiting-confirmation", "none")
    /\ UNCHANGED <<books, decision, replan, effects, call, outside, now, network>>
    /\ Readable'

-----------------------------------------------------------------------------
(* Consent: decisions arrive from clients, expiry from any later read.     *)

\* confirmation_decisions_guard_insert_v36.
DecisionAllowed == phys.state = "awaiting-confirmation"

\* Mutant: the verdict reaches every pending proposal of the turn.
SettleAll(S, verdict) ==
    LET decided  == [p \in Proposals |-> IF p \in Pending THEN verdict ELSE decision[p]]
        approved == \E p \in proposed : p \in confirmable => decided[p] = "approved"
    IN  /\ DecisionAllowed
        /\ decision' = decided
        /\ \/ /\ approved
              /\ Advance("mechanics-committed", "confirmed", "none")
           \/ /\ ~ approved
              /\ Advance("cancelled", "cancelled", "none")

\* Mutant: an expired confirmation still counts as pending.
SettleForgetsExpired(S, verdict) ==
    LET decided  == [p \in Proposals |-> IF p \in S THEN verdict ELSE decision[p]]
        waiting  == \E p \in confirmable : decided[p] \in {"none", "expired"}
        approved == \E p \in proposed : p \in confirmable => decided[p] = "approved"
    IN  /\ DecisionAllowed
        /\ decision' = decided
        /\ \/ /\ waiting
              /\ Advance("awaiting-confirmation", "awaiting-confirmation", "none")
           \/ /\ ~ waiting /\ approved
              /\ Advance("mechanics-committed", "confirmed", "none")
           \/ /\ ~ waiting /\ ~ approved
              /\ Advance("cancelled", "cancelled", "none")

\* Inserts one verdict for every proposal of S and settles the turn's state.
Settle(S, verdict) ==
    LET decided  == [p \in Proposals |-> IF p \in S THEN verdict ELSE decision[p]]
        waiting  == \E p \in confirmable : decided[p] = "none"
        approved == \E p \in proposed : p \in confirmable => decided[p] = "approved"
    IN  /\ DecisionAllowed
        /\ decision' = decided
        /\ \/ /\ waiting
              /\ Advance("awaiting-confirmation", "awaiting-confirmation", "none")
           \/ /\ ~ waiting /\ approved
              /\ Advance("mechanics-committed", "confirmed", "none")
           \/ /\ ~ waiting /\ ~ approved
              /\ Advance("cancelled", "cancelled", "none")

\* What counts towards MaxEvents: a request counts twice.
Events == 2 * Cardinality(sent) + outside + Cardinality({c \in Calls : call[c] # "none"})

\* A client that saw the turn waiting posts a decision over what it saw.
SendConfirm(r) ==
    /\ Events + 2 <= MaxEvents   \* bound
    /\ turn.state = "awaiting-confirmation"
    /\ r.ids # {} /\ r.ids \subseteq Pending /\ r.expected = revision
    /\ sent' = sent \cup {r}
    /\ UNCHANGED <<phys, turn, revision, books, decision, replan, effects,
                   call, outside, now, reply>>

\* Mutant: a decision at the expiry instant is accepted.
InTimeInclusive(p) == now <= expires[p]

\* The clock must not have reached the expiry: at >= expiresAt is refused.
InTime(p) == now < expires[p]

\* decideToolProposals: replay before staleness, the whole batch before a row.
\* A known key replays its stored receipt or conflicts, and changes nothing.
DecideToolProposals(r) ==
    /\ reply[r.key] = None
    /\ r.expected = revision
    /\ turn.state = "awaiting-confirmation"
    /\ r.ids \subseteq Pending
    /\ \A p \in r.ids : InTime(p)
    /\ Settle(r.ids, r.verdict)
    /\ reply' = [reply EXCEPT ![r.key] = r]
    /\ UNCHANGED <<books, replan, effects, call, outside, now, sent>>
    /\ Readable'

\* Mutant: confirmations that have a decision fall due again.
DueAgain == {p \in confirmable : expires[p] <= now}

Due == {p \in Pending : expires[p] <= now}

\* expireToolProposals, called by every later read of the turn.
ExpireToolProposals ==
    /\ turn.state = "awaiting-confirmation"
    /\ Due # {}
    /\ Settle(Due, "expired")
    /\ UNCHANGED <<books, replan, effects, call, outside, now, network>>
    /\ Readable'

-----------------------------------------------------------------------------
(* Mechanics.                                                              *)

\* orchestrateAdventureTurn returns before executing anything in these states.
Resumes ==
    ~ /\ ReceiptLinks # {} \/ \A p \in proposed : Status(p) = "committed"
      /\ EffectiveState \in {"mechanics-committed", "narrating", "completed"}

Executable(p) == p \in proposed /\ Status(p) = "approved" /\ Resumes

\* executeApprovedAgentProposalAtomically for a campaign command: the command
\* and its link commit in one transaction, on the timeline the policy attested.
ExecuteCommand(p) ==
    /\ Executable(p) /\ p \in onTimeline
    /\ observed[p] = timeline
    /\ turn.state \in {"proposed", "confirmed", "mechanics-committed"}
    /\ LinkAllowed({p})
    /\ command' = command \cup {p}
    /\ link' = link \cup {p}
    /\ timeline' = timeline + 1
    /\ Advance("mechanics-committed", MechanicsState(link \cup {p}),
               MechanicsNarration(link \cup {p}))
    /\ UNCHANGED <<books, decision, replan, receipt, call, outside, now, network>>
    /\ Readable'

\* The same for a domain action: one execution row per turn, and no event.
ExecuteDomainAction(p) ==
    /\ Executable(p) /\ p \notin onTimeline
    /\ observed[p] = timeline
    /\ receipt = {}
    /\ receipt' = {p}
    /\ UNCHANGED <<phys, turn, revision, books, decision, replan, command, link,
                   timeline, call, outside, now, network>>

\* The validation failed (the timeline moved, authority was lost) or the command
\* was refused and rolled back: record the requirement and plan again.
ReplanAgentProposal(p) ==
    /\ Executable(p)
    /\ turn.state \notin Terminal
    /\ replan' = replan \cup {p}
    /\ Advance(phys.state, "declared", "none")
    /\ UNCHANGED <<books, decision, effects, call, outside, now, network>>
    /\ Readable'

\* A caller of the two separate transactions stops between command and link.
ExecuteUnlinked(p) ==
    /\ p \in onTimeline /\ Status(p) = "approved" /\ Pending = {}
    /\ turn.state \in {"proposed", "confirmed"}
    /\ command' = command \cup {p}
    /\ timeline' = timeline + 1
    /\ UNCHANGED <<phys, turn, revision, books, decision, replan, link, receipt,
                   call, outside, now, network>>

\* linkFinalMechanicsReceipt for S = {p}; reconcile links every recoverable one.
LinkMechanics(S) ==
    /\ S # {} /\ S \subseteq Recoverable
    /\ turn.state \in {"proposed", "confirmed", "mechanics-committed"}
    /\ LinkAllowed(S)
    /\ link' = link \cup S
    /\ Advance("mechanics-committed", MechanicsState(link \cup S),
               MechanicsNarration(link \cup S))
    /\ UNCHANGED <<books, decision, replan, command, receipt, timeline, call,
                   outside, now, network>>
    /\ Readable'

LinkFinalMechanicsReceipt(p) == LinkMechanics({p})
ReconcileAdventureTurnMechanics == LinkMechanics(Recoverable)

-----------------------------------------------------------------------------
(* Narration and the end of the turn.                                      *)

\* Mutant: the stream narrates while a confirmation is open.
StreamNarratesEarly ==
    /\ EffectiveState \notin {"cancelled", "failed"}
    /\ (\E p \in proposed : Status(p) = "approved") => ReceiptLinks # {}
    /\ proposed # {} =>
         \E p \in proposed : Status(p) \notin {"rejected", "expired", "cancelled"}

\* The stream's conditions for narrating at all.
StreamNarrates ==
    /\ Pending = {}
    /\ EffectiveState \notin {"cancelled", "failed"}
    /\ (\E p \in proposed : Status(p) = "approved") => ReceiptLinks # {}
    /\ proposed # {} =>
         \E p \in proposed : Status(p) \notin {"rejected", "expired", "cancelled"}

\* Mutant: a committed command is evidence before it is linked.
HasUnlinkedEvidence == HasDurableMechanics \/ command # {} \/ proposed = {}

\* updateAdventureTurnNarration admits narration over durable mechanics or over a
\* turn that proposed none.
HasEvidence == HasDurableMechanics \/ proposed = {}

StartNarration ==
    /\ StreamNarrates
    /\ EffectiveState # "narrating" /\ turn.narration # "completed"
    /\ HasEvidence
    /\ Advance("narrating", "narrating", "in-progress")
    /\ UNCHANGED <<books, decision, replan, effects, call, outside, now, network>>
    /\ Readable'

CompleteNarration ==
    /\ turn.state = "narrating"
    /\ HasEvidence
    /\ Advance("completed", "completed", "completed")
    /\ UNCHANGED <<books, decision, replan, effects, call, outside, now, network>>
    /\ Readable'

\* Mutant: only proposals that needed a confirmation are looked at.
NoConfirmedWaits == \A p \in confirmable : Status(p) # "approved"

\* The orchestrator gives up only after its first loop has executed or replanned
\* every approved proposal.
NothingApprovedWaits == \A p \in proposed : Status(p) # "approved"

\* Mutant: the turn is cancelled as it is.
CancelWithoutReconcile ==
    /\ turn.state \notin Terminal
    /\ NothingApprovedWaits
    /\ Advance("cancelled", "cancelled", "none")
    /\ UNCHANGED <<books, decision, replan, effects, call, outside, now, network>>
    /\ HasDurableMechanics' \/ command = {}
    /\ Readable'

\* settleMutationFailure: reconciles first, and never abandons a command.
CancelTurn ==
    /\ turn.state \notin Terminal
    /\ NothingApprovedWaits
    /\ LinkAllowed(Recoverable)
    /\ link' = link \cup Recoverable
    /\ Advance("cancelled", "cancelled", "none")
    /\ UNCHANGED <<books, decision, replan, command, receipt, timeline, call,
                   outside, now, network>>
    /\ HasDurableMechanics' \/ command = {}
    /\ Readable'

\* The deterministic enemy fallback could not act: the turn fails.
FailTurn ==
    /\ turn.state \notin Terminal
    /\ NothingApprovedWaits
    /\ Advance("failed", "failed", "failed")
    /\ UNCHANGED <<books, decision, replan, effects, call, outside, now, network>>
    /\ Readable'

RecordProviderCallStart(c) ==
    /\ call[c] = "none"
    /\ Events < MaxEvents   \* bound
    /\ turn.state \notin Terminal
    /\ call' = [call EXCEPT ![c] = "started"]
    /\ \/ /\ turn.state \in {"mechanics-committed", "narrating"}
          /\ Advance("narrating", "narrating", "in-progress")
       \/ /\ turn.state \notin {"mechanics-committed", "narrating"}
          /\ Advance(phys.state, turn.state, turn.narration)
    /\ UNCHANGED <<books, decision, replan, effects, outside, now, network>>
    /\ Readable'

RecordProviderCallOutcome(c, outcome) ==
    /\ call[c] = "started"
    /\ turn.state \notin Terminal \cup {"mechanics-committed"}
    /\ call' = [call EXCEPT ![c] = outcome]
    /\ \/ /\ turn.state = "narrating" /\ outcome = "failed"
          /\ Advance(phys.state, turn.state, "failed")
       \/ /\ ~ (turn.state = "narrating" /\ outcome = "failed")
          /\ Advance(phys.state, turn.state, turn.narration)
    /\ UNCHANGED <<books, decision, replan, effects, outside, now, network>>
    /\ Readable'

-----------------------------------------------------------------------------
(* The environment.                                                        *)

\* Another turn, or a director's command, advances the shared timeline.
OutsideCommand ==
    /\ outside < MaxOutside /\ Events < MaxEvents   \* bounds
    /\ outside' = outside + 1
    /\ timeline' = timeline + 1
    /\ UNCHANGED <<phys, turn, revision, books, decision, replan, command, link,
                   receipt, call, now, network>>

Tick ==
    /\ now < MaxTime
    /\ now' = now + 1
    /\ UNCHANGED <<phys, turn, revision, books, decision, replan, effects, call,
                   outside, network>>

-----------------------------------------------------------------------------

Next ==
    \/ \E p \in Proposals, c \in BOOLEAN, b \in BOOLEAN : AppendToolProposal(p, c, b)
    \/ WaitForToolConfirmation
    \/ \E k \in Keys, S \in SUBSET Proposals, v \in {"approved", "rejected"} :
         SendConfirm([key |-> k, ids |-> S, verdict |-> v, expected |-> revision])
    \/ \E r \in sent : DecideToolProposals(r)
    \/ ExpireToolProposals
    \/ \E p \in Proposals : ExecuteCommand(p)
    \/ \E p \in Proposals : ExecuteDomainAction(p)
    \/ \E p \in Proposals : ReplanAgentProposal(p)
    \/ \E p \in Proposals : ExecuteUnlinked(p)
    \/ \E p \in Proposals : LinkFinalMechanicsReceipt(p)
    \/ ReconcileAdventureTurnMechanics
    \/ StartNarration
    \/ CompleteNarration
    \/ CancelTurn
    \/ FailTurn
    \/ \E c \in Calls : RecordProviderCallStart(c)
    \/ \E c \in Calls, o \in {"succeeded", "failed"} : RecordProviderCallOutcome(c, o)
    \/ OutsideCommand
    \/ Tick

Spec == Init /\ [][Next]_vars

\* Time passes, and a turn that waits is read again: every read expires.
FairSpec == Spec /\ WF_vars(Tick) /\ WF_vars(ExpireToolProposals)

-----------------------------------------------------------------------------
(* Safety.                                                                 *)

\* Mechanics run only with consent: a committed command or domain execution
\* belongs to a proposal that needs no confirmation or was approved.
CommitsWereApproved == command \cup receipt \subseteq Approved

\* A proposal sent back to planning never runs afterwards, although its
\* approval row stays and the turn keeps counting it as approved.
ReplannedNeverRuns == replan \cap (command \cup receipt) = {}

\* What runs is what was consented to and never sent back.
ConsentIsRespected == CommitsWereApproved /\ ReplannedNeverRuns

\* Narration is told only over evidence: a narrating or completed turn has a
\* linked command or a domain receipt, or it never proposed mechanics.
NarratesOnlyEvidence ==
    turn.state \in {"narrating", "completed"} =>
        HasDurableMechanics \/ proposed = {}

\* A turn recorded as mechanics-committed has linked every approved proposal.
MechanicsCommittedMeansLinked ==
    turn.state = "mechanics-committed" => Approved # {} /\ Approved = link

\* A turn is cancelled only over reconciled mechanics: a crash between a command
\* and its link leaves no command a cancelled turn does not account for.
CancelledTurnIsReconciled == turn.state = "cancelled" => command = link

\* A turn that says its mechanics are done, or were called off, says so of all
\* the mechanics that were approved or committed.
MechanicsAreAccounted == MechanicsCommittedMeansLinked /\ CancelledTurnIsReconciled

\* The row the triggers guard never trails the event the repository reads: a
\* turn still open for callers is open in the row, and consented mechanics have
\* left the states in which the row admits a decision.
RowFollowsEvent ==
    /\ \A s \in Terminal \cup {"narrating"} : (turn.state = s) <=> (phys.state = s)
    /\ turn.state \in {"confirmed", "mechanics-committed"}
         => phys.state = "mechanics-committed"
    /\ phys.narration = turn.narration

\* An acknowledged decision is what its proposals carry from then on, however
\* often, late or reordered the clients' requests arrive.
AcknowledgedDecisionsHold ==
    \A k \in Keys : reply[k] # None =>
        \A p \in reply[k].ids : decision[p] = reply[k].verdict

\* No consent without a client: an approval or rejection was asked for by a
\* request that a client sent while it saw the proposal pending.
DecisionsWereRequested ==
    \A p \in Proposals : decision[p] \in {"approved", "rejected"} =>
        \E r \in sent : p \in r.ids /\ r.verdict = decision[p]

\* What a client was told of its decision stays true, and no decision of a
\* client's kind exists that no client asked for.
DecisionsHold == AcknowledgedDecisionsHold /\ DecisionsWereRequested

\* Approval and expiry race on the clock: at its expiry instant a confirmation
\* can no longer be approved or rejected, and before it cannot be expired.
ConsentBeatsExpiry ==
    [][\A p \in Proposals : decision'[p] # decision[p] =>
          /\ decision[p] = "none"
          /\ (now < expires[p]) <=> (decision'[p] # "expired")]_vars

\* Terminal states are final although no command of the repository that writes
\* narration checks them: no move, no decision and no mechanics follow.
TerminalIsFinal ==
    [][turn.state \in Terminal =>
          UNCHANGED <<phys, turn, books, decision, replan, command, link, receipt>>]_vars

\* The schema lets a replanned proposal be decided: wherever the repository
\* waits for a confirmation, the row admits one.
AwaitingIsDecidable ==
    turn.state = "awaiting-confirmation" => phys.state = "awaiting-confirmation"

-----------------------------------------------------------------------------
(* Liveness.                                                               *)

\* A turn whose row admits a decision does not wait forever.
ConfirmationResolves ==
    turn.state = "awaiting-confirmation" /\ phys.state = "awaiting-confirmation"
        ~> turn.state # "awaiting-confirmation"

=============================================================================
