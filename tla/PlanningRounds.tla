--------------------------- MODULE PlanningRounds ---------------------------
(***************************************************************************)
(* The provider planning rounds of one adventure turn, translated from     *)
(*   server/src/repo/adventureTurn/agentResponseProvenance.ts,             *)
(*   server/src/repo/adventureTurn/agentExecution.ts,                      *)
(*   orchestrateAdventureTurn of server/src/agent/adventureOrchestrator.ts *)
(* and the triggers of server/src/repo/db/currentSchema.sql.               *)
(*                                                                         *)
(* Each round claims one provider request, stores its answer once, seals   *)
(* the answer as a decision and acts on the decision.  Every repository    *)
(* call is an immediate transaction and one action; workers of several     *)
(* processes interleave between them, and any of them may crash.  The turn *)
(* itself is the subject of AdventureTurn: here it is only the state and   *)
(* the revision that the planning transactions compare.                    *)
(***************************************************************************)
EXTENDS Naturals

CONSTANTS
    Workers,      \* requests in some process that run the planning loop
    MaxRounds,    \* max_decision_rounds and max_provider_calls of the turn
    Deadline,     \* deadline_at, which is every claim's lease as well
    MaxTime,      \* horizon of the clock
    MaxMoves,     \* bound on changes of the timeline by other turns
    MaxCrashes,   \* bound on crashes
    Limits        \* the bounds a behaviour may choose, within those above

ASSUME LimitsAssumption ==
    /\ MaxRounds \in Nat \ {0}
    /\ Deadline \in Nat /\ MaxTime \in Nat
    /\ MaxMoves \in Nat /\ MaxCrashes \in Nat
    /\ Limits \subseteq [workers : SUBSET Workers, rounds : 1..MaxRounds,
                         moves : 0..MaxMoves, crashes : 0..MaxCrashes]

VARIABLES
    turn,         \* state of the newest coordination event, see TurnState
    rev,          \* its revision
    timeline,     \* campaign_timelines.revision
    exec,         \* execution revision of agent_execution_operations_v38
    claim,        \* per round: start, context and dispatch claim, or NoClaim
    response,     \* per round: agent_provider_responses_v39
    decision,     \* per round: agent_decision_rounds_v38, or NoDecision
    read,         \* rounds whose read call has its outcome stored
    proposal,     \* rounds whose mutation became a tool proposal
    replanned,    \* those whose proposal has a replan requirement
    worker,       \* what each running worker holds in memory
    now,          \* the clock
    crashes,
    requests,     \* history: provider requests sent in a round
    heard,        \* history: what the provider answered in a round
    limits        \* the bounds of this behaviour; they never change

store == <<claim, response, decision, read, proposal, replanned, exec>>
coordination == <<turn, rev, timeline>>
history == <<requests, heard>>
vars == <<store, coordination, worker, now, crashes, history, limits>>

-----------------------------------------------------------------------------
(* Types.                                                                  *)

Rounds == 1..MaxRounds
\* A batch has reads, or one isolated mutation, or no call at all.
Batch == {"read", "mutation", "complete"}
TurnState == {"declared", "proposed", "narrating", "terminal"}
NoClaim == [rev |-> 0, timeline |-> 0, exec |-> 0]
NoDecision == [batch |-> "none", rev |-> 0]
Step == {"idle", "plan", "claim", "claimed", "waiting", "settle", "fail",
         "settled", "persist", "recover", "act", "fallback"}
Idle == [pc |-> "idle", rev |-> 0, timeline |-> 0, exec |-> 0, round |-> 1,
         answer |-> "none"]

\* Type invariant.
TypeOK ==
    /\ turn \in TurnState
    /\ rev \in Nat /\ timeline \in Nat /\ exec \in Nat
    /\ now \in Nat /\ crashes \in Nat
    /\ claim \in [Rounds -> [rev : Nat, timeline : Nat, exec : Nat]]
    /\ response \in [Rounds -> Batch \cup {"none", "failed"}]
    /\ decision \in [Rounds -> [batch : Batch \cup {"none"}, rev : Nat]]
    /\ read \subseteq Rounds /\ proposal \subseteq Rounds
    /\ replanned \subseteq Rounds
    /\ worker \in [Workers -> [pc : Step, rev : Nat, timeline : Nat,
                               exec : Nat, round : Rounds,
                               answer : Batch \cup {"none"}]]
    /\ requests \in [Rounds -> Nat] /\ limits \in Limits
    /\ heard \in [Rounds -> Batch \cup {"none"}]

Claimed == {n \in Rounds : claim[n] # NoClaim}
Decided == {n \in Rounds : decision[n] # NoDecision}
\* getAgentProviderRecovery: the started round that is not decided yet.
Open == Claimed \ Decided
\* The first round without a decision: planning.decisionRounds + 1.
IsNext(n) == n \notin Decided /\ \A k \in Rounds : k < n => k \in Decided
Late == now >= Deadline
\* The decided calls that still wait for an outcome or a proposal.
Unread == {n \in Decided : decision[n].batch = "read"} \ read
Unproposed == {n \in Decided : decision[n].batch = "mutation"} \ proposal

Init ==
    /\ turn = "declared" /\ rev = 1 /\ timeline = 1 /\ exec = 1
    /\ claim = [n \in Rounds |-> NoClaim]
    /\ response = [n \in Rounds |-> "none"]
    /\ decision = [n \in Rounds |-> NoDecision]
    /\ read = {} /\ proposal = {} /\ replanned = {}
    /\ worker = [w \in Workers |-> Idle]
    /\ now = 0 /\ crashes = 0
    /\ requests = [n \in Rounds |-> 0]
    /\ heard = [n \in Rounds |-> "none"]
    /\ limits \in Limits

Goto(w, pc) == worker' = [worker EXCEPT ![w].pc = pc]
\* Another event of the turn.
Advance(state) == turn' = state /\ rev' = rev + 1 /\ UNCHANGED timeline

-----------------------------------------------------------------------------
(* A request enters the planning loop.                                     *)

\* The turn and the timeline are read once, the rest from the stored rows.
Enters(w, pc, n) ==
    worker' = [worker EXCEPT ![w] = [pc |-> pc, rev |-> rev, exec |-> exec,
                  timeline |-> timeline, round |-> n, answer |-> "none"]]

\* Mutant: a live claim of another worker is settled as an orphan.
OrphanedBeforeDeadline(n) == n \in Open /\ response[n] = "none"

\* Mutant: nobody looks at the claims of a turn that is over.
OrphanedOfOpenTurn(n) ==
    /\ n \in Open /\ response[n] = "none"
    /\ Late /\ turn # "terminal"

\* An unanswered claim is an orphan past its lease or once the turn is over.
Orphaned(n) ==
    /\ n \in Open /\ response[n] = "none"
    /\ Late \/ turn = "terminal"

EnterOrphan(w, n) ==
    /\ worker[w].pc = "idle" /\ Orphaned(n)
    /\ Enters(w, "fail", n)
    /\ UNCHANGED <<store, coordination, now, crashes, history>>

\* A stored answer over the same timeline is taken up, any other is not.
EnterAnswered(w, n) ==
    /\ worker[w].pc = "idle" /\ turn = "declared"
    /\ n \in Open /\ response[n] # "none"
    /\ Unproposed = {} \/ Late
    /\ Enters(w, IF response[n] # "failed" /\ claim[n].timeline = timeline /\ ~ Late
                   THEN "recover" ELSE "fallback", n)
    /\ UNCHANGED <<store, coordination, now, crashes, history>>

\* Sealed calls are acted on; a mutation only over the timeline it was
\* decided on, else settleMutationFailure cancels the turn.
EnterDecided(w, n) ==
    /\ worker[w].pc = "idle" /\ turn = "declared"
    /\ \A k \in Open : response[k] # "none"
    /\ n \in Unread \cup Unproposed
    /\ IF n \in Unproposed /\ claim[n].timeline # timeline /\ ~ Late
         THEN Advance("terminal") /\ UNCHANGED worker
         ELSE Enters(w, IF Late THEN "fallback" ELSE "act", n) /\ UNCHANGED coordination
    /\ UNCHANGED <<store, now, crashes, history>>

EnterFresh(w) ==
    /\ worker[w].pc = "idle" /\ turn = "declared"
    /\ Open = {} /\ Unread = {} /\ Unproposed = {}
    /\ Enters(w, "plan", 1)
    /\ UNCHANGED <<store, coordination, now, crashes, history>>

-----------------------------------------------------------------------------
(* The loop: plan, claim, ask, settle, seal.                               *)

\* getDurableAgentPlanningState at the head of the loop.
Plan(w) ==
    /\ worker[w].pc = "plan"
    /\ \/ /\ Late \/ Decided = 1..limits.rounds
          /\ Goto(w, "fallback")
       \/ /\ ~ Late
          /\ \E n \in 1..limits.rounds :
               /\ IsNext(n)
               /\ worker' = [worker EXCEPT ![w].pc = "claim", ![w].round = n,
                                           ![w].exec = exec]
    /\ UNCHANGED <<store, coordination, now, crashes, history>>

\* The guards of claimAgentProviderRound and of the triggers on its rows.  The
\* trigger that looks for a replanned mutation accepts any one of the turn.
Claimable(w, n) ==
    /\ ~ Late
    /\ worker[w].rev = rev /\ worker[w].timeline = timeline
    /\ worker[w].exec = exec
    /\ IsNext(n) /\ Claimed = Decided
    /\ \A k \in Decided :
         /\ decision[k].batch # "complete"
         /\ decision[k].batch = "read" => k \in read
         /\ decision[k].batch = "mutation" => replanned # {}

ClaimOf(w) == [rev |-> worker[w].rev, timeline |-> worker[w].timeline,
               exec |-> worker[w].exec + 1]

\* Mutant: a replay that differs is not told apart from a conflict.
ReplayUnhandled(w, n) == Goto(w, IF claim[n] # ClaimOf(w) THEN "conflict" ELSE "idle")

\* Mutant: a replayed claim counts as a new one.
ReplayClaims(w, n) == Goto(w, "claimed")

\* The start is stored already: a live lease is left to its worker.
Replays(w, n) ==
    Goto(w, IF claim[n] # ClaimOf(w) THEN "fallback"
            ELSE IF Late THEN "fail" ELSE "idle")

\* claimAgentProviderRound; whatever it refuses ends the loop.
Claim(w) ==
    LET n == worker[w].round IN
    /\ worker[w].pc = "claim"
    /\ \/ /\ n \in Claimed
          /\ Replays(w, n)
          /\ UNCHANGED <<claim, exec>>
       \/ /\ n \notin Claimed /\ Claimable(w, n)
          /\ claim' = [claim EXCEPT ![n] = ClaimOf(w)]
          /\ exec' = exec + 1
          /\ Goto(w, "claimed")
       \/ /\ n \notin Claimed /\ ~ Claimable(w, n)
          /\ Goto(w, "fallback")
          /\ UNCHANGED <<claim, exec>>
    /\ UNCHANGED <<response, decision, read, proposal, replanned,
                   coordination, now, crashes, history>>

\* The token budget admits the request, or it is settled without one.
Send(w) ==
    /\ worker[w].pc = "claimed"
    /\ \/ /\ Goto(w, "waiting")
          /\ requests' = [requests EXCEPT ![worker[w].round] = @ + 1]
       \/ Goto(w, "fail") /\ UNCHANGED requests
    /\ UNCHANGED <<store, coordination, now, crashes, heard>>

\* The provider fails, or answers with a batch that the worker checks against
\* the clock and a fresh snapshot before it settles.
Answer(w, batch) ==
    /\ worker[w].pc = "waiting"
    /\ \/ /\ heard' = [heard EXCEPT ![worker[w].round] = batch]
          /\ worker' = [worker EXCEPT ![w].answer = batch,
               ![w].pc = IF ~ Late /\ worker[w].timeline = timeline
                           THEN "settle" ELSE "fail"]
       \/ Goto(w, "fail") /\ UNCHANGED heard
    /\ UNCHANGED <<store, coordination, now, crashes, requests>>

\* Mutant: a late answer is stored as the success it claims to be.
AuthoritativeLate(n) == TRUE

\* settleAgentProviderResponse accepts a success only over the claim's context.
Authoritative(n) ==
    /\ ~ Late
    /\ claim[n].timeline = timeline /\ claim[n].rev = rev

\* Mutant: a settlement replaces the one stored before it.
StoredAnew(n, value) == [response EXCEPT ![n] = value]

\* The first settlement of a round is the only one.
Stored(n, value) ==
    IF response[n] = "none" THEN [response EXCEPT ![n] = value] ELSE response

\* A late success is stored as a failure; one that finds another settlement
\* stored is refused.  Neither has any effect on the turn.
SettleSuccess(w) ==
    LET n == worker[w].round IN
    /\ worker[w].pc = "settle"
    /\ response' = Stored(n, IF Authoritative(n) THEN worker[w].answer ELSE "failed")
    /\ Goto(w, IF response[n] = "none" /\ Authoritative(n) THEN "settled" ELSE "fallback")
    /\ UNCHANGED <<claim, decision, read, proposal, replanned, exec,
                   coordination, now, crashes, history>>

\* settleProviderFailure; a worker whose client has left stops here.
SettleFailure(w) ==
    /\ worker[w].pc = "fail"
    /\ response' = Stored(worker[w].round, "failed")
    /\ Goto(w, "fallback") \/ Goto(w, "idle")
    /\ UNCHANGED <<claim, decision, read, proposal, replanned, exec,
                   coordination, now, crashes, history>>

\* The planning state is read once more after the settlement.
Reread(w) ==
    /\ worker[w].pc = "settled"
    /\ worker' = [worker EXCEPT ![w].pc = IF Late THEN "fallback" ELSE "persist",
                                ![w].exec = exec]
    /\ UNCHANGED <<store, coordination, now, crashes, history>>

-----------------------------------------------------------------------------
(* The decision and what follows from it.                                  *)

\* Mutant: the earlier rounds are left to the trigger of the claim.
SealableOverAny(w, n) ==
    /\ ~ Late /\ turn # "terminal"
    /\ worker[w].rev = rev
    /\ worker[w].exec = exec /\ worker[w].exec = claim[n].exec
    /\ response[n] \in Batch

\* requireFresh, the decision is of the newest start and its inbox, and each
\* earlier round is complete in itself.
Sealable(w, n) ==
    /\ ~ Late /\ turn # "terminal"
    /\ worker[w].rev = rev
    /\ worker[w].exec = exec /\ worker[w].exec = claim[n].exec
    /\ response[n] \in Batch
    /\ IsNext(n)
    /\ \A k \in Decided :
         /\ decision[k].batch # "complete"
         /\ decision[k].batch = "read" => k \in read
         /\ decision[k].batch = "mutation" => k \in replanned

\* persistAgentDecisionRound.  A worker that recovers an answer starts over
\* once it is sealed; one that asked goes on; a refusal ends the request.
Persist(w) ==
    LET n == worker[w].round
        batch == IF worker[w].pc = "recover" THEN response[n] ELSE worker[w].answer
        refused == IF worker[w].pc = "recover" THEN "fallback" ELSE "idle"
        proceeds == IF worker[w].pc = "recover" THEN "idle"
                    ELSE IF batch = "complete" THEN "fallback" ELSE "act"
    IN
    /\ worker[w].pc \in {"persist", "recover"}
    /\ \/ /\ n \in Decided
          /\ Goto(w, IF decision[n].rev = worker[w].rev /\ worker[w].exec = claim[n].exec
                       THEN proceeds ELSE refused)
          /\ UNCHANGED <<decision, exec>>
       \/ /\ n \notin Decided /\ Sealable(w, n)
          /\ decision' = [decision EXCEPT ![n] = [batch |-> batch, rev |-> rev]]
          /\ exec' = exec + 1
          /\ Goto(w, proceeds)
       \/ /\ n \notin Decided /\ ~ Sealable(w, n)
          /\ Goto(w, refused)
          /\ UNCHANGED <<decision, exec>>
    /\ UNCHANGED <<claim, response, read, proposal, replanned,
                   coordination, now, crashes, history>>

\* markAgentReadOutcome; a stored outcome or a stale turn ends the request.
MarkRead(w) ==
    LET n == worker[w].round
        fresh == ~ Late /\ turn # "terminal" /\ worker[w].rev = rev /\ n \notin read
    IN
    /\ worker[w].pc = "act" /\ decision[n].batch = "read"
    /\ read' = IF fresh THEN read \cup {n} ELSE read
    /\ exec' = IF fresh THEN exec + 1 ELSE exec
    /\ Goto(w, IF fresh THEN "plan" ELSE "idle")
    /\ UNCHANGED <<claim, response, decision, proposal, replanned,
                   coordination, now, crashes, history>>

\* appendToolProposal accepts a proposal at the revision the worker read.
Appendable(w, n) ==
    worker[w].rev = rev /\ turn \in {"declared", "proposed"} /\ n \notin proposal

\* appendMutationProposal; where it is refused the turn is cancelled.
Propose(w) ==
    LET n == worker[w].round IN
    /\ worker[w].pc = "act" /\ decision[n].batch = "mutation"
    /\ IF Appendable(w, n)
         THEN proposal' = proposal \cup {n} /\ Advance("proposed")
         ELSE /\ UNCHANGED proposal
              /\ IF turn = "terminal" THEN UNCHANGED coordination ELSE Advance("terminal")
    /\ Goto(w, "idle")
    /\ UNCHANGED <<claim, response, decision, read, replanned, exec,
                   now, crashes, history>>

\* The stream narrates a turn that planned nothing.
Fallback(w) ==
    /\ worker[w].pc = "fallback"
    /\ IF turn = "declared" /\ proposal = {}
         THEN Advance("narrating") ELSE UNCHANGED coordination
    /\ Goto(w, "idle")
    /\ UNCHANGED <<store, now, crashes, history>>

-----------------------------------------------------------------------------
(* The rest of the turn, the other turns, the clock and crashes.           *)

\* A stale approved proposal sends the turn back to planning.
Replan(n) ==
    /\ turn = "proposed" /\ n \in proposal \ replanned
    /\ replanned' = replanned \cup {n}
    /\ Advance("declared")
    /\ UNCHANGED <<claim, response, decision, read, proposal, exec,
                   worker, now, crashes, history>>

\* The proposal commits, the narration ends or somebody cancels the turn.
End ==
    /\ turn # "terminal"
    /\ Advance("terminal")
    /\ UNCHANGED <<store, worker, now, crashes, history>>

MoveTimeline ==
    /\ timeline <= limits.moves
    /\ timeline' = timeline + 1
    /\ UNCHANGED <<store, turn, rev, worker, now, crashes, history>>

Crash(w) ==
    /\ worker[w].pc # "idle" /\ crashes < limits.crashes
    /\ Goto(w, "idle")
    /\ crashes' = crashes + 1
    /\ UNCHANGED <<store, coordination, now, history>>

Tick ==
    /\ now < MaxTime
    /\ now' = now + 1
    /\ UNCHANGED <<store, coordination, worker, crashes, history>>

Resume(w) ==
    \/ \E n \in Rounds : EnterOrphan(w, n) \/ EnterAnswered(w, n) \/ EnterDecided(w, n)
    \/ EnterFresh(w)

Work(w) ==
    \/ Plan(w) \/ Claim(w) \/ Send(w)
    \/ \E batch \in Batch : Answer(w, batch)
    \/ SettleSuccess(w) \/ SettleFailure(w) \/ Reread(w)
    \/ Persist(w) \/ MarkRead(w) \/ Propose(w) \/ Fallback(w)

Next ==
    /\ \/ \E w \in limits.workers : Resume(w) \/ Work(w) \/ Crash(w)
       \/ \E n \in Rounds : Replan(n)
       \/ End \/ MoveTimeline \/ Tick
    /\ UNCHANGED limits

Spec == Init /\ [][Next]_vars

\* The clock advances, a worker that is in the loop goes on, and somebody
\* reopens a turn with an orphaned round: the client polls a turn that is in
\* progress.
MayMove(w) ==
    w \in limits.workers /\ (worker[w].pc # "idle" \/ \E n \in Rounds : Orphaned(n))

Fairness ==
    /\ WF_now(Tick)
    /\ \A w \in Workers : []<>~MayMove(w) \/ []<><<worker[w]' # worker[w]>>_worker

FairSpec == Spec /\ Fairness

-----------------------------------------------------------------------------
(* Properties.                                                             *)

\* However many workers resume a turn, and whichever of them crash, a round
\* sends its provider request at most once: the durable claim is never taken
\* twice (claimAgentProviderRound).
OneRequestPerRound == \A n \in Rounds : requests[n] <= 1

\* The rounds are sealed in order, whichever workers share the turn: when one
\* is claimed, each earlier one has its decision and its reads their outcomes;
\* when one is sealed, each earlier mutation was sent back to be replanned.
RoundsInOrder ==
    /\ \A n \in Claimed : \A k \in 1..(n - 1) :
         /\ k \in Decided /\ decision[k].batch # "complete"
         /\ decision[k].batch = "read" => k \in read
    /\ \A n \in Decided : \A k \in 1..(n - 1) :
         decision[k].batch = "mutation" => k \in replanned

\* What is decided and proposed in a round is what the provider answered in it,
\* whichever worker asked, settled, sealed or acted, and it is stored as the
\* round's success.
DecisionsWereHeard ==
    /\ \A n \in Decided : decision[n].batch = heard[n] /\ response[n] = heard[n]
    /\ \A n \in proposal : n \in Decided /\ decision[n].batch = "mutation"

\* The first settlement of a round stands: neither a late success after an
\* orphan's failure nor the failure after a success replaces it.
FirstSettlementStands ==
    \A n \in Rounds : response[n] # "none" => response'[n] = response[n]

\* An answer becomes a success only while the round's lease, the timeline and
\* the turn are those of its claim (settleAgentProviderResponse).
SuccessIsCurrent ==
    \A n \in Rounds : response[n] = "none" /\ response'[n] \in Batch =>
        now < Deadline /\ claim[n].timeline = timeline /\ claim[n].rev = rev

\* While its lease lasts and the turn is open, a round is not settled under the
\* worker whose request is on its way (the early recovery of the orchestrator).
LiveClaimsAreLeftAlone ==
    \A n \in Rounds :
        /\ response[n] = "none" /\ response'[n] # "none"
        /\ now < Deadline /\ turn # "terminal"
        => \A w \in Workers : ~ (worker[w].pc = "waiting" /\ worker[w].round = n)

\* Every claimed round is settled in the end, whoever crashes: a claim never
\* keeps the turn in progress for ever.
ClaimsAreSettled ==
    \A n \in Rounds : n \in Claimed ~> response[n] # "none"

\* The rounds of a turn: each is asked once, they are sealed in order, and what
\* is done in them is what the provider answered.
RoundsAreSound == TypeOK /\ OneRequestPerRound /\ RoundsInOrder /\ DecisionsWereHeard

\* No step settles a round twice, lets a success pass that is no longer current,
\* or settles a round from under the worker that still waits for its answer.
SettlementsAreSound ==
    [][FirstSettlementStands /\ SuccessIsCurrent /\ LiveClaimsAreLeftAlone]_vars
=============================================================================
