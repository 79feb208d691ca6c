# VelvetRP: verification project

VelvetRP is a role-playing server: a Fastify/TypeScript process on one SQLite
database (`server/`), a React client (`client/`) and the contracts they share
(`packages/contracts`). In its campaign mode a player *declares* what a
character does; a language model *plans* it as tool proposals; the player
*consents* where the policy asks for it; the server *executes* the mechanics,
each with a receipt; and a language model *narrates* the result over those
receipts. Everything the game may rely on is in the database. Everything that
is hard about it happens between two transactions: providers take seconds,
clients disconnect and repeat requests, a confirmation expires while an approval
is on its way, and the process may stop anywhere.

Around that turn are a campaign director that proposes the next beat of a room,
paid generation of campaign content, D&D encounters, a queue of scene images, and
the older roleplay chat, each with hazards of the same kind.

This directory holds TLA+ models of these parts, TLC configurations that check
them on small instances, and proofs that TLAPS checks for every instance. All
paths below are relative to the repository's root.

## How to run

    tlc -config AdventureTurn.cfg MCAdventureTurn.tla
    tlc -config AdventureTurnAwaiting.cfg MCAdventureTurn.tla      (a violation)
    tlc -config NarrationDispatch.cfg MCNarrationDispatch.tla
    tlc -config NarrationDispatchHook.cfg MCNarrationDispatch.tla  (a violation)
    tlc -config TurnPlanning.cfg MCTurnPlanning.tla
    tlc -config CampaignDm.cfg MCCampaignDm.tla
    tlc -config CampaignDmResend.cfg MCCampaignDm.tla              (a violation)
    tlc -config GenerationJob.cfg MCGenerationJob.tla
    tlc -config Encounter.cfg MCEncounter.tla
    tlc -config EncounterAsDocumented.cfg MCEncounter.tla          (a violation)
    tlc -config SceneImages.cfg MCSceneImages.tla
    tlc -config RoleplayChat.cfg MCRoleplayChat.tla
    tlapm AdventureTurnProofs.tla
    tlapm NarrationDispatchProofs.tla
    tlapm PlanningRoundsProofs.tla
    tlapm CampaignDmProofs.tla
    tlapm GenerationJobProofs.tla
    tlapm SceneImagesProofs.tla
    tlapm RoleplayChatProofs.tla
    tlapm TotalsProofs.tla

| module | what it is |
|---|---|
| `AdventureTurn` | coordination of one turn: rows, events, consent, mechanics, narration, end |
| `TurnPromise` | what a turn promises the players, with two variables |
| `AdventureTurnRefinement` | the mapping under which the first implements the second |
| `AdventureTurnProofs` | its safety theorems and the proof of the refinement |
| `NarrationDispatch`, `NarrationDispatchProofs` | the narration of one turn by several streams of several workers, and its theorems |
| `PlanningRounds`, `PlanningRoundsProofs` | the provider rounds in which workers plan a turn, and its theorems |
| `TurnBudget` | the token and cost budget of one turn in one or several processes |
| `CampaignDm`, `CampaignDmProofs` | the director's beats: planning, authority, execution, narration, and its theorems |
| `GenerationJob`, `GenerationJobProofs` | paid generation jobs, drafts and the accepted canon, and its theorems |
| `Encounter` | turn order, blows, death saves and mirrored health of one D&D combat |
| `SceneImages`, `SceneImagesProofs` | the image queue, its worker, retention and publication, and its theorems |
| `RoleplayChat`, `RoleplayChatProofs` | one chat session's requests, branches and lock, and its theorems |
| `TotalsProofs` | the theorems of `TurnBudget` (for one process) and of `Encounter`, and the lemmas on sums both need |
| `MC...` | model values, small instances and symmetry for TLC |

`PROJECT.json` maps every definition to the lines it models and lists the runs,
the mutants that show each property can fail, the hazards and the theorems. A
run checks few properties by name: where several facts share a run they are named
definitions (`OneTurnARound`, `HealthIsMirrored`, ...) joined in one invariant or
one action property, and each of them has a mutant that breaks it.

## Inventory

The parts of the system, the state each keeps and the status of its model. "Hard"
names what a test hardly reaches; "correct" is what makes the part correct.

### The turn

**Adventure turn coordination** — modelled in part (`AdventureTurn`).
`server/src/repo/adventureTurn/{write,read,agentResponseProvenance}.ts`,
`server/src/repo/adventureTurnRepo.ts`, the stream of
`server/src/routes/rpg/v1/adventureTurns.ts`, triggers of
`server/src/repo/db/currentSchema.sql`.
State: the row of `adventure_turns`, the log of coordination events and receipts,
`tool_proposals`, `confirmation_decisions`, replan requirements, mechanics links,
domain executions, provider calls. Operations: append a proposal, wait, decide,
expire, execute, replan, link, reconcile, narrate, complete, cancel, fail, record a
call's start and outcome. Interacts with the campaign's timeline (optimistic
revision), with clients (keys and expected revisions) and with the orchestrator.
Hard: the row and the event can differ on purpose; a crash between a command and
its link; approval against expiry; repeated and reordered requests; a timeline
moved under an attested proposal. Correct: consent before mechanics, mechanics
before narration, decisions made once and kept, finished turns closed, no
committed command forgotten. Not yet: derivative turns (narration retry and
swipe), the exact-candidate lanes that commit mechanics without a proposal,
generation drafts.

**Adventure orchestrator** — in part, as guards of `AdventureTurn`.
`server/src/agent/adventureOrchestrator.ts`, `confirmationPolicy.ts`. Keeps no
state; drives the turn: recover, execute every approved proposal, plan, give up.
Prompts, candidate relevance and tool arguments are not modelled.

**Narration dispatch** — modelled (`NarrationDispatch`).
`agentResponseProvenance.ts:53-100`, `adventureTurns.ts:630-810,930-1056`. State: the
row of `adventure_narration_dispatches_v60` (claim, lease, owner, settlement), the
narration call, the completion command, and per stream the turn it has in hand.
Hard: streams of several workers on one turn, leases that expire under a running
request, recovery of what a crashed stream left, a public context that moves while
the prompt is answered. Correct: one provider request per turn, one settlement, one
durable narration that every client hears.

**Provider planning rounds** — in part (`PlanningRounds`). `agentExecution.ts`,
`agentResponseProvenance.ts:105-230`, the loop of `adventureOrchestrator.ts`. State:
claims, responses, sealed decisions and their outcomes, a deadline. Hard: two workers
claim one round; an answer after the deadline or over a moved timeline; orphans of a
restart. Correct: one dispatch per round, one settlement, rounds in order, what is
done is what was answered.

**Turn token budget** — modelled (`TurnBudget`; `NarrationDispatch` has the loss of
the narration call's reservation). `server/src/agent/turnBudget.ts`. State: in memory,
per turn: reservations, charged tokens and dollars. Hard: discarded by any stream that
ends while another has a call in flight; rebuilt from stored usage. Correct: charged
plus reserved within the limits unless a provider overran, nothing charged twice.

**Provider completion** — external: an answer is a nondeterministic outcome, or none.
`server/src/provider`.

### The world the turn acts on

**Campaign commands and timelines** — in part: the commit of a command with its
receipt and the timeline revision, as a turn sees it. `server/src/repo/campaign`.
Correct: one receipt per key, revisions without gaps.

**Exact candidates** — not modelled, planned. `server/src/repo/candidateRepo`. Issued,
selected, executed or superseded options a provider may choose from. Hard: a
candidate goes stale between issue and execution. Correct: executed at most once and
only in the state it was issued for.

**Campaign director** — in part (`CampaignDm`). `server/src/repo/campaignDmRepo.ts`,
`server/src/agent/{campaignDmOrchestrator,dmNarration}.ts`, `campaignDmSchema.sql`.
State: the mode and its revision, beats with decisions, receipts and narration jobs,
planning and narration claims. Hard: a human takes over while a beat is planned,
reviewed or executed; a composition stops half way; an answer's outcome is unknown.
Correct: effects only under the authority that planned them, once, and a published
scene is whole and current.

**Encounters and tactical combat** — in part (`Encounter`). `server/src/repo/encounter`,
`encounterRepo.ts`. State: order, current combatant, economy rows, hit points twice
(combatant and actor), death saves. Hard: five families of commands with three copies
of the turn rule write the same rows. Correct: no stuck combat, one turn a round,
death saves that agree with the status, one number of hit points.

**World, presence and journeys** — planned. `server/src/repo/world`. Who is where;
routes over the location graph. Correct: an NPC is in one place; a journey is a path.

**Economy and inventory** — planned. `server/src/repo/economy`, `inventoryRepo.ts`,
`attunementRepo.ts`. Correct: coins and items are conserved by retried commands.

**Quests and story** — planned with the candidates. `server/src/repo/quest`,
`storyRepo.ts`. Correct: a reward is claimed once.

**Actor resources, effects, powers, rests, grants** — planned after the economy.
`server/src/repo/{actorResource,effectRepo.ts,powerRepo.ts,restRepo.ts,grantSettlementRepo.ts}`.
Correct: spending and recovery stay within bounds.

**Generation drafts and campaign generation** — in part (`GenerationJob`).
`campaignGenerationRepo.ts`, `campaignGenerationRecovery.ts`,
`routes/rpg/v1/{campaignContentGeneration,campaignRegionPack}.ts`. State: jobs,
attempts, drafts, accepted artifacts. Hard: leases that run out under a paid call,
late answers, two clients that retry, drafts made from one canon. Correct: one paid
call per acknowledged attempt, one attempt makes the draft, the canon stays closed.

**Scene images** — in part (`SceneImages`). `server/src/image/service.ts`. State: job
rows, receipts, stored images, publications, one tick that awaits a service. Hard:
requests prune rows and images under a suspended tick; ambiguous submissions;
restarts. Correct: what is published is stored, nothing settled changes, the queue
drains.

### The older mode

**Roleplay chat** — in part (`RoleplayChat`). `server/src/routes/roleplay`,
`services/synthesizedSceneState.ts`, the session repositories. State: a tree of
messages with one active leaf, a derived scene, an in-memory lock and abort handle.
Hard: a stop, a deletion, a cancellation or a lost client against the last token; the
parent and the number of a reply are chosen before the model is asked. Correct: turns
extend the branch the reader sees, aborted streams store nothing, the scene belongs to
the branch, the lock is freed.

### What stays outside

Campaign administration (revisioned settings; compare-and-set only), startup and
rooms (sequential checks), content catalog (data import), character builder and
progression (rules arithmetic over catalog data), companions and freeform content
(row commands under the same revision checks), voice (audio and device I/O), the
System One lanes (record-only shadow decisions), verifiable dice and
rulesets (hash chains: cryptography is outside a model checker's reach), database
startup and upgrade (one validated transaction per step; planned late), the HTTP
surface and the contracts (parsing and formatting, except the turn stream, the
confirm route and the read that expires), the client (its requests are modelled as
an environment, its rendering is not), tooling and the planning board.

## AdventureTurn

### State and code

A turn has two states. `phys` is the row of `adventure_turns`, which only the
triggers look at; `turn` is the newest coordination event, which the repository and
every caller read. `Advance(physState, state, narration)` is `physicalAdvance`
followed by `finish` (`write.ts:235-260`): the same immediate transaction writes row,
event and the shared `revision`. A trigger that raises aborts the transaction, so
`MoveAllowed`, `RowAllowed`, `AppendAllowed`, `DecisionAllowed` and `LinkAllowed` are
conjuncts of the actions. Every command ends with a read of the turn, which throws on
a pending confirmation over an unlinked command; `Readable'` is that read.

| variable | code |
|---|---|
| `phys`, `turn`, `revision` | `adventure_turns`, newest event, revision of both |
| `proposed`, `confirmable`, `onTimeline`, `expires`, `observed` | `tool_proposals` and the policy attested with them |
| `decision`, `replan` | `confirmation_decisions`, `agent_replan_requirements_v40` |
| `command`, `link`, `receipt` | committed campaign commands, `turn_mechanics_links_v36`, domain executions |
| `call` | `provider_call_metadata` |
| `timeline`, `outside` | `campaign_timelines.revision` and who else moved it |
| `sent`, `reply` | confirm requests in the network; command and receipt stored per key |

One action is one transaction. better-sqlite3 is synchronous and each command runs in
an immediate transaction, so nothing interleaves inside one; everything interleaves
between two. `ExecuteUnlinked` is the caller of two separate transactions that stops
between them, `LinkMechanics` every way of linking afterwards.

`Status`, `EffectiveState`, `MechanicsState` are the projections of `read.ts`; the
orchestrator's order is in three guards: `Resumes` (it returns before executing in a
finished state), `StreamNarrates` (the stream's early returns) and
`NothingApprovedWaits` (it gives a turn up only after its first loop has executed or
replanned each approved proposal).

### Abstractions

- A proposal is an identity with two bits: needs a confirmation or not, bound to a
  campaign command or to a domain. The domain lanes (encounters, inventory, ...) are
  one family, with at most one execution row per turn as in the schema.
- Keys the server derives itself are not modelled: their requests carry the revision,
  so a repetition is a replay or stale. The keys of confirm requests come from
  clients and are modelled, with reuse, loss, delay and reordering: `sent` only grows
  and any request of it may arrive again at any time.
- The campaign's own revision, its pause switch and membership are constant.
- `ReplanAgentProposal` may happen to any executable proposal: its causes (moved
  timeline, lost authority, refused command) are wider than the model's data.
- Starting the narration is one action although the stream first reads and then
  writes; the write carries the revision it read, so nothing happened in between.

### Properties

- `ConsentIsRespected` (`CommitsWereApproved`, `ReplannedNeverRuns`): what has run needed no consent or was
  approved, and a proposal sent back to planning never runs though its approval stays.
- `NarratesOnlyEvidence` and `MechanicsAreAccounted` (`MechanicsCommittedMeansLinked`,
  `CancelledTurnIsReconciled`): narration only over linked mechanics, a turn counts as committed only when the last
  approved proposal is linked, a cancelled turn accounts for every command.
- `RowFollowsEvent`: what the triggers guard and what callers read agree where it
  matters. (In the one state where they do not, see Findings.)
- `DecisionsHold` (`AcknowledgedDecisionsHold`, `DecisionsWereRequested`) and
  `ConsentBeatsExpiry`: the
  promises about consent under repetition and against the clock.
- `TerminalIsFinal`: an action property. `updateAdventureTurnNarration`, `linkFinal...`
  and `replan...` do not test for a finished turn; that they cannot touch one follows
  from several guards elsewhere.
- `KeepsPromise`: refinement of `TurnPromise`, whose variables are the life of the
  turn (`phase`) and the fate of each proposal. The mapping reads the fate off the
  rows: mechanics outweigh a replan requirement, both outweigh the decision.
- `ConfirmationResolves`: a waiting turn whose row admits decisions leaves the wait.

## NarrationDispatch

### State and code

The model enters where a turn has its evidence. Its actors are streams (a client
connection that may be reopened), each served by a worker; workers share the database
and nothing else. The comments of `turnBudget.ts` and the tests
`server/test/rpg-adventure-turn-route.test.ts:457,478,499` treat the dispatch row as a
lock across processes, and a single process is the special case of one worker.

| variable | code |
|---|---|
| `turn`, `stored` | newest event; the completed turn's narration |
| `began`, `started`, `finished` | the commands stored under the keys `http-narrating`, `narration-provider-start`, `http-narrated`, as far as a replay compares them |
| `call`, `dispatch` | the narration call; the row of `adventure_narration_dispatches_v60` |
| `context` | version of what the public may know (`publicNarrationContext`) |
| `reserved` | workers whose token budget holds the call's reservation |
| `requests`, `hooks` | requests sent to the provider; times the hook fired |
| `pc`, `held`, `seen`, `text`, `told`, `gone` | where a stream is, the turn it has in hand, the context of its prompt, its text, what its client heard, and whether the client left |

`performNarration` is cut at its awaits and its transactions: `Recover`, `FallBack`,
`Claim` (prompt and claim are one synchronous block), `Poll`, `Start` or
`StartRefused`, `Answer`, `Settle`, `Reclaim`, `Finalize`; the stream around it is
`Open`, `Begin`, `CompleteTurn`, `ReplayCompletion`, `LoseCompletion`,
`TellCompleted`. `Finish` is the terminal event with the `finally` block that clears
the turn's budget. The environment is `Disconnect`, `Crash`, `OtherCommand`,
`ContextMoves` and `Tick`.

### Abstractions

- A text is what tells it apart: the provider's, the bare fallback, or the fallback
  that names the location of a context version. Two fallbacks over the same context
  are equal, as they are in the code, which is what makes a replay possible.
- A dispatch is one claim, one start and one settlement, and `requests` counts dispatches.
  Inside it the code may send further HTTP requests under the same claim: the same
  request without a forced tool after the endpoint refused thinking with it
  (`adventureTurns.ts:593-601`), and one repair of an ungrounded text (`:733-749`). Both are
  part of `Answer`.
- A budget is the set of workers that hold the call's reservation. Whether a
  reservation is granted is a choice; that it is missing when another stream's end
  cleared it is not.
- A synchronous run of several transactions is split at each of them. In one process
  they would not interleave; with several workers they do.

### Properties

- `OneRequest`: the provider is asked at most once for a turn's narration.
- `DispatchSettlesOnce`, `LateAnswersLose`: the row keeps its owner, is never written
  after it settled, and after the lease settles only on the fallback — also before
  anyone has noticed the expiry.
- `OutcomeMatchesDispatch`: the call's outcome, recorded by whichever stream comes
  first, is that of the settlement.
- `NarrationIsFinal`: nothing any stream still holds changes a completed turn.
- `ToldIsStored`: each client that is told the end hears the durable narration. The
  two exceptions are the code's own: a turn completed on bare fallback prose, and a
  context that moved after the claim; then a stream that was already on its way may
  tell what it had.
- `NarrationCompletes`: a narrating turn completes though the provider stays silent,
  the owner crashes, a client leaves, or a stream clears another's reservation.

## PlanningRounds

`PlanningRounds` is the planning half of a turn: what a worker does from the claim of
a round to the act on its decision, and what another worker or a later one finds of it.

| variable | code |
|---|---|
| `claim`, `response`, `decision` | `provider_call_metadata` with the dispatch claim, `agent_provider_responses_v39`, `agent_decision_rounds_v38` |
| `read`, `proposal`, `replanned` | outcomes of reads, proposals of mutations, replan requirements, per round |
| `turn`, `rev`, `timeline`, `exec` | state and revision of the turn, the campaign's timeline, the execution revision |
| `worker` | the round, the revisions and the answer a worker holds in memory |

Every repository call is one immediate transaction and one action: `Claim` or its
replay, the request, `Settle` (a success is stored only while deadline, timeline and
turn are those of the claim, and as a failure otherwise), the recovery of orphans, the
sealed decision, a read's outcome, a mutation's proposal. `Resume` takes up whatever
the database says is next. `Replan`, `End`, `MoveTimeline`, `Tick` and `Crash` are the
environment. A batch is reduced to what the next step depends on: a read, a mutation, a completion.

- `RoundsAreSound`: a round sends one provider request whoever resumes or crashes
  (`OneRequestPerRound`); rounds are claimed and sealed in order (`RoundsInOrder`);
  what is decided and proposed is what the provider answered (`DecisionsWereHeard`).
- `SettlementsAreSound`: the first settlement stands, a success is current when it is
  stored, and recovery leaves a live claim alone while the turn is open.
- `ClaimsAreSettled`: every claimed round is settled in the end.

Not modelled: selections that commit through an exact-candidate lane, limits on the
tools of one batch. The schema counts replanned combat rounds apart
(`agent_mutation_accounting_v40`) while a start is validated against decision rounds
only; the model has the second.

## TurnBudget

`AdventureTurnBudgetManager` keeps, per process and turn, what is charged (`spent`) and
reserved (`held`); `recorded` is the usage stored with a call's outcome, from which a
process without a budget rebuilds one (`Rebuilt`). `Dispatch` reserves the worst case
and sends, `Settle` and `SettleUnknown` charge, `Clear` is the end of a stream,
`Restart` a restart (`StoredUsage` is what it finds). Integers are exact: tokens and prices are small numbers.

- `BudgetIsSound`: as long as no call used more than it reserved, charged plus reserved
  stays within tokens and cost (`OnlyOverrunsExceed`), and what a process has charged
  lies between what is stored and what was used (`EachCallChargedOnce`).
- `OverageStopsDispatches`: once the stored usage is at the limit, no request leaves.

Budgets are per process; two processes may each spend up to the limit, which the code
accepts, so the properties speak of one process. A provider's `totalTokens` above the
sum of its parts is charged in memory only and not modelled. The rate window never
binds (a turn makes fewer calls), and `release` has no caller in the server.

## CampaignDm

A beat (`run`) is planned by a model in rounds, decided by a human or by the delegated
policy, executed as a composition of effects, and narrated. `control` is the mode with
its revision; `world` is one counter for everything the freshness digest and the
narration guard hash; `open` stands for session, membership, pause and timeline.
`planned`, `scene` and `overdue` are the claims of provider calls. `requests` counts what is
sent for a round: the requests of all attempts, and those of them that followed a transport
failure, whose answer may have been lost (`Retry`). A worker is an
orchestration in flight, cut at its awaits: `Resume`, settings, `Claim`, the call,
reads, `Execute`, `Narrate`, the narration provider, `Publish`. An AI run executes its
composition in one synchronous stretch that only a crash can cut (`Composed`); a
human's decision is one transaction.

- `BeatsAreSound`: a takeover leaves nothing that can still act (`TakeoverIsFinal`); a
  room is opened once; each effect is committed once and in order, also when a beat is
  resumed (`EachEffectOnce`); a completed beat is whole; a planning round is sent by one
  orchestration and costs, retries counted, at most the attempts of one call, whoever resumes
  it (`DispatchedByOne`); an unknown outcome ends the run without effects.
- `AmbiguousNeverRetried`, the violation: no round is sent again after a failure that may have
  been billed (see Findings).
- `AuthorityIsCurrent`: a step that commits an effect does so under the authority, the
  world and the decision it was planned with, before its expiry; a step that publishes
  tells the scene as it was queued.
- `RoomIsFreed`: an outstanding beat never blocks its room for ever.

The grounded call of a later round that a crash orphans is not marked unknown by the
code either; its run is displaced. The narration's call has one retry of the same kind
(`:409`), which lies inside `SettleDmNarration` and is not counted. Not modelled: what a candidate does to the world,
the contents of snapshots, aggregate budgets, idempotent replays, evidence bindings,
the readiness report, retries of narration, the schema upgrade.

## GenerationJob

A `job` belongs to an idempotency key; its `attempts` are paid calls; `draft` is the
staged answer; `accepted` the canon as a function from artifacts to visibility and
references; `content` the drafts applied, in order. A request reads the canon, takes
or retries the job (`Retryable`: the client names the failed attempt), calls and
stages (`Finish`); a region pack is applied as it is staged, other drafts by `Apply`
with any selection. `LeaseRunsOut` and `Reconcile` give up what nobody finished.

- `DraftsAreSound`: an attempt is sent once and only after exactly the previous one was
  acknowledged (`PaidOnAcknowledgement`); a draft exists exactly when its job succeeded,
  by its last attempt; two drafts of one canon are never both applied; the accepted
  canon is closed under references.
- `RecordsStand`: outcomes are final, late requests disturb nothing of the attempt that
  took over, accepted artifacts stay.
- `KeyIsFreed`: a running job of an asking client is settled in the end.

Not modelled: what freeform drafts contain, reviewed-content drafts, the v50 artifacts,
the second request after a 400, placement of NPCs, publication of materials, what an
artifact creates in the world.

## Encounter

An action is a whole command: an immediate transaction that names the revision it was
planned on. `body` holds hit points, status and death saves of each combatant, `health`
the actor's own number; `order`, `current`, `economy`, `turns` and `reacted` are the
turn order and the rows of the present round. `team` is the side each combatant was put on
when the encounter was created, one of the constant `Assignments`: the request may put actors
and templates on either side (`encounters-http.ts:25-36`). `Attack`, `Maneuver`, `Stabilize`,
`Flee`, `EndTurn`, `SaveTurn`, `EnemyTurn`, `Power`, `Consumable` and `Leave` (with
opportunity attacks) each end with their own copy of the turn rule. `Elsewhere` and
`LevelUp` change an actor's health outside the combat; `Elsewhere` stops with the encounter,
whose combatants are never prepared again. Dice and the enemies' choice of
target are nondeterministic; a turn of an enemy strikes once or
twice, as the closed table at `rulesets/dnd5e/monsters.ts:112` says, and a move costs the sum of
the reactions to it.

- `CombatIsConsistent`: an active encounter has a current combatant who can act and owns
  the economy row, or is over and can be completed, or is a duel whose one side has fallen
  (`CombatCanGoOn`, `FallenDuel`: the only way in which the three copies of the turn rule
  strand a combat); nobody has two turns in a round; death saves, hit points and status agree;
  the two copies of an actor's hit points are equal, unless a level was gained meanwhile:
  then the health is above, for the rest of the combat (`HealthIsMirrored`, with `raised`).
- `CombatAsDocumented`, the violation: without a current turn one side lives
  (`NoTurnMeansOneSide`), and health is the encounter's hit points (`CombatHealthIsHealth`).
  The run reaches one state in which neither holds, which refutes both (see Findings).
- `FatesAreRespected`: a blow ends an actor's stability; the dead, defeated and fled are
  not touched again.
- `DyingIsResolved`: nobody lies dying for ever, except in a duel that is stranded.

Not modelled: conditions, concentration, temporary hit points, riders, Shield and readied
reactions, map geometry and movement, mixed consumables, reward claims, help and hide
markers, idempotent replays, the legacy create, join and advance commands that no route
issues, other rulesets. Rounds are not counted.

## SceneImages

`jobs` are the rows in order of insertion, `shelf` the stored images, `published` the
selections, `service` the image service's own list. One process owns the sidecar, so
concurrency is one tick suspended at an await (`worker`) against requests that run
meanwhile, each with its retention (`Evicted`, `Pruned`), and a crash. `EnqueueCut` is a
crash between a row and its receipt, before or after the row is linked to stored images;
`ServiceForgets` a service that no longer lists what it took.

- `QueueIsSound`: a published image and the image of a settled single job are stored; a
  cache key is stored once, so no insert meets the UNIQUE constraint; one submission is
  tracked at a time; work the service took is sent again only when a crash interrupted
  its submission.
- `SettledIsFinal`: a suspended tick rewrites no settled row.
- `QueueDrains`: one row never keeps the rest waiting for ever.

'submitted' and 'running' are one state; the order of eviction among unpublished images
is a choice and the byte quota a number of images; a change of settings is a request
that may be refused. Not modelled: revisions of selections and settings (compared inside
one transaction), the cooldown clock, reads, membership, prompts and seeds, replays of
ignored receipts. A service entry that nobody will read is not followed.

## RoleplayChat

Repository calls are synchronous, so a request is interrupted only while it waits for the
model: to route a room, to write, to synthesize the scene. Each action is one stretch
between two such waits. `messages` is the tree in the order of `seq`, `leaf` the active
leaf, `scene` the leaf the derived scene was made from, `lock` and `active` the two fields
of the generation registry, `req` what a request holds in memory (the parent it chose, the
sibling group and number of a swipe). Stop, deletion, cancellation and a lost client run
at any time without the lock; `hushed` records whom they aborted before the model's end.
A request that finds its session deleted fails where it next stores something (`Fails`); a
continuation of a room that was deleted while it was routed asks the model once more before
it does (`interactions.ts:476-496`, `Routed`).

- `SessionIsSound`: whoever waits for the model holds the lock, what can be aborted is
  the stream that holds it, and siblings are numbered apart.
- `AbortedStaysSilent`: an aborted stream stores no reply.
- `TurnsExtendTheBranch`: a reply's parent is the leaf that is active when it is stored,
  though it was chosen before the model was asked.
- `SceneOfBranch`: the derived scene belongs to the branch the reader is on, except while
  an edit is being answered and after a crash.
- `LockIsFreed`: no ending of a generation keeps the session locked.

Not modelled: policy refusals and boundaries, memories, episode summaries, usage events,
manual canon, consent events, provider settings. `MaxMessages` bounds only the admission
of requests.

## Runs and bounds

| run | instance | shows |
|---|---|---|
| `adventure_turn` | 2 proposals, 2 client keys, 1 call, time 0..2, and 4 events: requests, which count twice, and moves of the timeline from outside; fairness | types, five invariants, two action properties, `TurnPromise` is implemented, `ConfirmationResolves` |
| `adventure_turn_awaiting` | 2 proposals, 1 outside command | violation: `AwaitingIsDecidable` |
| `narration_dispatch_safety` | 2 streams of one worker, 1 crash, 1 move of the context, fairness | types, three invariants, three action properties, `NarrationCompletes` |
| `narration_dispatch_hook` | 2 streams, nothing fails | violation: `HookFiresOnce` |
| `turn_planning` | 2 workers over 2 rounds, and 1 over 3, each with a crash and a move; 3 interchangeable calls, 2 usages (below and above the reservation), 2 losses | rounds, settlements, `ClaimsAreSettled`; accounts, overages |
| `campaign_dm` | a beat under two orchestrations with a restart, and with a takeover; a composition of two over a takeover, a moving world and a restart; two beats | beats, authority, `RoomIsFreed` |
| `campaign_dm_resend` | the same, 2 attempts of a call | violation: `AmbiguousNeverRetried` |
| `generation_job` | 2 requests, a content key and a pack key, 3 artifacts in 4 candidates, 3 attempts, 1 crash | drafts, records, `KeyIsFreed` |
| `encounter` | 2 players against a goblin, and a player against the other with the goblin, 2 hit points, damage 0, 1 or 4, 1 level gained | consistency, fates, `DyingIsResolved` |
| `encounter_as_documented` | the same | violation: `CombatAsDocumented` |
| `scene_images` | a single automatic request and a batch of two that shares its picture, shelf and history of one | queue, settled rows, `QueueDrains` |
| `roleplay_chat` | 3 requests over all nine routes, rooms of 2 speakers, 1 crash | session, silence, scene, branch, `LockIsFreed` |

Two proposals are what it takes to have a batch that is decided in part, a mixture of
confirmable and free proposals, a replan beside an execution and a turn linked one
command at a time. Two keys and two requests give a repetition and a conflict.
`Ttl = 1` and time up to 2 put approval, the expiry instant and what follows it on the
clock. Four events are two requests, or one and two moves from outside, or any number
between. Two streams are an owner and one that waits, comes late or recovers; the proofs
have any number of streams, workers, keys and proposals.

`PlanningRounds` and `CampaignDm` have several small instances in one run: the constant
`Limits` is a set of bounds, and `Init` chooses one that never changes, so each of the
interactions (two workers, a restart, a move, a third round; two orchestrations, a
composition, two beats) is explored with the others at their smallest. In `turn_planning` the
rounds and the budget, which share no variable, move in different behaviours: `part`,
chosen by the initial state, says which.

Three calls are a settled one, one in flight and a new one, which is what a rebuilt
budget has to tell apart; the limits are chosen so that two reservations fit and an
overrun does not. Three attempts are a first, a late and a current one. Two keys over
overlapping candidates give two drafts of one canon, a selection that leaves a referenced
artifact out, and a pack that is applied as it is staged. Two hit points and damage 4 give
a blow, a blow at 0 and instant death; three combatants of two sides give every order of
initiative with one player down. Of the two assignments of sides one has a template alone
against the players, the other is the duel. A shelf of one image makes every second image evict, two
pictures in a batch leave it partly done, and two rows over a history of one make pruning
run under a waiting tick. Three requests are one that holds the lock, one refused and one
that comes after.

Counters without a natural bound are capped by constants named `Max...`; `revision` and
`timeline` are bounded by the commands that can happen. Time may pass `MaxTime` while a
claim is live, so that every lease can expire. Deadlock checking is off where the system
really stops: a finished turn, a completed encounter, a queue that is drained, requests
that have all been answered. In `CampaignDm` and `GenerationJob` somebody can always ask
again, and it is on.

## Fairness

Where a fair step is one of many, its fairness is written with the condition under which
it is possible, `[]<>~Possible \/ []<><<Step>>_v`: weak fairness of that step.

- `AdventureTurn`: time passes, and a waiting turn is read (every read expires,
  `adventureTurns.ts:907`). No decision by a player is assumed.
- `NarrationDispatch`: time passes, a stream's own steps go on and a client whose stream
  ended in an error comes back. A provider may stay silent for ever.
- `PlanningRounds`: time passes, a worker inside the loop goes on (a provider answers, fails or
  runs into its timeout), and a client that polls a turn with an orphaned round has it resumed.
- `CampaignDm`: time passes (an outstanding beat becomes late) and people keep asking for the
  next beat. Nobody needs to decide, and no provider to answer.
- `GenerationJob`: leases run out and clients ask for their keys.
- `Encounter`: in a contested combat the turn passes on (players or the game master end
  turns), a dying actor whose turn it is makes its save (it has no other command), and what
  is over is completed. Which command is chosen is open.
- `SceneImages`: the timer ticks and calls end, by an answer or a timeout; the service
  finishes what somebody follows; and among infinitely many calls one is answered with a decision
  (the one strong assumption: the service is neither busy nor unreadable for ever).
- `RoleplayChat`: every model call ends, by an answer, an error or its timeout.

## Findings

1. **A turn that waits and cannot be decided** (`adventure_turn_awaiting`).
   `replanAgentProposal` makes the logical turn `declared` and leaves the row
   `mechanics-committed`. New proposals are admitted there, and a confirmable one makes
   the turn wait; but `confirmation_decisions_guard_insert_v36` admits a decision only
   over a row that is `awaiting-confirmation`. Approval, rejection and expiry are all
   refused, for good. This is why `ConfirmationResolves` names the row's state.
2. **The hook may fire twice** (`narration_dispatch_hook`). The comment at
   `adventureTurns.ts:1011-1012` says `narrationSettledHere` is true only for the
   request that completed the narration. Two streams with the same revision and the
   same fallback text send identical requests under one key, and the second is answered
   with the stored receipt, exactly like a success. The scene-image job the hook
   enqueues has a key of its own, which absorbs the repetition.

3. **A planning call may be billed twice** (`campaign_dm_resend`). After a transport failure
   the director's call is sent again, up to four requests (`campaignDmOrchestrator.ts:154,303`),
   and a transport failure may be a connection that dropped while the answer was read
   (`openAiCompatibleCompletion.ts:589-602`). The comment at `:364` rules out "ambiguous paid
   retries", `docs/provider-hardening.md:92-95` says transport failures "must never be
   automatically retried"; the comments at `:148` and `:161-162` disagree with each other on
   whether such a call reached the provider. What does hold is that all requests of a round
   come from one orchestration (`DispatchedByOne`).
4. **A duel may be stranded** (`encounter_as_documented`). After a consumable the sides with an
   active combatant are counted (`useConsumableRuntime.ts:234`), elsewhere (`turn.ts:16`,
   `rewards.ts:72`) the unconscious and the stable count too. In a duel of two actors, which
   `initiateCombat.ts:281` makes, drinking a potion over a fallen opponent clears the turn: no
   command can act and the combat cannot be completed, although without a turn "a single
   living side" is left by `docs/ai-dungeon-master.md:49`. `CombatCanGoOn` says that no other
   combat is stranded.
5. **A level gained in combat parts health from hit points** (`encounter_as_documented`).
   `characterProgressionWriteRepo.ts:862` raises the actor's health and not the combatant's;
   later changes of that actor's hit points in the combat are refused as not synchronized
   (`combatCompositionPlan.ts:129`), while "Active encounter HP is authoritative" by
   `docs/ROADMAP.md:57`. `HealthIsMirrored` says that no other writer parts them.

Other places where the models follow the code and a document or comment says something
else; no run is about them, the models contain the code's behaviour:

- `adventureTurns.ts:1053`: a stream that ends discards the turn's budget also while another
  stream's call is in flight, whose settlement then throws (`docs/provider-hardening.md:34`);
  `adventureOrchestrator.ts:1906`: a turn whose budget is exhausted goes on to be narrated
  instead of failing (`docs/provider-configuration.md:67`).
- `campaignGenerationRepo.ts:176`: the visibility of a reference is looked up in the candidate
  first, selected or not, so a public artifact can be accepted over a private one of the same
  key that is in the canon (`docs/campaign-generation.md:122`).
- `useConsumableRuntime.ts:351`: a consumable that takes an actor to 0 defeats it instead of
  leaving it unconscious, and `combatPowerRuntime.ts:124`: a power adds no failure to an actor
  at 0 (`docs/srd-5.1-coverage.md:45`).
- `image/service.ts:1272`: a job whose submission a crash interrupted is submitted again
  (`docs/scene-image-integration.md:248`); `:1367`: when one part of a batch fails, the row is
  closed while another part still runs at the service, and the same tick submits the next row
  (comment at `:1426`); `:969`: the automatic limit counts rows, of several images each; `:1456`:
  the cache is consulted when a request is queued and not when it is sent
  (`docs/scene-image-integration.md:101`, `:133`).
- `routes/roleplay/interactions.ts:263`: only streamed generations are aborted by a stop
  (`docs/api.md:833`); `:625`: a cancellation while the scene is synthesized is acknowledged
  although the reply is stored; `:794`: the active leaf and the reset of the scene are two
  statements, and a crash between them leaves the scene of another branch
  (`docs/streaming.md:56`).

## Proofs

All theorems hold for every value of the constants that satisfies the assumptions of
the modules. Bounds are natural numbers and `None` is nothing else; beyond that they
say that a turn has finitely many proposals, as its execution limits guarantee, and
confirmations and leases a positive lifetime (`AdventureTurn`, `NarrationDispatch`);
that there is a run and a key (`CampaignDm`, `GenerationJob`); that a turn has finitely
many calls and a positive completion cap, which `settingsRepo.ts:149` clamps to at least 1
(`TurnBudget`); that a combat has finitely many combatants, each an actor or made from a
template, hit points of at least 1 and blows that cost no negative number (`Encounter`); that
packs are keys, that a batch has a picture (`SceneImages`), and that the routes are the nine
the chat knows.
TLC evaluates them in the runs, and checked each inductive invariant as an invariant of
the component's run before it was proved.

**AdventureTurn.** `Inv == TypeOK /\ Consent /\ Coordination`.
`Consent` adds to `CommitsWereApproved` and `ReplannedNeverRuns` that links are
committed commands: an execution reads the status of a proposal, which looks at links
through receipts, so neither invariant survives a step without it. `Coordination`
joins `RowFollowsEvent`, `NarratesOnlyEvidence`, `MechanicsCommittedMeansLinked`,
`CancelledTurnIsReconciled` and `GivenUpLeavesNothing` (a cancelled or failed turn has
no approved proposal left): the last is what makes `TerminalIsFinal` provable, since a
finished turn with an approved proposal would be resumed. `MechanicsCommittedMeansLinked`
is the one that needs finite cardinalities: the code compares counts, the property
sets. Decisions are a second, separate induction (`DecisionsHold`).

**TurnPromise.** `PromiseIsKept` is the refinement. Besides `Inv` it needs `Planning`:
only confirmable proposals are decided, only approved ones replanned, a committed row
has pending proposals only after a replan, and requests name proposals. `FateTable`
rewrites the mapping as one case distinction; each abstract action has one lemma that
simulates it (`RunSimulated`, `DropSimulated`, ...), and `StepSimulated` has one step
per concrete action.

**NarrationDispatch.** `Inv == TypeOK /\ Claims /\ Ends /\ Honest`.
`Claims` says that whoever is on the way to the provider owns the one claim and holds
a prompt no older than the claim's context; `OneRequest` alone says nothing about a
stream that is about to send. `Ends` ties the stored commands to the turn: a completed
turn has all three commands of its life stored, so no stream can begin, start or
complete it again, which is `NarrationIsFinal`. `Honest` is what `ToldIsStored`
needs: before a claim every text is bare prose; after it, over an unmoved context,
every other text is that of the dispatch or the only text an unsettled dispatch can
still settle on, and only its owner may have that one. Types are not inductive alone:
a finalizing stream reads the text of a settlement, so `TypeStep` assumes `Claims`.
`DispatchStep`, `CallStep` and `CompletedStep` say what any step may do to the
dispatch, the call and a completed turn; the action properties follow from them.

**RoleplayChat.** `Inv == TypeOK /\ LockIsOwned /\ WithinTree /\ Numbered /\ Follows
/\ Silent`. A request writes what it chose before the model was asked, so the invariant says
why the choice is still good when the answer comes: under the lock nobody else moves the leaf
(`Follows`: the anchor of a waiting turn is the active leaf), and the number a streamed swipe
has in hand is still free among its siblings (`Numbered`). `WithinTree` keeps leaf, anchors and groups inside
the tree, without which an appended message could join a group a swipe has in hand. `Silent`
adds to `AbortedStaysSilent` that whoever was aborted in time streams and has its handle aborted,
so its reply is refused when it comes. Steps are of four kinds, a request that begins to wait, a
reply, an end, a rest; a lemma for each kind (`BeginsKeeps`, `RepliesKeeps`, `EndsKeeps`,
`RestsKeeps`) keeps the invariant, one lemma for each action shows its kind, and `Inductive`
combines them. `SceneOfBranch` needs one more invariant, `Summarises`: whoever
synthesizes the scene does it from the active leaf. The branch of a leaf is a recursive
function on the message numbers, of which the provers know nothing: `BranchUnfolds` shows
that the table exists, because a least message at which it did not would have a parent at
which it does, and `BranchStays` and `BranchGoesOn` follow in the same way, that an
appended message leaves every old branch alone and has its parent's branch and itself.

**PlanningRounds.** `Inv == TypeOK /\ Askers /\ Sealers /\ Failers /\ Rows /\
RoundsInOrder`. A worker acts on what it read some steps ago, so the invariant says what
its memory is worth: a claimed round has one asker and nobody else heard its answer
(`Askers`, without which a second request could go out), who seals holds the stored success
(`Sealers`), and who settles over another's claim found the lease expired or the turn over,
neither of which is ever undone (`Failers`; this is `LiveClaimsAreLeftAlone`). `Rows` joins
the claim, the request, the answer, the success and the decision of a round.

**TurnBudget.** The totals are sums over the calls, recursive functions on their subsets.
`SubsetInduction` and `SumUnfolds` (by least counterexamples again) give `SumUpdate`: when
one entry changes, the sum changes by as much. `BudgetInv(p) == TBTypeOK /\ Accounts(p) /\
Balanced(p) /\ Limited(p)` then compares three totals of the process p, what is stored, what is
charged and what was paid. The part that `BudgetIsSound` leaves out is `Limited`'s first
conjunct: what is stored is itself within the limits, so that a budget which was lost and is
rebuilt from it is; and `Accounts`: a call in flight has nothing stored or paid yet, so its
settlement cannot be charged twice. Both theorems assume `OneProcess`, as the code does: two
processes that rebuilt their budgets from the same outcomes may each spend up to the limit.
`TotalsProofs` extends `TurnBudget` together with `Encounter`, which sums the reactions to a
move; the two share no variable, and the names both would have carry a prefix (`TBSpec`).

**Encounter.** `CombatIsConsistent` is about single bodies and about the turn, and so is the
proof. First, each rule of dying takes a body that may be (`Fits`) to one that may be and
`Follows` it: `HurtFollows`, `HurtAllFollows` for the blows of one enemy, `HurtByPowerFollows`,
`HealedFollows`, `GrazedFollows` for any sum of reactions, `ThrownFollows` and so on; here
three copies of the rule of dying are shown to agree. Second, the turn: `NextTurnIsAble`, and
`Passes` and `KeepsTurn`, which every copy of the turn rule goes through. `OneTurnARound` is not
inductive, since a turn passes to the nearest able combatant in the order; `LaterWait` is the
missing part: who comes after the current combatant has had no turn in this round, so only
the wrap that begins a round gives somebody a turn again. `HealthIsMirrored` needs `Unraised`
(only a level lifts a health above the maximum, so a mirrored one fits), and the rules need
`EnemiesStandOrFall` (an enemy never lies dying). `Quiet`, `Fresh` and `Placed` say what a
combat starts from. Each action has one lemma, and proves `Kept`: the invariant afterwards,
and what `FatesAreRespected` says of the step. Sides are any: where the consumable's rule ends a
combat that is not terminal, somebody of each side still lives and nobody of one stands, and the
templates of that side, which never lie dying, are defeated, so two actors face each other
(`FallenDuel`). That nothing moves out of such a state is part of the induction. `GrazedLess`
keeps the gap of a gained level open under the one command that does not mirror.

**CampaignDm.** `Inv == TypeOK /\ Planners /\ (\A r \in Runs : Beat(r)) /\ Room /\
TakeoverIsFinal`. `Planners`: one orchestration plans a run and holds its newest claimed
round. `Beat` ties the rows of a run together; its hard part is that a round which is
claimed or unknown leaves no effects, although a crash, a takeover and a second
orchestration may come between any two of its steps. Its count of requests is that of the
attempts of the one worker that is calling, and no worker calls a round that another claimed,
which is `DispatchedByOne`. `Room` is why a room is opened once:
of two open beats one is over. A step is about one beat, so `Ends` is the shape of
those that finish or keep it, and the others have a lemma each.

**GenerationJob.** `Inv == TypeOK /\ (\A k \in Keys : Account(k)) /\ InOrder /\
CanonIsClosed`. `Account` is the book of a key: attempts before the current one are
recorded and were acknowledged, those after it were not begun, the current one is as the
job says, and no attempt was called twice. Nothing is assumed of the requests under way: a
late one is refused by what it finds in the rows. `InOrder` (the i-th applied draft was
made when i - 1 were applied) is what makes `NoDraftOverAnother` inductive.

**SceneImages.** `Inv == Typed /\ Holds /\ Follows /\ Sent /\ PublishedIsStored /\
SingleImageIsStored /\ StoredOnce`. A tick is suspended while requests evict images and
forget rows; `Holds` is what is still true of its row when it goes on: a row it sends is
queued and nothing else is followed, a row it polls is followed, the picture it downloads is
not on the shelf. `Follows` is `OneTracked` as states, with the entries the service has for the row;
`Sent` counts them: a queued row that no crash cut has none, unless its answer is awaited,
which makes `SubmittedOnce` (a division of cardinalities) provable. Rows are numbered
in the order of insertion and never reused, so an eviction ages rows and revives none.

| module | theorem | property |
|---|---|---|
| `AdventureTurnProofs` | `TypeCorrect`, `ConsentBeforeMechanics`, `RowNeverTrails`, `NarrationHasEvidence`, `MechanicsAreAccountedFor`, `FinishedTurnsStay`, `DecisionsAreKept`, `ClockSeparates` | every safety property of `adventure_turn` |
| `AdventureTurnProofs` | `PromiseIsKept` | `KeepsPromise` |
| `NarrationDispatchProofs` | `TypeCorrect`, `AtMostOneRequest`, `DispatchIsALock`, `LateAnswersAlwaysLose`, `OutcomeIsTheDispatchs`, `NarrationStaysFinal`, `ClientsHearTheNarration` | every safety property of `narration_dispatch_safety` |
| `PlanningRoundsProofs` | `RoundsSound`, `SettlementsSound` | `RoundsAreSound`, `SettlementsAreSound` of `turn_planning` |
| `TotalsProofs` | `BudgetSound`, `OverageStops` (for one process) | `BudgetIsSound`, `OverageStopsDispatches` of `turn_planning` |
| `TotalsProofs` | `CombatSound`, `FatesRespected` | every safety property of `encounter` |
| `CampaignDmProofs` | `BeatsSound`, `AuthorityCurrent` | every safety property of `campaign_dm` |
| `GenerationJobProofs` | `DraftsSound`, `RecordsKept` | every safety property of `generation_job` |
| `SceneImagesProofs` | `QueueSound`, `SettledFinal` | every safety property of `scene_images` |
| `RoleplayChatProofs` | `SessionSound`, `AbortedSilent`, `TurnsExtend`, `SceneIsOfBranch` | every safety property of `roleplay_chat` |

Every safety property that a passing run checks, invariant or action property, and the
refinement are theorems. Only model-checked: the liveness properties, `ConfirmationResolves`,
`NarrationCompletes`, `ClaimsAreSettled`, `RoomIsFreed`, `KeyIsFreed`, `DyingIsResolved`,
`QueueDrains` and `LockIsFreed` (the prover does not handle fairness and ENABLED), and the four
violations, which are counterexamples.

## Hazards without a property

`adventureTurns.ts:778`: when the public context moves after a settlement, the outcome of the
started provider call is never recorded; no later state depends on it. `write.ts:786`: a change
of the campaign's administration revision makes every later command of an open turn stale; that
revision is constant in `AdventureTurn`. `image/service.ts:1245`: a batch may settle naming an
image that a request evicted meanwhile, which `SingleImageIsStored` excludes on purpose.
`conditions.ts:174`: successes of death saves are kept after an actor becomes stable, which
changes nothing a later command reads.

## Plan

1. `ExactCandidate` and derivative turns: issue, select, execute, supersede; a retry of the
   narration leaves mechanics alone. They complete the coordination of turns.
2. Economy (conservation under retries), presence and journeys (the route search against a
   reference definition), quests (a reward once), actor resources and rests.

## Not modelled

The components of "What stays outside", and the details each section names. The world's rules
(content data, character arithmetic, prices) are tables and formulas whose checks would restate
them; the client renders; the providers are nondeterministic answers; hashes of verifiable dice
are identities to a model checker. Most of the repository's lines are of these kinds (React
components, routes that parse and format, scripts, catalog data), so the models cover a small
share of the lines and most of the concurrent, durable and paid behaviour.
