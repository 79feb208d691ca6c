----------------------------- MODULE CampaignDm -----------------------------
(***************************************************************************)
(* The campaign director: the beats of one room, planned by a model under  *)
(* a human's or a delegated (AI) authority, approved, executed as a        *)
(* composition of up to MaxEffects effects and narrated.                   *)
(*   src/server/src/repo/campaignDmRepo.ts                                 *)
(*   src/server/src/agent/campaignDmOrchestrator.ts                        *)
(*                                                                         *)
(* A repository call is one step: the database driver is synchronous, so   *)
(* only an await lets another request in. A composition of an AI run is    *)
(* several transactions in one synchronous stretch: nothing interleaves    *)
(* with it, but a crash can cut it short.                                  *)
(*                                                                         *)
(* Abstracted: candidates are counted, not named (a proposal is the        *)
(* length of its composition); everything the freshness digest and the     *)
(* narration guard cover is one counter, world; session, membership,       *)
(* timeline and safety pause are one flag, open.                           *)
(***************************************************************************)
EXTENDS Naturals, FiniteSets

CONSTANTS
  Runs,          \* run ids, opened one at a time
  Workers,       \* concurrent orchestrations of the process
  LastRound,     \* the forced planning round (two in the code)
  MaxEffects,    \* longest composition (three in the code)
  MaxAttempts,   \* dispatch attempts of one planning call (four in the code)
  MaxWorld,      \* bound: changes of the world
  MaxRevision,   \* bound: changes of the control revision
  MaxCrashes,    \* bound: restarts of the server
  Limits         \* the bounds a behaviour may choose, within those above

Bounds == [runs : SUBSET Runs, workers : SUBSET Workers, effects : 1 .. MaxEffects,
           attempts : 1 .. MaxAttempts, world : 0 .. MaxWorld,
           revision : 0 .. MaxRevision, crashes : 0 .. MaxCrashes]

ASSUME DmAssumption ==
  /\ Runs # {}
  /\ MaxEffects \in Nat \ {0} /\ LastRound \in Nat \ {0}
  /\ MaxAttempts \in Nat \ {0}
  /\ MaxWorld \in Nat /\ MaxRevision \in Nat /\ MaxCrashes \in Nat
  /\ Limits \subseteq Bounds

VARIABLES
  control,   \* dm_control: the mode and its revision
  open,      \* the session is active, unpaused, on its timeline
  world,     \* what the freshness digest and the narration guard hash
  run,       \* dm_runs with dm_decisions and the receipts' count
  job,       \* dm_narration_jobs: the guard it was queued under, or NoJob
  planned,   \* dm_dispatches (round 0) and dm_planning_rounds: their status
  scene,     \* dm_narration_dispatches: its status and source
  overdue,   \* the claims past their deadline: <<run, round or Narration>>
  worker,    \* the orchestrations in flight
  requests,  \* HTTP requests sent to the provider for each run and round
  applied,   \* how often each effect of a run was committed
  crashes,   \* restarts so far
  limits     \* the bounds of this behaviour; they never change

vars == <<control, open, world, run, job, planned, scene, overdue, worker,
          requests, applied, crashes, limits>>

Rounds == 0 .. LastRound
Narration == LastRound + 1   \* the claim of the narration call
Effects == 1 .. MaxEffects
NoJob == MaxWorld + 1
\* The requests of one round: all of them, and those that were sent although
\* the answer to the one before was lost on its way, perhaps billed already.
RequestCount == [sent : Nat, resent : Nat]
Unsent == [sent |-> 0, resent |-> 0]
Modes == {"human", "ai"}
Outstandings == {"planning", "awaiting-approval"}
States == Outstandings \cup {"none", "completed", "blocked", "cancelled", "unknown"}
Candidates == {"none", "blockers", "preferred", "some"}
Decisions == {"none", "human-approved", "human-rejected", "ai-policy-v1"}

Unopened == [state |-> "none", intent |-> "continue", mode |-> "human", revision |-> 0,
             fresh |-> 0, late |-> FALSE, cands |-> "none", choice |-> 0,
             decided |-> "none", effects |-> 0]

\* An orchestration with nothing to do.
Idle == [pc |-> "idle", run |-> CHOOSE r \in Runs : TRUE, round |-> 0, attempts |-> 0]

Init ==
  /\ control = [mode |-> "human", revision |-> 0]
  /\ open = TRUE
  /\ world = 0
  /\ run = [r \in Runs |-> Unopened]
  /\ job = [r \in Runs |-> NoJob]
  /\ planned = [r \in Runs |-> [k \in Rounds |-> "none"]]
  /\ scene = [r \in Runs |-> "none"]
  /\ overdue = {}
  /\ worker = [w \in Workers |-> Idle]
  /\ requests = [r \in Runs |-> [k \in Rounds |-> Unsent]]
  /\ applied = [r \in Runs |-> [i \in Effects |-> 0]]
  /\ crashes = 0
  /\ limits \in Limits

-----------------------------------------------------------------------------
(* What the repository reads.                                              *)

Outstanding(r) == run[r].state \in Outstandings
Queued(r) == job[r] # NoJob

\* active(): the run's authority is the current one and the room is live.
Active(r) ==
  /\ control.mode = run[r].mode
  /\ control.revision = run[r].revision
  /\ open

Fresh(r) == world = run[r].fresh

\* stop(): only an outstanding run is stopped, and only once.
Stopped(r, state) == [run EXCEPT ![r].state = IF @ \in Outstandings THEN state ELSE @]

\* queueNarration(): the job's guard is the scene it was queued in.
NarrationQueued(r, guard) == [job EXCEPT ![r] = guard]

\* The worker w goes on at pc; after reads it remembers their round.
Goto(w, pc) ==
  worker' = [worker EXCEPT ![w].pc = pc, ![w].attempts = 0,
                           ![w].round = IF pc = "reads" THEN @ ELSE 0]
Done(w) == worker' = [worker EXCEPT ![w] = Idle]

-----------------------------------------------------------------------------
(* Control, time and the rest of the table.                                *)

\* Mutant: the runs planned before the takeover are left to active().
SetDmControlOnly(mode) ==
  /\ control.revision < limits.revision
  /\ control' = [mode |-> mode, revision |-> control.revision + 1]
  /\ UNCHANGED <<open, world, run, job, planned, scene, overdue, worker, requests, applied, crashes>>

\* setDmControl(), and the triggers of a delegator's demotion or removal:
\* the revision moves and every outstanding run of the campaign is cancelled.
SetDmControl(mode) ==
  /\ control.revision < limits.revision
  /\ control' = [mode |-> mode, revision |-> control.revision + 1]
  /\ run' = [r \in Runs |-> IF Outstanding(r) THEN [run[r] EXCEPT !.state = "cancelled"]
                            ELSE run[r]]
  /\ UNCHANGED <<open, world, job, planned, scene, overdue, worker, requests, applied, crashes>>

\* Safety pauses and resumes, a session stops and starts (another component).
SetOpen ==
  /\ open' = ~open
  /\ UNCHANGED <<control, world, run, job, planned, scene, overdue, worker,
                 requests, applied, crashes>>

\* A player's command moves what the digests hash (another component).
Play ==
  /\ world < limits.world
  /\ world' = world + 1
  /\ UNCHANGED <<control, open, run, job, planned, scene, overdue, worker,
                 requests, applied, crashes>>

\* Thirty minutes pass over a run; a claim's deadline passes.
RunExpires(r) ==
  /\ Outstanding(r) /\ ~run[r].late
  /\ run' = [run EXCEPT ![r].late = TRUE]
  /\ UNCHANGED <<control, open, world, job, planned, scene, overdue, worker,
                 requests, applied, crashes>>

ClaimExpires(r, k) ==
  /\ IF k = Narration THEN scene[r] = "claimed" ELSE planned[r][k] = "claimed"
  /\ Outstanding(r) /\ <<r, k>> \notin overdue
  /\ overdue' = overdue \cup {<<r, k>>}
  /\ UNCHANGED <<control, open, world, run, job, planned, scene, worker,
                 requests, applied, crashes>>

\* The process stops between two steps: the orchestrations are gone, the
\* database is as they left it.
Crash ==
  /\ crashes < limits.crashes
  /\ \E w \in Workers : worker[w] # Idle
  /\ crashes' = crashes + 1
  /\ worker' = [w \in Workers |-> Idle]
  /\ UNCHANGED <<control, open, world, run, job, planned, scene, overdue,
                 requests, applied>>

-----------------------------------------------------------------------------
(* openDmBeat(): one outstanding run per room. A dead one is stopped here. *)

\* Mutant: only a revoked beat or an overdue first dispatch gives way.
DisplacedDispatch(r) ==
  CASE ~Active(r) -> "cancelled"
    [] Active(r) /\ planned[r][0] = "claimed" /\ <<r, 0>> \in overdue -> "unknown"
    [] OTHER -> "none"

\* How the beat that holds the room is stopped; "none": it holds it.
Displaced(r) ==
  CASE ~Active(r) -> "cancelled"
    [] Active(r) /\ planned[r][0] = "claimed" /\ <<r, 0>> \in overdue -> "unknown"
    [] Active(r) /\ ~(planned[r][0] = "claimed" /\ <<r, 0>> \in overdue)
         /\ run[r].late -> "cancelled"
    [] OTHER -> "none"

Priors == {r \in Runs : Outstanding(r)}

\* Mutant: the room's earlier opening is not looked up.
MayOpenUnheld(intent) == \A p \in Priors : Displaced(p) # "none"

\* The request's conflicts: the room is held, or it was opened before.
MayOpen(intent) ==
  /\ \A p \in Priors : Displaced(p) # "none"
  /\ intent = "open" =>
       ~\E r \in Runs : run[r].intent = "open" /\ run[r].state = "completed"

OpenDmBeat(r, intent, cands) ==
  /\ r \in limits.runs /\ run[r].state = "none"
  /\ MayOpen(intent)
  /\ cands = "preferred" => control.mode = "ai"
  /\ run' = [q \in Runs |->
       IF q = r
         THEN [Unopened EXCEPT !.state = IF open THEN "planning" ELSE "blocked",
                               !.intent = intent, !.cands = cands, !.fresh = world,
                               !.mode = control.mode, !.revision = control.revision]
         ELSE IF Outstanding(q) /\ Displaced(q) # "none"
           THEN [run[q] EXCEPT !.state = Displaced(q)] ELSE run[q]]
  /\ planned' = [q \in Runs |->
       IF Outstanding(q) /\ Displaced(q) = "unknown" THEN [planned[q] EXCEPT ![0] = "unknown"]
       ELSE planned[q]]
  /\ UNCHANGED <<control, open, world, job, scene, overdue, worker, requests, applied, crashes>>

-----------------------------------------------------------------------------
(* execute(): the composition of an approved or delegated run.             *)

\* Mutant: a receipt of an earlier pass is replaced.
CommittableAgain(r) == 0 .. run[r].choice

\* The effects a run may still commit in this pass: a receipt's ordinal is
\* unique (dm_composition_receipts_replace), so a second pass commits none.
Committable(r) == 0 .. (IF run[r].effects = 0 THEN run[r].choice ELSE 0)

\* Mutant: what was committed before a failure is narrated as the beat.
ComposedPartly(r, decided, n, moved, end) ==
  /\ end \in {"queued", "failed", "cut"}
  /\ n \in Committable(r)
  /\ end = "queued" => n > 0
  /\ moved => n > 0 /\ world < limits.world
  /\ world' = IF moved THEN world + 1 ELSE world
  /\ applied' = [applied EXCEPT ![r] =
                   [i \in Effects |-> IF i <= n THEN @[i] + 1 ELSE @[i]]]
  /\ run' = [run EXCEPT ![r].decided = decided,
                        ![r].effects = IF @ > n THEN @ ELSE n,
                        ![r].state = IF end = "failed" THEN "blocked" ELSE @]
  /\ job' = IF end = "queued" THEN NarrationQueued(r, world') ELSE job

\* The pass commits the first n candidates; the world moves with them or not
\* (an ambient beat moves nothing). All of them: the narration is queued,
\* unless that throws; fewer: the next one's preconditions have changed. Cut
\* short by a crash, the pass leaves the run as it is.
Composed(r, decided, n, moved, end) ==
  /\ end \in {"queued", "failed", "cut"}
  /\ n \in Committable(r)
  /\ end = "queued" => n = run[r].choice
  /\ moved => n > 0 /\ world < limits.world
  /\ world' = IF moved THEN world + 1 ELSE world
  /\ applied' = [applied EXCEPT ![r] =
                   [i \in Effects |-> IF i <= n THEN @[i] + 1 ELSE @[i]]]
  /\ run' = [run EXCEPT ![r].decided = decided,
                        ![r].effects = IF @ > n THEN @ ELSE n,
                        ![r].state = IF end = "failed" THEN "blocked" ELSE @]
  /\ job' = IF end = "queued" THEN NarrationQueued(r, world') ELSE job

\* There is something to execute: the run waits and has no narration yet.
Executable(r) == run[r].state = "awaiting-approval" /\ ~Queued(r)
\* Mutant: a fresh digest is taken for a current authority.
RefusalOfStale(r) ==
  IF run[r].late THEN "cancelled" ELSE IF ~Fresh(r) THEN "blocked" ELSE "none"
\* execute() ends the run instead.
Refusal(r) ==
  IF ~Active(r) \/ run[r].late THEN "cancelled" ELSE IF ~Fresh(r) THEN "blocked" ELSE "none"
Decided(r) == run[r].mode = "ai" \/ run[r].decided = "human-approved"
Decision(r) == IF run[r].mode = "ai" THEN "ai-policy-v1" ELSE run[r].decided

\* Where a worker goes after executeDmBeat(): at the start of a beat it plans
\* if the run is still to be planned, else it narrates.
AfterExecute(w) ==
  LET r == worker[w].run
  IN IF worker[w].pc = "resume" /\ run[r].state = "planning" /\ ~Queued(r)
       THEN "settings" ELSE "narrate"

ExecuteNothing(w) ==
  LET r == worker[w].run
  IN /\ worker[w].pc \in {"resume", "execute"}
     /\ ~Executable(r) \/ (Refusal(r) = "none" /\ ~Decided(r))
     /\ Goto(w, AfterExecute(w))
     /\ UNCHANGED <<control, open, world, run, job, planned, scene, overdue,
                    requests, applied, crashes>>

ExecuteRefused(w) ==
  LET r == worker[w].run
  IN /\ worker[w].pc \in {"resume", "execute"}
     /\ Executable(r) /\ Refusal(r) # "none"
     /\ run' = Stopped(r, Refusal(r))
     /\ Goto(w, "narrate")
     /\ UNCHANGED <<control, open, world, job, planned, scene, overdue,
                    requests, applied, crashes>>

ExecuteComposition(w, n, moved, end) ==
  LET r == worker[w].run
  IN /\ worker[w].pc \in {"resume", "execute"}
     /\ Executable(r) /\ Refusal(r) = "none" /\ Decided(r)
     /\ Composed(r, Decision(r), n, moved, end)
     /\ IF end = "cut"
          THEN /\ crashes < limits.crashes
               /\ crashes' = crashes + 1
               /\ worker' = [v \in Workers |-> Idle]
          ELSE /\ Goto(w, "narrate")
               /\ UNCHANGED crashes
     /\ UNCHANGED <<control, open, planned, scene, overdue, requests>>

\* decideDmBeat(): the decision and the execution are one transaction, which
\* a crash undoes.
Decidable(r) == run[r].mode = "human" /\ Executable(r) /\ run[r].decided = "none"

DecideRefused(r) ==
  /\ Decidable(r)
  /\ \/ Refusal(r) = "cancelled" /\ run' = Stopped(r, "cancelled")
     \/ /\ Refusal(r) # "cancelled"
        /\ run' = [run EXCEPT ![r].decided = "human-rejected", ![r].state = "cancelled"]
     \/ /\ Refusal(r) = "blocked"
        /\ run' = [run EXCEPT ![r].decided = "human-approved", ![r].state = "blocked"]
  /\ UNCHANGED <<control, open, world, job, planned, scene, overdue, worker,
                 requests, applied, crashes>>

DecideApproved(r, n, moved, end) ==
  /\ Decidable(r) /\ Refusal(r) = "none"
  /\ end # "cut"
  /\ Composed(r, "human-approved", n, moved, end)
  /\ UNCHANGED <<control, open, planned, scene, overdue, worker, requests, crashes>>

-----------------------------------------------------------------------------
(* planCampaignDmBeat(): one claim for each round of planning.             *)

\* A request runs the beat: open, a decision and resume all end here.
Orchestrate(w, r) ==
  /\ w \in limits.workers /\ worker[w] = Idle
  /\ Outstanding(r)
  /\ worker' = [worker EXCEPT ![w] =
       [Idle EXCEPT !.pc = IF Queued(r) THEN "narrate" ELSE "resume", !.run = r]]
  /\ UNCHANGED <<control, open, world, run, job, planned, scene, overdue,
                 requests, applied, crashes>>

\* The provider's settings cannot be read: blockDmBeat().
SettingsUnavailable(w) ==
  /\ worker[w].pc = "settings"
  /\ run' = Stopped(worker[w].run, "blocked")
  /\ Goto(w, "narrate")
  /\ UNCHANGED <<control, open, world, job, planned, scene, overdue, requests, applied, crashes>>

\* claimDmPlanning(): what it does to a run instead of claiming its round 0.
PlanningSettled(r) ==
  \/ /\ run[r].state # "planning" \/ Queued(r)
     /\ UNCHANGED <<run, job, planned>>
  \/ /\ run[r].state = "planning" /\ ~Queued(r)
     /\ \/ /\ ~Active(r) \/ run[r].late
           /\ run' = Stopped(r, "cancelled")
           /\ UNCHANGED <<job, planned>>
        \/ /\ Active(r) /\ ~run[r].late /\ planned[r][0] # "none"
           /\ IF planned[r][0] = "claimed" /\ <<r, 0>> \in overdue
                THEN /\ run' = Stopped(r, "unknown")
                     /\ planned' = [planned EXCEPT ![r][0] = "unknown"]
                ELSE UNCHANGED <<run, planned>>
           /\ UNCHANGED job
        \/ /\ Active(r) /\ ~run[r].late /\ planned[r][0] = "none"
           /\ \/ /\ run[r].cands = "none"
                 /\ job' = NarrationQueued(r, world)
                 /\ UNCHANGED run
              \/ /\ run[r].cands = "blockers"
                 /\ run' = Stopped(r, "blocked")
                 /\ UNCHANGED job
              \/ /\ run[r].cands = "preferred"
                 /\ run' = [run EXCEPT ![r].state = "awaiting-approval", ![r].choice = 1]
                 /\ UNCHANGED job
           /\ UNCHANGED planned

\* Mutant: the round's earlier claim is not looked up.
ClaimableAgain(r, k) ==
  /\ run[r].state = "planning" /\ ~Queued(r)
  /\ Active(r) /\ ~run[r].late

\* The room for a claim of round k: nothing decided, stopped or claimed.
Claimable(r, k) ==
  /\ run[r].state = "planning" /\ ~Queued(r)
  /\ planned[r][k] = "none"
  /\ Active(r) /\ ~run[r].late

ClaimDmPlanning(w) ==
  LET r == worker[w].run
  IN /\ worker[w].pc = "settings"
     /\ \/ PlanningSettled(r) /\ Goto(w, "execute")
        \/ /\ Claimable(r, 0) /\ run[r].cands \in {"preferred", "some"}
           /\ planned' = [planned EXCEPT ![r][0] = "claimed"]
           /\ Goto(w, "claimed")
           /\ UNCHANGED <<run, job>>
     /\ UNCHANGED <<control, open, world, scene, overdue, requests, applied, crashes>>

\* The request is over the budget and is never sent: blockDmBeat() settles
\* the claim of round 0.
OverBudget(w) ==
  LET r == worker[w].run
  IN /\ worker[w].pc = "claimed"
     /\ run' = Stopped(r, "blocked")
     /\ planned' = [planned EXCEPT ![r][0] = IF @ = "claimed" THEN "settled" ELSE @]
     /\ Goto(w, "narrate")
     /\ UNCHANGED <<control, open, world, job, scene, overdue, requests, applied, crashes>>

\* The call of round k leaves for the provider.
Sent(w, k) ==
  /\ requests' = [requests EXCEPT ![worker[w].run][k].sent = @ + 1]
  /\ worker' = [worker EXCEPT ![w].pc = "calling", ![w].round = k, ![w].attempts = 1]

BindDmProviderRequest(w) ==
  LET r == worker[w].run
  IN /\ worker[w].pc = "claimed"
     /\ IF \/ planned[r][0] # "claimed" \/ run[r].state # "planning"
           \/ ~Active(r) \/ <<r, 0>> \in overdue
          THEN run' = Stopped(r, "cancelled") /\ Goto(w, "narrate") /\ UNCHANGED requests
          ELSE Sent(w, 0) /\ UNCHANGED run
     /\ UNCHANGED <<control, open, world, job, planned, scene, overdue, applied, crashes>>

\* claimDmPlanningRound(), after a round of reads; without a claim the beat is
\* blocked.
ClaimDmPlanningRound(w) ==
  LET r == worker[w].run
      k == worker[w].round + 1
  IN /\ worker[w].pc = "reads"
     /\ \/ /\ Claimable(r, k)
           /\ planned' = [planned EXCEPT ![r][k] = "claimed"]
           /\ Sent(w, k)
           /\ UNCHANGED run
        \/ /\ run' = IF run[r].state = "planning" /\ ~Queued(r) /\ planned[r][k] = "none"
                        /\ ~Claimable(r, k)
                       THEN Stopped(r, "cancelled") ELSE Stopped(r, "blocked")
           /\ Goto(w, "narrate")
           /\ UNCHANGED <<planned, requests>>
     /\ UNCHANGED <<control, open, world, job, scene, overdue, applied,
                    crashes>>

\* The request of w's round is sent once more; after a transport failure it is
\* sent although the provider may have answered.
Resent(w, failure) ==
  /\ worker' = [worker EXCEPT ![w].attempts = @ + 1]
  /\ requests' = [requests EXCEPT
       ![worker[w].run][worker[w].round] =
         [sent |-> @.sent + 1,
          resent |-> IF failure = "transport" THEN @.resent + 1 ELSE @.resent]]

\* Mutant: the last attempt is not counted.
RetryOnceMore(w, failure) ==
  /\ worker[w].pc = "calling"
  /\ worker[w].attempts <= limits.attempts
  /\ Resent(w, failure)
  /\ UNCHANGED <<control, open, world, run, job, planned, scene, overdue,
                 applied, crashes>>

\* dispatchWithUnbilledRetry(): an attempt that was refused (a 400, 404 or 422,
\* never billed) or whose transport failed (perhaps after the completion) is
\* made again; any other failure goes to the settlement.
Retry(w, failure) ==
  /\ worker[w].pc = "calling"
  /\ worker[w].attempts < limits.attempts
  /\ Resent(w, failure)
  /\ UNCHANGED <<control, open, world, run, job, planned, scene, overdue,
                 applied, crashes>>

\* finalizePlanning() and the end of settleDmPlanning(): the proposal n, or a
\* hold for n = 0, reaches a run that still plans under the same authority in
\* the same world.
Finalized(r, n) ==
  IF run[r].state # "planning" THEN UNCHANGED <<run, job>>
  ELSE IF ~Active(r) THEN run' = Stopped(r, "cancelled") /\ UNCHANGED job
  ELSE IF ~Fresh(r) THEN run' = Stopped(r, "blocked") /\ UNCHANGED job
  ELSE IF n = 0 THEN job' = NarrationQueued(r, world) /\ UNCHANGED run
  ELSE /\ run' = [run EXCEPT ![r].state = "awaiting-approval", ![r].choice = n]
       /\ UNCHANGED job

\* settleDmPlanning() and settleDmPlanningRound(): the end of a call.
\* "retriable" is a deterministic refusal, "unknown" any other failure.
Failed(r, k, reply) == reply \in {"retriable", "unknown"} \/ <<r, k>> \in overdue

\* Mutant: a refusal is recorded and the run left to be planned again.
SettledQuietly(r, k, reply, n) ==
  IF planned[r][k] # "claimed" THEN UNCHANGED <<run, job, planned>>
  ELSE IF Failed(r, k, reply)
    THEN /\ planned' = [planned EXCEPT ![r][k] = "unknown"]
         /\ run' = IF reply = "retriable" THEN run ELSE Stopped(r, "unknown")
         /\ UNCHANGED job
    ELSE /\ planned' = [planned EXCEPT ![r][k] = "settled"]
         /\ IF reply = "reads" THEN UNCHANGED <<run, job>> ELSE Finalized(r, n)

Settled(r, k, reply, n) ==
  IF planned[r][k] # "claimed" THEN UNCHANGED <<run, job, planned>>
  ELSE IF Failed(r, k, reply)
    THEN /\ planned' = [planned EXCEPT ![r][k] = "unknown"]
         /\ run' = Stopped(r, IF reply = "retriable" THEN "blocked" ELSE "unknown")
         /\ UNCHANGED job
    ELSE /\ planned' = [planned EXCEPT ![r][k] = "settled"]
         /\ IF reply = "reads" THEN UNCHANGED <<run, job>> ELSE Finalized(r, n)

\* What the orchestrator makes of the answer. Reads are not offered to the
\* forced round, nor given to a run that no longer plans.
Understood(r, k, reply) ==
  CASE reply = "reads" /\ k = LastRound -> "choice"
    [] reply = "reads" /\ k # LastRound /\ run[r].state # "planning" -> "unknown"
    [] OTHER -> reply

SettleDmPlanning(w, reply, n) ==
  LET r == worker[w].run
      k == worker[w].round
      heard == Understood(r, k, reply)
  IN /\ worker[w].pc = "calling"
     /\ reply \in {"reads", "choice", "retriable", "unknown"}
     /\ n \in IF reply = "choice" THEN 0 .. limits.effects ELSE {0}
     /\ Settled(r, k, heard, n)
     /\ Goto(w, CASE heard = "reads" -> "reads"
                  [] heard = "choice" -> "execute"
                  [] OTHER -> "narrate")
     /\ UNCHANGED <<control, open, world, scene, overdue, requests, applied, crashes>>

\* The fence of orchestrateCampaignDmBeat(): an unexpected failure blocks a
\* beat that has no narration to recover.
Fence(w) ==
  LET r == worker[w].run
  IN /\ worker[w].pc \in {"settings", "claimed", "reads", "narrate"}
     /\ run' = IF Queued(r) THEN run ELSE Stopped(r, "blocked")
     /\ Done(w)
     /\ UNCHANGED <<control, open, world, job, planned, scene, overdue,
                    requests, applied, crashes>>

-----------------------------------------------------------------------------
(* The narration of a beat.                                                *)

\* getDmNarrationWork(): the ways it ends the run, or publishes the sealed
\* narration (an overdue claim is sealed as the fallback first).
Narratable(r) == Queued(r) /\ Outstanding(r)
SceneUnchanged(r) == world = job[r]
Sealed(r) == scene[r] \in {"fallback", "assisted"} \/ <<r, Narration>> \in overdue

\* Mutant: a sealed narration is published on recovery as it is.
NarratedSealed(r) ==
  IF ~Narratable(r) THEN UNCHANGED <<run, scene>>
  ELSE IF Sealed(r)
    THEN /\ scene' = [scene EXCEPT ![r] = IF @ = "claimed" THEN "fallback" ELSE @]
         /\ run' = [run EXCEPT ![r].state = "completed"]
  ELSE IF ~Active(r) THEN run' = Stopped(r, "cancelled") /\ UNCHANGED scene
  ELSE IF ~SceneUnchanged(r) THEN run' = Stopped(r, "blocked") /\ UNCHANGED scene
  ELSE UNCHANGED <<run, scene>>

Narrated(r) ==
  IF ~Narratable(r) THEN UNCHANGED <<run, scene>>
  ELSE IF ~Active(r) THEN run' = Stopped(r, "cancelled") /\ UNCHANGED scene
  ELSE IF ~SceneUnchanged(r) THEN run' = Stopped(r, "blocked") /\ UNCHANGED scene
  ELSE IF Sealed(r)
    THEN /\ scene' = [scene EXCEPT ![r] = IF @ = "claimed" THEN "fallback" ELSE @]
         /\ run' = [run EXCEPT ![r].state = "completed"]
  ELSE UNCHANGED <<run, scene>>

\* There is a narration to be made.
NarrationWork(r) ==
  Narratable(r) /\ Active(r) /\ SceneUnchanged(r) /\ scene[r] = "none"

GetDmNarrationWork(w) ==
  LET r == worker[w].run
  IN /\ worker[w].pc \in {"narrate", "publish"}
     /\ Narrated(r)
     /\ IF worker[w].pc = "narrate" /\ NarrationWork(r) THEN Goto(w, "provider") ELSE Done(w)
     /\ UNCHANGED <<control, open, world, job, planned, overdue, requests, applied, crashes>>

ClaimDmNarration(w) ==
  LET r == worker[w].run
  IN /\ worker[w].pc = "provider"
     /\ IF NarrationWork(r)
          THEN /\ scene' = [scene EXCEPT ![r] = "claimed"]
               /\ Goto(w, "scene")
               /\ UNCHANGED run
          ELSE Narrated(r) /\ Done(w)
     /\ UNCHANGED <<control, open, world, job, planned, overdue, requests, applied, crashes>>

\* settleDmNarration() without a claim: no settings, or over the budget.
SettleUnclaimed(w) ==
  LET r == worker[w].run
  IN /\ worker[w].pc = "provider"
     /\ scene' = [scene EXCEPT ![r] = IF @ = "none" THEN "fallback" ELSE @]
     /\ Goto(w, "publish")
     /\ UNCHANGED <<control, open, world, run, job, planned, overdue, requests, applied, crashes>>

\* The narration's call is sent a second time, too, when the transport failed:
\* both tries lie within this step, and `requests' counts the planning alone.
SettleDmNarration(w, valid) ==
  LET r == worker[w].run
  IN /\ worker[w].pc = "scene"
     /\ valid \in BOOLEAN
     /\ scene' = [scene EXCEPT ![r] =
          IF @ # "claimed" THEN @
          ELSE IF valid /\ <<r, Narration>> \notin overdue /\ Active(r)
            THEN "assisted" ELSE "fallback"]
     /\ Goto(w, "publish")
     /\ UNCHANGED <<control, open, world, run, job, planned, overdue, requests, applied, crashes>>

-----------------------------------------------------------------------------
WorkerStep(w) ==
  \/ ExecuteNothing(w) \/ ExecuteRefused(w)
  \/ \E n \in 0 .. MaxEffects, moved \in BOOLEAN, end \in {"queued", "failed", "cut"} :
       ExecuteComposition(w, n, moved, end)
  \/ SettingsUnavailable(w) \/ ClaimDmPlanning(w)
  \/ OverBudget(w) \/ BindDmProviderRequest(w) \/ ClaimDmPlanningRound(w)
  \/ \E failure \in {"refused", "transport"} : Retry(w, failure)
  \/ \E reply \in {"reads", "choice", "retriable", "unknown"}, n \in 0 .. MaxEffects :
       SettleDmPlanning(w, reply, n)
  \/ Fence(w)
  \/ GetDmNarrationWork(w) \/ ClaimDmNarration(w) \/ SettleUnclaimed(w)
  \/ \E valid \in BOOLEAN : SettleDmNarration(w, valid)

Requested ==
  \/ \E mode \in Modes : SetDmControl(mode)
  \/ \E r \in Runs, intent \in {"open", "continue"}, cands \in Candidates :
       OpenDmBeat(r, intent, cands)
  \/ \E r \in Runs : DecideRefused(r)
  \/ \E r \in Runs, n \in 0 .. MaxEffects, moved \in BOOLEAN, end \in {"queued", "failed"} :
       DecideApproved(r, n, moved, end)
  \/ \E w \in Workers, r \in Runs : Orchestrate(w, r)

Passing ==
  \/ \E r \in Runs : RunExpires(r)
  \/ \E r \in Runs, k \in 0 .. Narration : ClaimExpires(r, k)

Next ==
  /\ \/ \E w \in Workers : WorkerStep(w)
     \/ Requested
     \/ Passing
     \/ SetOpen \/ Play \/ Crash
  /\ UNCHANGED limits

Spec == Init /\ [][Next]_vars

\* The next beat would be opened now, and one is.
Openable ==
  /\ \E r \in limits.runs : run[r].state = "none"
  /\ \A p \in Priors : Displaced(p) # "none"
Opened == \E r \in Runs : run[r].state = "none" /\ run'[r].state # "none"

\* Time passes, and people keep asking for the next beat (as long as a run id
\* is left to give it).
FairSpec ==
  /\ Spec
  /\ \A r \in Runs :
       /\ []<>~(Outstanding(r) /\ ~run[r].late) \/ []<><<run'[r] # run[r]>>_run
  /\ []<>~Openable \/ []<><<Opened>>_run

-----------------------------------------------------------------------------
\* Type invariant.
TypeOK ==
  /\ control \in [mode : Modes, revision : 0 .. MaxRevision]
  /\ open \in BOOLEAN
  /\ world \in 0 .. MaxWorld
  /\ run \in [Runs -> [state : States, intent : {"open", "continue"}, mode : Modes,
                       revision : 0 .. MaxRevision, fresh : 0 .. MaxWorld,
                       late : BOOLEAN, cands : Candidates, choice : 0 .. MaxEffects,
                       decided : Decisions, effects : 0 .. MaxEffects]]
  /\ job \in [Runs -> 0 .. NoJob]
  /\ planned \in [Runs -> [Rounds -> {"none", "claimed", "settled", "unknown"}]]
  /\ scene \in [Runs -> {"none", "claimed", "fallback", "assisted"}]
  /\ overdue \subseteq Runs \X (0 .. Narration)
  /\ worker \in [Workers -> [pc : {"idle", "resume", "settings", "claimed", "calling",
                                   "reads", "execute", "narrate", "provider", "scene",
                                   "publish"},
                             run : Runs, round : Rounds, attempts : 0 .. MaxAttempts]]
  /\ requests \in [Runs -> [Rounds -> RequestCount]]
  /\ applied \in [Runs -> [Effects -> Nat]]
  /\ crashes \in 0 .. limits.crashes /\ limits \in Limits

\* An effect is committed only by a run whose authority is the current one, in
\* a live room, over the world its candidates were drawn from, before its
\* expiry, and, under a human, once approved: whatever happened between the
\* planning, the decision, a crash and the execution.
EffectsUnderAuthority ==
  \A r \in Runs : applied'[r] # applied[r] =>
    /\ control = [mode |-> run[r].mode, revision |-> run[r].revision] /\ open
    /\ world = run[r].fresh /\ ~run[r].late
    /\ run'[r].decided = IF run[r].mode = "ai" THEN "ai-policy-v1" ELSE "human-approved"

\* A composition is committed in order and each effect at most once, also when
\* a crash cut its execution short and the beat was resumed.
EachEffectOnce ==
  \A r \in Runs, i \in Effects : applied[r][i] = IF i <= run[r].effects THEN 1 ELSE 0

\* A beat that completed committed all of its composition: one that stopped
\* halfway keeps its receipts and never passes for a whole one.
CompletedIsWhole ==
  \A r \in Runs : run[r].state = "completed" => run[r].effects = run[r].choice

\* A takeover ends what was planned before it: a run that can still plan,
\* execute or publish belongs to the current mode and revision.
TakeoverIsFinal ==
  \A r \in Runs : Outstanding(r) =>
    run[r].mode = control.mode /\ run[r].revision = control.revision

\* A planning call that is settled as unknown ends its run: it commits nothing
\* and is never told.
UnknownIsFinal ==
  \A r \in Runs : (\E k \in Rounds : planned[r][k] = "unknown") =>
    ~Outstanding(r) /\ run[r].state # "completed" /\ run[r].effects = 0

\* Each planning round of a run is sent by one orchestration: across concurrent
\* orchestrations, resumes and restarts it costs at most the attempts of one
\* call, the first one and its retries.
DispatchedByOne == \A r \in Runs, k \in Rounds : requests[r][k].sent <= MaxAttempts

\* What the documents say of a call whose answer may have been billed and lost:
\* "no ambiguous paid retries" (runCampaignDmBeat); transport failures "must
\* never be automatically retried" (docs/provider-hardening.md).  A transport
\* failure is retried; CampaignDmResend.cfg shows it.
AmbiguousNeverRetried == \A r \in Runs, k \in Rounds : requests[r][k].resent = 0

\* A room is opened once: of the beats with that intent one completes.
OpenedOnce ==
  Cardinality({r \in Runs : run[r].intent = "open" /\ run[r].state = "completed"}) <= 1

\* A published narration tells the scene it was queued in, under a current
\* authority: the step that completes a run moves nothing since.
PublishedSceneIsCurrent ==
  \A r \in Runs : (run'[r].state = "completed" /\ run[r].state # "completed") =>
    /\ control = [mode |-> run[r].mode, revision |-> run[r].revision] /\ open
    /\ job[r] = world
    /\ run[r].effects = run[r].choice

\* A dead beat does not hold the room: while people keep asking for the next
\* one, an outstanding beat ends.
RoomIsFreed ==
  \A r \in Runs : (Outstanding(r) /\ \E q \in Runs : run[q].state = "none" /\ q \in limits.runs)
                    ~> ~Outstanding(r)

\* The beats of a room, over concurrent orchestrations and restarts: a takeover
\* ends what was planned, one beat opens the room, and each beat commits its
\* effects once, as a whole or as a beat that failed, has each round asked by one
\* orchestration, and ends when a round is settled as unknown.
BeatsAreSound ==
  /\ TypeOK
  /\ TakeoverIsFinal /\ OpenedOnce
  /\ EachEffectOnce /\ CompletedIsWhole
  /\ DispatchedByOne /\ UnknownIsFinal

\* Whatever was planned, decided or queued before, a step commits an effect and
\* publishes a scene only under the authority and over the world of that moment.
AuthorityIsCurrent == [][EffectsUnderAuthority /\ PublishedSceneIsCurrent]_vars
=============================================================================
