-------------------------- MODULE CampaignDmProofs --------------------------
(***************************************************************************)
(* The safety of CampaignDm for every set of runs and orchestrations, any  *)
(* number of planning rounds, effects, attempts, takeovers and restarts.   *)
(*                                                                         *)
(* The inductive invariant Inv has three parts besides the types: the rows *)
(* of each beat (Beat), the orchestration that plans it (Planners), and    *)
(* what the beats of the room are to each other (Room, TakeoverIsFinal).   *)
(* A step is about one beat r.  Most steps end it or leave it as it is     *)
(* (Ends); the others have a lemma each that shows Beat(r)' and Planners'. *)
(***************************************************************************)
EXTENDS CampaignDm, FiniteSetTheorems, TLAPS

-----------------------------------------------------------------------------
(* The inductive invariant.                                                *)

\* An orchestration that holds the claim of a planning round, or the reads it
\* was answered with.
Plans(w) == worker[w].pc \in {"claimed", "calling", "reads"}

\* One orchestration plans a run, it is at the newest round that is claimed, and
\* the requests sent for that round are its own attempts.
Planners ==
  /\ \A v, w \in Workers : v # w /\ Plans(v) /\ Plans(w) => worker[v].run # worker[w].run
  /\ \A w \in Workers :
       LET r == worker[w].run
           k == worker[w].round
       IN  /\ Plans(w) => \A j \in Rounds : j > k => planned[r][j] = "none"
           /\ worker[w].pc \in {"claimed", "calling"} => planned[r][k] \in {"claimed", "unknown"}
           /\ worker[w].pc = "claimed" => k = 0 /\ requests[r][k] = Unsent
           /\ worker[w].pc = "calling" => requests[r][k].sent = worker[w].attempts
           /\ worker[w].pc = "reads" => k < LastRound /\ planned[r][k] \in {"settled", "unknown"}

\* What its rows say of a beat. A run that was not opened has none; what is
\* queued or completed was committed as a whole; the rounds are claimed one
\* after the other; and while one is claimed the run is being planned, or it
\* has ended without an effect.
Beat(r) ==
  /\ run[r].state = "none" =>
       run[r].effects = 0 /\ ~Queued(r) /\ \A k \in Rounds : planned[r][k] = "none"
  /\ run[r].state = "planning" => run[r].choice = 0
  /\ run[r].effects <= run[r].choice
  /\ run[r].state = "completed" \/ (Outstanding(r) /\ Queued(r)) => run[r].effects = run[r].choice
  /\ \A i \in Effects : applied[r][i] = IF i <= run[r].effects THEN 1 ELSE 0
  /\ \A k \in Rounds :
       /\ requests[r][k].sent <= MaxAttempts
       /\ planned[r][k] = "none" => requests[r][k] = Unsent
       /\ planned[r][k] # "none" =>
            \A j \in Rounds : j < k => planned[r][j] \in {"settled", "unknown"}
       /\ planned[r][k] = "claimed" =>
            /\ run[r].state # "completed" /\ run[r].effects = 0
            /\ Outstanding(r) => run[r].state = "planning" /\ ~Queued(r)
       /\ planned[r][k] = "unknown" =>
            /\ run[r].state # "completed" /\ run[r].effects = 0
            /\ ~Outstanding(r)

\* One beat holds the room, and no beat opens it that another one has opened.
Room ==
  \A p, q \in Runs : p # q =>
    /\ ~(Outstanding(p) /\ Outstanding(q))
    /\ run[p].intent = "open" /\ run[p].state = "completed" /\ run[q].intent = "open" =>
         ~Outstanding(q) /\ run[q].state # "completed"

Inv == TypeOK /\ Planners /\ (\A r \in Runs : Beat(r)) /\ Room /\ TakeoverIsFinal

\* What AuthorityIsCurrent says of one step.
Current == EffectsUnderAuthority /\ PublishedSceneIsCurrent

-----------------------------------------------------------------------------
(* The shapes of a step.                                                   *)

RunType == [state : States, intent : {"open", "continue"}, mode : Modes,
            revision : 0 .. MaxRevision, fresh : 0 .. MaxWorld,
            late : BOOLEAN, cands : Candidates, choice : 0 .. MaxEffects,
            decided : Decisions, effects : 0 .. MaxEffects]
WorkerType == [pc : {"idle", "resume", "settings", "claimed", "calling", "reads", "execute",
                     "narrate", "provider", "scene", "publish"},
               run : Runs, round : Rounds, attempts : 0 .. MaxAttempts]
PlanStatus == {"none", "claimed", "settled", "unknown"}

\* Only the rows of r may change, and only to rows of their types.
OnlyBeat(r) ==
  /\ run' \in [Runs -> RunType] /\ job' \in [Runs -> 0 .. NoJob]
  /\ planned' \in [Runs -> [Rounds -> PlanStatus]]
  /\ requests' \in [Runs -> [Rounds -> RequestCount]] /\ applied' \in [Runs -> [Effects -> Nat]]
  /\ \A q \in Runs : q # r =>
       /\ run'[q] = run[q] /\ job'[q] = job[q] /\ planned'[q] = planned[q]
       /\ requests'[q] = requests[q] /\ applied'[q] = applied[q]

\* The beat keeps its intent and its authority, it is not outstanding anew, and
\* only an outstanding beat completes.
Calm(r) ==
  /\ run'[r].intent = run[r].intent
  /\ run'[r].mode = run[r].mode /\ run'[r].revision = run[r].revision
  /\ run'[r].state \in Outstandings => Outstanding(r)
  /\ run'[r].state = "completed" => run[r].state = "completed" \/ Outstanding(r)

\* What no other part of the invariant looks at keeps its type.
RestTyped ==
  /\ open' \in BOOLEAN /\ world' \in 0 .. MaxWorld
  /\ scene' \in [Runs -> {"none", "claimed", "fallback", "assisted"}]
  /\ overdue' \subseteq Runs \X (0 .. Narration)
  /\ crashes' \in 0 .. limits.crashes /\ limits' = limits

\* A step about one beat keeps the invariant if it keeps that beat's rows and
\* the planners.
LEMMA StepKeeps ==
  ASSUME Inv, NEW r \in Runs, OnlyBeat(r), Calm(r), RestTyped, UNCHANGED control,
         worker' \in [Workers -> WorkerType], Beat(r)', Planners'
  PROVE  Inv'
<1> USE DEF Inv
<1>1. TypeOK'
  BY DEF TypeOK, OnlyBeat, RestTyped, RunType, WorkerType, PlanStatus
<1>2. \A q \in Runs : Beat(q)'
  <2> TAKE q \in Runs
  <2>1. CASE q = r
    BY <2>1
  <2>2. CASE q # r
    <3>1. Beat(q) /\ UNCHANGED <<run[q], job[q], planned[q], requests[q], applied[q]>>
      BY <2>2 DEF OnlyBeat
    <3> QED BY <3>1 DEF Beat, Outstanding, Queued
  <2> QED BY <2>1, <2>2
<1>3. \A q \in Runs :
        /\ run'[q].intent = run[q].intent
        /\ run'[q].mode = run[q].mode /\ run'[q].revision = run[q].revision
        /\ Outstanding(q)' => Outstanding(q)
        /\ run'[q].state = "completed" => run[q].state = "completed" \/ Outstanding(q)
  BY DEF OnlyBeat, Calm, Outstanding
<1>4. Room'
  BY <1>3 DEF Room
<1>5. TakeoverIsFinal'
  BY <1>3 DEF TakeoverIsFinal
<1> QED BY <1>1, <1>2, <1>4, <1>5

\* The rows of the run that a planner sees are as they were, or another request
\* has given its round up.
Undisturbed(r) ==
  /\ requests'[r] = requests[r]
  /\ \A k \in Rounds : \/ planned'[r][k] = planned[r][k]
                       \/ planned[r][k] = "claimed" /\ planned'[r][k] = "unknown"

\* Who still plans does what it did, and its run is not disturbed.
LEMMA PlannersKept ==
  ASSUME Inv, \A v \in Workers : Plans(v)' => worker'[v] = worker[v] /\ Undisturbed(worker[v].run)
  PROVE  Planners'
<1> USE DEF Inv
<1>1. \A v \in Workers : Plans(v)' => Plans(v) /\ worker'[v] = worker[v]
  BY DEF Plans
<1>2. \A v, w \in Workers : v # w /\ Plans(v)' /\ Plans(w)' => worker'[v].run # worker'[w].run
  BY <1>1 DEF Planners
<1>3. ASSUME NEW v \in Workers, Plans(v)'
      PROVE  LET r == worker'[v].run
                 k == worker'[v].round
             IN  /\ \A j \in Rounds : j > k => planned'[r][j] = "none"
                 /\ worker'[v].pc \in {"claimed", "calling"} => planned'[r][k] \in {"claimed", "unknown"}
                 /\ worker'[v].pc = "claimed" => k = 0 /\ requests'[r][k] = Unsent
                 /\ worker'[v].pc = "calling" => requests'[r][k].sent = worker'[v].attempts
                 /\ worker'[v].pc = "reads" => k < LastRound /\ planned'[r][k] \in {"settled", "unknown"}
  <2> DEFINE r == worker[v].run
             k == worker[v].round
  <2>1. Plans(v) /\ worker'[v] = worker[v] /\ Undisturbed(r) /\ k \in Rounds
    BY <1>1, <1>3 DEF TypeOK
  <2>2. /\ \A j \in Rounds : j > k => planned[r][j] = "none"
        /\ worker[v].pc \in {"claimed", "calling"} => planned[r][k] \in {"claimed", "unknown"}
        /\ worker[v].pc = "claimed" => k = 0 /\ requests[r][k] = Unsent
        /\ worker[v].pc = "calling" => requests[r][k].sent = worker[v].attempts
        /\ worker[v].pc = "reads" => k < LastRound /\ planned[r][k] \in {"settled", "unknown"}
    BY <2>1 DEF Planners
  <2> HIDE DEF r, k, Inv
  <2>3. /\ requests'[r] = requests[r]
        /\ \A j \in Rounds : \/ planned'[r][j] = planned[r][j]
                             \/ planned[r][j] = "claimed" /\ planned'[r][j] = "unknown"
    BY <2>1 DEF Undisturbed
  <2>4. /\ \A j \in Rounds : j > k => planned'[r][j] = "none"
        /\ worker[v].pc \in {"claimed", "calling"} => planned'[r][k] \in {"claimed", "unknown"}
        /\ worker[v].pc = "claimed" => k = 0 /\ requests'[r][k] = Unsent
        /\ worker[v].pc = "calling" => requests'[r][k].sent = worker[v].attempts
        /\ worker[v].pc = "reads" => k < LastRound /\ planned'[r][k] \in {"settled", "unknown"}
    BY <2>1, <2>2, <2>3
  <2> QED BY <2>1, <2>4 DEF r, k
<1>4. \A v \in Workers : ~Plans(v)' => worker'[v].pc \notin {"claimed", "calling", "reads"}
  BY DEF Plans
<1> QED BY <1>2, <1>3, <1>4 DEF Planners

\* The beat ends, or stays what it is; a round that is given up ends it.
Ends(r) ==
  /\ run' \in [Runs -> RunType] /\ planned' \in [Runs -> [Rounds -> PlanStatus]]
  /\ UNCHANGED <<control, job, requests, applied>>
  /\ \A q \in Runs : q # r => run'[q] = run[q] /\ planned'[q] = planned[q]
  /\ run'[r].intent = run[r].intent
  /\ run'[r].mode = run[r].mode /\ run'[r].revision = run[r].revision
  /\ run'[r].choice = run[r].choice /\ run'[r].effects = run[r].effects
  /\ \/ run'[r].state = run[r].state
     \/ Outstanding(r) /\ run'[r].state \in {"cancelled", "blocked", "unknown"}
  /\ \A k \in Rounds :
       \/ planned'[r][k] = planned[r][k]
       \/ planned[r][k] = "claimed" /\ planned'[r][k] = "settled"
       \/ /\ planned[r][k] = "claimed" /\ planned'[r][k] = "unknown"
          /\ run'[r].state \notin Outstandings

\* A step that ends a beat, or none, keeps the invariant.
LEMMA EndsKeeps ==
  ASSUME Inv, NEW r \in Runs, Ends(r), RestTyped,
         worker' \in [Workers -> WorkerType], Planners'
  PROVE  Inv' /\ Current
<1> USE DEF Inv
<1>1. OnlyBeat(r)
  BY DEF OnlyBeat, Ends, TypeOK
<1>2. Calm(r)
  BY DEF Calm, Ends, Outstanding, Outstandings
<1>3. Beat(r)'
  <2>1. /\ run'[r].choice = run[r].choice /\ run'[r].effects = run[r].effects
        /\ job' = job /\ requests' = requests /\ applied' = applied
        /\ \/ run'[r].state = run[r].state
           \/ Outstanding(r) /\ run'[r].state \in {"cancelled", "blocked", "unknown"}
    BY DEF Ends
  <2>2. \A k \in Rounds :
          \/ planned'[r][k] = planned[r][k]
          \/ planned[r][k] = "claimed" /\ planned'[r][k] = "settled"
          \/ /\ planned[r][k] = "claimed" /\ planned'[r][k] = "unknown"
             /\ run'[r].state \notin Outstandings
    BY DEF Ends
  <2>3. Beat(r)
    OBVIOUS
  <2> HIDE DEF Inv
  <2> QED BY <2>1, <2>2, <2>3 DEF Beat, Outstanding, Queued, Outstandings
<1>4. Inv'
  <2>1. UNCHANGED control
    BY DEF Ends
  <2> QED BY <1>1, <1>2, <1>3, <2>1, StepKeeps
<1>5. EffectsUnderAuthority
  BY DEF Ends, EffectsUnderAuthority
<1>6. PublishedSceneIsCurrent
  BY DEF Ends, PublishedSceneIsCurrent
<1> QED BY <1>4, <1>5, <1>6 DEF Current

-----------------------------------------------------------------------------
(* What the operators of the repository and of an orchestration do.        *)

PCs == {"idle", "resume", "settings", "claimed", "calling", "reads", "execute",
        "narrate", "provider", "scene", "publish"}

\* Where an orchestration neither holds a claim nor its answer.
Elsewhere == PCs \ {"claimed", "calling", "reads"}

LEMMA ConstantsTyped ==
  /\ 0 \in Rounds /\ LastRound \in Nat \ {0} /\ Idle \in WorkerType /\ ~(Idle.pc \in {"claimed", "calling", "reads"})
  /\ Narration \in Nat /\ NoJob \in Nat /\ \A k \in Rounds : k \in Nat
<1>1. (CHOOSE r \in Runs : TRUE) \in Runs
  BY DmAssumption
<1> QED BY <1>1, DmAssumption DEF Rounds, Idle, WorkerType, Narration, NoJob

LEMMA GotoSets ==
  ASSUME TypeOK, NEW w \in Workers, NEW pc \in PCs, Goto(w, pc)
  PROVE  /\ worker' \in [Workers -> WorkerType]
         /\ \A v \in Workers : v # w => worker'[v] = worker[v]
         /\ worker'[w].pc = pc /\ worker'[w].run = worker[w].run
         /\ worker'[w].round = IF pc = "reads" THEN worker[w].round ELSE 0
<1>1. worker \in [Workers -> WorkerType]
  BY DEF TypeOK, WorkerType
<1>2. 0 \in Rounds /\ 0 \in 0 .. MaxAttempts
  BY ConstantsTyped, DmAssumption
<1> DEFINE k == IF pc = "reads" THEN worker[w].round ELSE 0
<1>3. k \in Rounds
  BY <1>1, <1>2 DEF WorkerType
<1>4. worker' = [worker EXCEPT ![w].pc = pc, ![w].attempts = 0, ![w].round = k]
  BY DEF Goto
<1> HIDE DEF k
<1>5. [worker[w] EXCEPT !.pc = pc, !.attempts = 0, !.round = k] \in WorkerType
  BY <1>1, <1>2, <1>3 DEF WorkerType, PCs
<1>6. worker' = [worker EXCEPT ![w] = [worker[w] EXCEPT !.pc = pc, !.attempts = 0, !.round = k]]
  BY <1>1, <1>4
<1>7. /\ worker' \in [Workers -> WorkerType]
      /\ \A v \in Workers : v # w => worker'[v] = worker[v]
      /\ worker'[w] = [worker[w] EXCEPT !.pc = pc, !.attempts = 0, !.round = k]
  BY <1>1, <1>5, <1>6
<1>8. worker'[w].pc = pc /\ worker'[w].run = worker[w].run /\ worker'[w].round = k
  BY <1>1, <1>7 DEF WorkerType
<1> QED BY <1>7, <1>8 DEF k

LEMMA DoneSets ==
  ASSUME TypeOK, NEW w \in Workers, Done(w)
  PROVE  /\ worker' \in [Workers -> WorkerType]
         /\ \A v \in Workers : v # w => worker'[v] = worker[v]
         /\ worker'[w] = Idle
<1>1. worker \in [Workers -> WorkerType]
  BY DEF TypeOK, WorkerType
<1> QED BY <1>1, ConstantsTyped DEF Done

\* An orchestration that stops planning leaves the others where they were, if
\* the run of none of them is disturbed.
LEMMA Leaves ==
  ASSUME Inv, NEW w \in Workers, Done(w) \/ (\E pc \in Elsewhere : Goto(w, pc)),
         \A v \in Workers : v # w /\ Plans(v) => Undisturbed(worker[v].run)
  PROVE  worker' \in [Workers -> WorkerType] /\ Planners'
<1>1. TypeOK
  BY DEF Inv
<1>2. /\ worker' \in [Workers -> WorkerType]
      /\ \A v \in Workers : v # w => worker'[v] = worker[v]
      /\ worker'[w].pc \notin {"claimed", "calling", "reads"}
  <2>1. CASE Done(w)
    BY <1>1, <2>1, DoneSets, ConstantsTyped
  <2>2. CASE \E pc \in Elsewhere : Goto(w, pc)
    <3>1. PICK pc \in Elsewhere : Goto(w, pc)
      BY <2>2
    <3>2. pc \in PCs /\ pc \notin {"claimed", "calling", "reads"}
      BY DEF Elsewhere
    <3> QED BY <1>1, <3>1, <3>2, GotoSets
  <2> QED BY <2>1, <2>2
<1>3. ASSUME NEW v \in Workers, Plans(v)'
      PROVE  worker'[v] = worker[v] /\ Undisturbed(worker[v].run)
  <2>1. v # w /\ worker'[v] = worker[v]
    BY <1>2, <1>3 DEF Plans
  <2>2. Plans(v)
    BY <1>3, <2>1 DEF Plans
  <2> QED BY <2>1, <2>2
<1> QED BY <1>2, <1>3, PlannersKept

\* What leaves the rounds and the requests alone disturbs no planner.
LEMMA NoneDisturbed ==
  ASSUME UNCHANGED <<planned, requests>>, NEW r
  PROVE  Undisturbed(r)
BY DEF Undisturbed

Endings == {"cancelled", "blocked", "unknown"}

\* A run that is stopped keeps everything but its state.
LEMMA StoppedSets ==
  ASSUME TypeOK, NEW r \in Runs, NEW s \in Endings, run' = Stopped(r, s)
  PROVE  /\ run' \in [Runs -> RunType]
         /\ \A q \in Runs : q # r => run'[q] = run[q]
         /\ run'[r].intent = run[r].intent
         /\ run'[r].mode = run[r].mode /\ run'[r].revision = run[r].revision
         /\ run'[r].choice = run[r].choice /\ run'[r].effects = run[r].effects
         /\ run'[r].state \notin Outstandings
         /\ \/ run'[r].state = run[r].state
            \/ Outstanding(r) /\ run'[r].state \in Endings
<1>1. run \in [Runs -> RunType]
  BY DEF TypeOK, RunType
<1> DEFINE t == IF run[r].state \in Outstandings THEN s ELSE run[r].state
<1>2. t \in States /\ t \notin Outstandings
  BY <1>1 DEF RunType, States, Endings, Outstandings
<1>3. t = run[r].state \/ (Outstanding(r) /\ t \in Endings)
  BY DEF Outstanding
<1>4. run' = [run EXCEPT ![r].state = t]
  BY DEF Stopped
<1> HIDE DEF t
<1>5. /\ [run[r] EXCEPT !.state = t] \in RunType
      /\ run' = [run EXCEPT ![r] = [run[r] EXCEPT !.state = t]]
  BY <1>1, <1>2, <1>4 DEF RunType
<1>6. /\ run' \in [Runs -> RunType] /\ run'[r] = [run[r] EXCEPT !.state = t]
      /\ \A q \in Runs : q # r => run'[q] = run[q]
  BY <1>1, <1>5
<1>7. /\ run'[r].intent = run[r].intent
      /\ run'[r].mode = run[r].mode /\ run'[r].revision = run[r].revision
      /\ run'[r].choice = run[r].choice /\ run'[r].effects = run[r].effects
      /\ run'[r].state = t
  BY <1>1, <1>6 DEF RunType
<1> QED BY <1>2, <1>3, <1>6, <1>7

\* The step stops the beat r, or leaves its run alone.
MayStop(r) == run' = run \/ \E s \in Endings : run' = Stopped(r, s)

LEMMA MayStopEnds ==
  ASSUME Inv, NEW r \in Runs, MayStop(r), UNCHANGED <<control, job, planned, requests, applied>>
  PROVE  Ends(r)
<1>1. TypeOK
  BY DEF Inv
<1>2. planned' \in [Runs -> [Rounds -> PlanStatus]] /\ run \in [Runs -> RunType]
  BY <1>1 DEF TypeOK, PlanStatus, RunType
<1>3. CASE run' = run
  BY <1>2, <1>3 DEF Ends
<1>4. CASE \E s \in Endings : run' = Stopped(r, s)
  <2>1. PICK s \in Endings : run' = Stopped(r, s)
    BY <1>4
  <2> QED BY <1>1, <1>2, <2>1, StoppedSets DEF Ends, Endings
<1> QED BY <1>3, <1>4 DEF MayStop

\* The step of an orchestration that leaves the rounds alone, and at most stops
\* its beat.
LEMMA LeavesKeeps ==
  ASSUME Inv, NEW w \in Workers, NEW r \in Runs, MayStop(r), RestTyped,
         UNCHANGED <<control, job, planned, requests, applied>>,
         Done(w) \/ (\E pc \in Elsewhere : Goto(w, pc))
  PROVE  Inv' /\ Current
<1>1. Ends(r)
  BY MayStopEnds
<1>2. worker' \in [Workers -> WorkerType] /\ Planners'
  BY Leaves, NoneDisturbed
<1> QED BY <1>1, <1>2, EndsKeeps

\* The same of a step that moves no orchestration.
LEMMA OutsideKeeps ==
  ASSUME Inv, NEW r \in Runs, MayStop(r), RestTyped,
         UNCHANGED <<control, job, planned, requests, applied, worker>>
  PROVE  Inv' /\ Current
<1>1. Ends(r)
  BY MayStopEnds
<1>2. worker' \in [Workers -> WorkerType] /\ Planners'
  BY PlannersKept, NoneDisturbed DEF Inv, TypeOK, WorkerType
<1> QED BY <1>1, <1>2, EndsKeeps

\* The run of an orchestration is a run.
LEMMA WorkerRun ==
  ASSUME Inv, NEW w \in Workers
  PROVE  worker[w].run \in Runs /\ worker[w].round \in Rounds
BY DEF Inv, TypeOK

LEMMA RestKept ==
  ASSUME Inv, UNCHANGED <<open, world, scene, overdue, crashes, limits>>
  PROVE  RestTyped
BY DEF Inv, TypeOK, RestTyped

-----------------------------------------------------------------------------
(* The steps that end a beat or leave its run alone.                       *)

LEMMA ExecuteNothingKeeps ==
  ASSUME Inv, NEW w \in Workers, ExecuteNothing(w), UNCHANGED limits
  PROVE  Inv' /\ Current
<1>1. AfterExecute(w) \in Elsewhere
  BY DEF AfterExecute, Elsewhere, PCs
<1>2. Goto(w, AfterExecute(w)) /\ MayStop(worker[w].run)
  BY DEF ExecuteNothing, MayStop
<1>3. UNCHANGED <<control, open, world, job, planned, scene, overdue, requests, applied, crashes>>
  BY DEF ExecuteNothing
<1> QED BY <1>1, <1>2, <1>3, RestKept, LeavesKeeps, WorkerRun

LEMMA RefusalEnds ==
  ASSUME NEW r
  PROVE  Refusal(r) \in Endings \cup {"none"}
BY DEF Refusal, Endings

LEMMA ExecuteRefusedKeeps ==
  ASSUME Inv, NEW w \in Workers, ExecuteRefused(w), UNCHANGED limits
  PROVE  Inv' /\ Current
<1> DEFINE r == worker[w].run
<1>1. Refusal(r) \in Endings /\ run' = Stopped(r, Refusal(r))
  BY RefusalEnds DEF ExecuteRefused
<1>2. Goto(w, "narrate") /\ MayStop(r)
  BY <1>1 DEF ExecuteRefused, MayStop
<1>3. UNCHANGED <<control, open, world, job, planned, scene, overdue, requests, applied, crashes>>
  BY DEF ExecuteRefused
<1>4. "narrate" \in Elsewhere
  BY DEF Elsewhere, PCs
<1> QED BY <1>2, <1>3, <1>4, RestKept, LeavesKeeps, WorkerRun

LEMMA SettingsUnavailableKeeps ==
  ASSUME Inv, NEW w \in Workers, SettingsUnavailable(w), UNCHANGED limits
  PROVE  Inv' /\ Current
<1>1. Goto(w, "narrate") /\ MayStop(worker[w].run)
  BY DEF SettingsUnavailable, MayStop, Endings
<1>2. UNCHANGED <<control, open, world, job, planned, scene, overdue, requests, applied, crashes>>
  BY DEF SettingsUnavailable
<1>3. "narrate" \in Elsewhere
  BY DEF Elsewhere, PCs
<1> QED BY <1>1, <1>2, <1>3, RestKept, LeavesKeeps, WorkerRun

LEMMA FenceKeeps ==
  ASSUME Inv, NEW w \in Workers, Fence(w), UNCHANGED limits
  PROVE  Inv' /\ Current
<1>1. Done(w) /\ MayStop(worker[w].run)
  BY DEF Fence, MayStop, Endings
<1>2. UNCHANGED <<control, open, world, job, planned, scene, overdue, requests, applied, crashes>>
  BY DEF Fence
<1> QED BY <1>1, <1>2, RestKept, LeavesKeeps, WorkerRun

LEMMA SceneTyped ==
  ASSUME Inv, NEW r \in Runs, NEW s \in {"none", "claimed", "fallback", "assisted"},
         scene' = [scene EXCEPT ![r] = s]
  PROVE  scene' \in [Runs -> {"none", "claimed", "fallback", "assisted"}]
BY DEF Inv, TypeOK

LEMMA SettleUnclaimedKeeps ==
  ASSUME Inv, NEW w \in Workers, SettleUnclaimed(w), UNCHANGED limits
  PROVE  Inv' /\ Current
<1> DEFINE r == worker[w].run
<1>1. UNCHANGED <<control, open, world, run, job, planned, overdue, requests, applied, crashes>>
  BY DEF SettleUnclaimed
<1>2. scene' \in [Runs -> {"none", "claimed", "fallback", "assisted"}]
  BY DEF SettleUnclaimed, Inv, TypeOK
<1>3. RestTyped
  BY <1>1, <1>2 DEF RestTyped, Inv, TypeOK
<1>4. Goto(w, "publish") /\ "publish" \in Elsewhere /\ MayStop(r)
  BY <1>1 DEF SettleUnclaimed, Elsewhere, PCs, MayStop
<1> QED BY <1>1, <1>3, <1>4, LeavesKeeps, WorkerRun

LEMMA SettleDmNarrationKeeps ==
  ASSUME Inv, NEW w \in Workers, NEW valid, SettleDmNarration(w, valid), UNCHANGED limits
  PROVE  Inv' /\ Current
<1> DEFINE r == worker[w].run
<1>1. UNCHANGED <<control, open, world, run, job, planned, overdue, requests, applied, crashes>>
  BY DEF SettleDmNarration
<1>2. scene' \in [Runs -> {"none", "claimed", "fallback", "assisted"}]
  BY DEF SettleDmNarration, Inv, TypeOK
<1>3. RestTyped
  BY <1>1, <1>2 DEF RestTyped, Inv, TypeOK
<1>4. Goto(w, "publish") /\ "publish" \in Elsewhere /\ MayStop(r)
  BY <1>1 DEF SettleDmNarration, Elsewhere, PCs, MayStop
<1> QED BY <1>1, <1>3, <1>4, LeavesKeeps, WorkerRun

\* The steps of time, of the table and of the process.
LEMMA RunExpiresKeeps ==
  ASSUME Inv, NEW r \in Runs, RunExpires(r), UNCHANGED limits
  PROVE  Inv' /\ Current
<1>1. UNCHANGED <<control, open, world, job, planned, scene, overdue, worker, requests, applied, crashes>>
  BY DEF RunExpires
<1>2. run \in [Runs -> RunType] /\ run' = [run EXCEPT ![r].late = TRUE]
  BY DEF RunExpires, Inv, TypeOK, RunType
<1>3. /\ [run[r] EXCEPT !.late = TRUE] \in RunType
      /\ run' = [run EXCEPT ![r] = [run[r] EXCEPT !.late = TRUE]]
  <2>1. run[r] \in RunType
    BY <1>2
  <2>2. [run[r] EXCEPT !.late = TRUE] \in RunType
    BY ONLY <2>1 DEF RunType
  <2> QED BY <1>2, <2>2
<1>4. /\ run' \in [Runs -> RunType] /\ run'[r] = [run[r] EXCEPT !.late = TRUE]
      /\ \A q \in Runs : q # r => run'[q] = run[q]
  BY <1>2, <1>3
<1>5. planned \in [Runs -> [Rounds -> PlanStatus]]
  BY DEF Inv, TypeOK, PlanStatus
<1>6. /\ run'[r].intent = run[r].intent
      /\ run'[r].mode = run[r].mode /\ run'[r].revision = run[r].revision
      /\ run'[r].choice = run[r].choice /\ run'[r].effects = run[r].effects
      /\ run'[r].state = run[r].state
  BY <1>2, <1>4 DEF RunType
<1>7. Ends(r)
  BY <1>1, <1>4, <1>5, <1>6 DEF Ends
<1>8. worker' \in [Workers -> WorkerType] /\ Planners'
  BY <1>1, PlannersKept, NoneDisturbed DEF Inv, TypeOK, WorkerType
<1> QED BY <1>1, <1>7, <1>8, RestKept, EndsKeeps

LEMMA ClaimExpiresKeeps ==
  ASSUME Inv, NEW r \in Runs, NEW k \in 0 .. Narration, ClaimExpires(r, k), UNCHANGED limits
  PROVE  Inv' /\ Current
<1>1. UNCHANGED <<control, open, world, run, job, planned, scene, worker, requests, applied, crashes>>
  BY DEF ClaimExpires
<1>2. overdue' \subseteq Runs \X (0 .. Narration)
  BY DEF ClaimExpires, Inv, TypeOK
<1>3. RestTyped
  BY <1>1, <1>2 DEF RestTyped, Inv, TypeOK
<1> QED BY <1>1, <1>3, OutsideKeeps DEF MayStop

LEMMA TableKeeps ==
  ASSUME Inv, SetOpen \/ Play, UNCHANGED limits
  PROVE  Inv' /\ Current
<1>1. UNCHANGED <<control, run, job, planned, scene, overdue, worker, requests, applied, crashes>>
  BY DEF SetOpen, Play
<1>2. limits.world \in 0 .. MaxWorld
  BY DmAssumption DEF Inv, TypeOK, Bounds
<1>3. open' \in BOOLEAN /\ world' \in 0 .. MaxWorld
  <2>1. CASE SetOpen
    <3>1. open' \in BOOLEAN
      BY <2>1, Zenon DEF SetOpen, Inv, TypeOK
    <3> QED BY <2>1, <3>1 DEF SetOpen, Inv, TypeOK
  <2>2. CASE Play
    <3>1. world' \in 0 .. MaxWorld
      BY <1>2, <2>2, DmAssumption DEF Play, Inv, TypeOK
    <3> QED BY <2>2, <3>1 DEF Play, Inv, TypeOK
  <2> QED BY <2>1, <2>2
<1>4. RestTyped
  BY <1>1, <1>3 DEF RestTyped, Inv, TypeOK
<1>5. PICK r \in Runs : TRUE
  BY DmAssumption
<1> QED BY <1>1, <1>4, <1>5, OutsideKeeps DEF MayStop

LEMMA CrashKeeps ==
  ASSUME Inv, Crash, UNCHANGED limits
  PROVE  Inv' /\ Current
<1>1. UNCHANGED <<control, open, world, run, job, planned, scene, overdue, requests, applied>>
  BY DEF Crash
<1>2. limits.crashes \in 0 .. MaxCrashes
  BY DmAssumption DEF Inv, TypeOK, Bounds
<1>3. crashes' \in 0 .. limits.crashes
  BY <1>2, DmAssumption DEF Crash, Inv, TypeOK
<1>4. RestTyped
  BY <1>1, <1>3 DEF RestTyped, Inv, TypeOK
<1>5. worker' \in [Workers -> WorkerType] /\ \A v \in Workers : ~Plans(v)'
  BY ConstantsTyped DEF Crash, Plans
<1>6. PICK r \in Runs : TRUE
  BY DmAssumption
<1>7. Ends(r)
  BY <1>1, MayStopEnds DEF MayStop
<1>8. Planners'
  BY <1>5, PlannersKept
<1> QED BY <1>4, <1>5, <1>7, <1>8, EndsKeeps

\* A request takes the beat up.
LEMMA OrchestrateKeeps ==
  ASSUME Inv, NEW w \in Workers, NEW r \in Runs, Orchestrate(w, r), UNCHANGED limits
  PROVE  Inv' /\ Current
<1>1. UNCHANGED <<control, open, world, run, job, planned, scene, overdue, requests, applied, crashes>>
  BY DEF Orchestrate
<1> DEFINE pc == IF Queued(r) THEN "narrate" ELSE "resume"
<1>2. [Idle EXCEPT !.pc = pc, !.run = r] \in WorkerType
  BY ConstantsTyped DEF WorkerType
<1>3. worker' = [worker EXCEPT ![w] = [Idle EXCEPT !.pc = pc, !.run = r]]
  BY DEF Orchestrate
<1>4. [Idle EXCEPT !.pc = pc, !.run = r].pc \notin {"claimed", "calling", "reads"}
  BY ConstantsTyped DEF WorkerType
<1>5. worker \in [Workers -> WorkerType]
  BY DEF Inv, TypeOK, WorkerType
<1> HIDE DEF pc
<1>6. /\ worker' \in [Workers -> WorkerType]
      /\ \A v \in Workers : v # w => worker'[v] = worker[v]
      /\ worker'[w].pc \notin {"claimed", "calling", "reads"}
  BY <1>2, <1>3, <1>4, <1>5
<1>7. Planners'
  BY <1>1, <1>6, PlannersKept, NoneDisturbed DEF Plans
<1>8. Ends(r)
  BY <1>1, MayStopEnds DEF MayStop
<1> QED BY <1>1, <1>6, <1>7, <1>8, RestKept, EndsKeeps

\* The human's decision that ends the beat.
LEMMA DecideRefusedKeeps ==
  ASSUME Inv, NEW r \in Runs, DecideRefused(r), UNCHANGED limits
  PROVE  Inv' /\ Current
<1>1. UNCHANGED <<control, open, world, job, planned, scene, overdue, worker, requests, applied, crashes>>
  BY DEF DecideRefused
<1>2. CASE run' = Stopped(r, "cancelled")
  BY <1>1, <1>2, OutsideKeeps, RestKept DEF MayStop, Endings
<1>3. CASE ~(run' = Stopped(r, "cancelled"))
  <2>1. PICK d \in {"human-rejected", "human-approved"}, s \in {"cancelled", "blocked"} :
          run' = [run EXCEPT ![r].decided = d, ![r].state = s]
    BY <1>3 DEF DecideRefused
  <2>2. run \in [Runs -> RunType] /\ Outstanding(r)
    BY DEF DecideRefused, Decidable, Executable, Outstanding, Outstandings, Inv, TypeOK, RunType
  <2>3. d \in Decisions /\ s \in States
    BY DEF Decisions, States
  <2>4. /\ [run[r] EXCEPT !.decided = d, !.state = s] \in RunType
        /\ run' = [run EXCEPT ![r] = [run[r] EXCEPT !.decided = d, !.state = s]]
    <3>1. run[r] \in RunType
      BY <2>2
    <3>2. [run[r] EXCEPT !.decided = d, !.state = s] \in RunType
      BY ONLY <2>3, <3>1 DEF RunType
    <3> QED BY <2>1, <2>2, <3>2
  <2>5. /\ run' \in [Runs -> RunType] /\ run'[r] = [run[r] EXCEPT !.decided = d, !.state = s]
        /\ \A q \in Runs : q # r => run'[q] = run[q]
    BY <2>2, <2>4
  <2>6. /\ run'[r].intent = run[r].intent
        /\ run'[r].mode = run[r].mode /\ run'[r].revision = run[r].revision
        /\ run'[r].choice = run[r].choice /\ run'[r].effects = run[r].effects
        /\ run'[r].state \in {"cancelled", "blocked"}
    BY <2>2, <2>5 DEF RunType
  <2>7. planned \in [Runs -> [Rounds -> PlanStatus]]
    BY DEF Inv, TypeOK, PlanStatus
  <2>8. Ends(r)
    BY <1>1, <2>2, <2>5, <2>6, <2>7 DEF Ends
  <2>9. worker' \in [Workers -> WorkerType] /\ Planners'
    BY <1>1, PlannersKept, NoneDisturbed DEF Inv, TypeOK, WorkerType
  <2> QED BY <1>1, <2>8, <2>9, RestKept, EndsKeeps
<1> QED BY <1>2, <1>3

-----------------------------------------------------------------------------
(* The publication of a narration.                                         *)

\* The control's mode and revision are all of it.
LEMMA ControlIs ==
  ASSUME Inv, NEW r \in Runs, Active(r)
  PROVE  control = [mode |-> run[r].mode, revision |-> run[r].revision] /\ open
BY DEF Inv, TypeOK, Active

\* A run that completes was outstanding and queued, in the scene of its job.
LEMMA CompletionKeeps ==
  ASSUME Inv, NEW r \in Runs, run' = [run EXCEPT ![r].state = "completed"],
         Narratable(r), Active(r), SceneUnchanged(r), RestTyped,
         UNCHANGED <<control, job, planned, requests, applied>>,
         worker' \in [Workers -> WorkerType], Planners'
  PROVE  Inv' /\ Current
<1>1. run \in [Runs -> RunType] /\ "completed" \in States
  BY DEF Inv, TypeOK, RunType, States
<1>2. /\ [run[r] EXCEPT !.state = "completed"] \in RunType
      /\ run' = [run EXCEPT ![r] = [run[r] EXCEPT !.state = "completed"]]
  BY <1>1 DEF RunType
<1>3. /\ run' \in [Runs -> RunType] /\ run'[r] = [run[r] EXCEPT !.state = "completed"]
      /\ \A q \in Runs : q # r => run'[q] = run[q]
  BY <1>1, <1>2
<1>4. /\ run'[r].intent = run[r].intent
      /\ run'[r].mode = run[r].mode /\ run'[r].revision = run[r].revision
      /\ run'[r].choice = run[r].choice /\ run'[r].effects = run[r].effects
      /\ run'[r].state = "completed"
  BY <1>1, <1>3 DEF RunType
<1>5. Outstanding(r) /\ Queued(r) /\ Beat(r)
  BY DEF Narratable, Inv
<1>6. Beat(r)'
  <2>1. run[r].effects = run[r].choice /\ run[r].state \notin {"none", "completed"}
    BY <1>5 DEF Beat, Outstanding, Outstandings
  <2>2. \A k \in Rounds : planned[r][k] \notin {"claimed", "unknown"}
    BY <1>5 DEF Beat
  <2> QED BY <1>4, <1>5, <2>1, <2>2 DEF Beat, Outstanding, Outstandings, Queued
<1>7. OnlyBeat(r)
  BY <1>3 DEF OnlyBeat, Inv, TypeOK, PlanStatus
<1>8. Calm(r)
  BY <1>4, <1>5 DEF Calm, Outstandings
<1>9. Inv'
  BY <1>6, <1>7, <1>8, StepKeeps
<1>10. EffectsUnderAuthority
  BY DEF EffectsUnderAuthority
<1>11. PublishedSceneIsCurrent
  <2>1. control = [mode |-> run[r].mode, revision |-> run[r].revision] /\ open
    BY ControlIs
  <2>2. job[r] = world /\ run[r].effects = run[r].choice
    BY <1>5 DEF SceneUnchanged, Beat
  <2> QED BY <1>3, <2>1, <2>2 DEF PublishedSceneIsCurrent
<1> QED BY <1>9, <1>10, <1>11 DEF Current

\* getDmNarrationWork() keeps the invariant whatever its caller does next.
LEMMA NarratedKeeps ==
  ASSUME Inv, NEW r \in Runs, Narrated(r),
         UNCHANGED <<control, open, world, job, planned, overdue, requests, applied, crashes, limits>>,
         worker' \in [Workers -> WorkerType], Planners'
  PROVE  Inv' /\ Current
<1>1. /\ scene' \in [Runs -> {"none", "claimed", "fallback", "assisted"}]
      /\ \/ MayStop(r)
         \/ /\ Narratable(r) /\ Active(r) /\ SceneUnchanged(r)
            /\ run' = [run EXCEPT ![r].state = "completed"]
  <2>1. \/ run' = run \/ run' = Stopped(r, "cancelled") \/ run' = Stopped(r, "blocked")
        \/ /\ Narratable(r) /\ Active(r) /\ SceneUnchanged(r)
           /\ run' = [run EXCEPT ![r].state = "completed"]
    BY DEF Narrated
  <2>2. \/ scene' = scene
        \/ scene' = [scene EXCEPT ![r] = IF @ = "claimed" THEN "fallback" ELSE @]
    BY DEF Narrated
  <2>3. scene' \in [Runs -> {"none", "claimed", "fallback", "assisted"}]
    BY <2>2 DEF Inv, TypeOK
  <2> QED BY <2>1, <2>3 DEF MayStop, Endings
<1>2. RestTyped
  BY <1>1 DEF RestTyped, Inv, TypeOK
<1>3. CASE MayStop(r)
  <2>1. Ends(r)
    BY <1>3, MayStopEnds
  <2> QED BY <1>2, <2>1, EndsKeeps
<1>4. CASE /\ Narratable(r) /\ Active(r) /\ SceneUnchanged(r)
           /\ run' = [run EXCEPT ![r].state = "completed"]
  BY <1>2, <1>4, CompletionKeeps
<1> QED BY <1>1, <1>3, <1>4

LEMMA GetDmNarrationWorkKeeps ==
  ASSUME Inv, NEW w \in Workers, GetDmNarrationWork(w), UNCHANGED limits
  PROVE  Inv' /\ Current
<1>1. /\ Narrated(worker[w].run) /\ (Done(w) \/ Goto(w, "provider"))
      /\ UNCHANGED <<control, open, world, job, planned, overdue, requests, applied, crashes>>
  BY DEF GetDmNarrationWork
<1>2. "provider" \in Elsewhere
  BY DEF Elsewhere, PCs
<1>3. worker' \in [Workers -> WorkerType] /\ Planners'
  BY <1>1, <1>2, Leaves, NoneDisturbed
<1> QED BY <1>1, <1>3, NarratedKeeps, WorkerRun

LEMMA ClaimDmNarrationKeeps ==
  ASSUME Inv, NEW w \in Workers, ClaimDmNarration(w), UNCHANGED limits
  PROVE  Inv' /\ Current
<1> DEFINE r == worker[w].run
<1>1. UNCHANGED <<control, open, world, job, planned, overdue, requests, applied, crashes>>
  BY DEF ClaimDmNarration
<1>2. CASE NarrationWork(r)
  <2>1. Goto(w, "scene") /\ "scene" \in Elsewhere /\ MayStop(r) /\ scene' = [scene EXCEPT ![r] = "claimed"]
    BY <1>2 DEF ClaimDmNarration, Elsewhere, PCs, MayStop
  <2>2. RestTyped
    BY <1>1, <2>1, SceneTyped, WorkerRun DEF RestTyped, Inv, TypeOK
  <2> QED BY <1>1, <2>1, <2>2, LeavesKeeps, WorkerRun
<1>3. CASE ~NarrationWork(r)
  <2>1. Narrated(r) /\ Done(w)
    BY <1>3 DEF ClaimDmNarration
  <2>2. worker' \in [Workers -> WorkerType] /\ Planners'
    BY <1>1, <2>1, Leaves, NoneDisturbed
  <2> QED BY <1>1, <2>1, <2>2, NarratedKeeps, WorkerRun
<1> QED BY <1>2, <1>3

-----------------------------------------------------------------------------
(* Planning: one claim for each round.                                     *)

\* What Planners says of one orchestration.
Planner(w) ==
  LET r == worker[w].run
      k == worker[w].round
  IN  /\ Plans(w) => \A j \in Rounds : j > k => planned[r][j] = "none"
      /\ worker[w].pc \in {"claimed", "calling"} => planned[r][k] \in {"claimed", "unknown"}
      /\ worker[w].pc = "claimed" => k = 0 /\ requests[r][k] = Unsent
      /\ worker[w].pc = "calling" => requests[r][k].sent = worker[w].attempts
      /\ worker[w].pc = "reads" => k < LastRound /\ planned[r][k] \in {"settled", "unknown"}

\* The only orchestration that plans r takes a step; the others plan what they
\* planned.
LEMMA OnePlanner ==
  ASSUME Inv, NEW w \in Workers, NEW r \in Runs, r = worker[w].run,
         \A v \in Workers : v # w => worker'[v] = worker[v],
         \A v \in Workers : v # w /\ Plans(v) => worker[v].run # r,
         \A q \in Runs : q # r => planned'[q] = planned[q] /\ requests'[q] = requests[q],
         worker'[w].run = r, Planner(w)'
  PROVE  Planners'
<1>1. \A v \in Workers : v # w => (Plans(v)' <=> Plans(v))
  BY DEF Plans
<1>2. \A u, v \in Workers : u # v /\ Plans(u)' /\ Plans(v)' => worker'[u].run # worker'[v].run
  BY <1>1 DEF Inv, Planners
<1>3. ASSUME NEW v \in Workers
      PROVE  Planner(v)'
  <2>1. CASE v = w
    BY <2>1
  <2>2. CASE v # w /\ ~Plans(v)
    BY <2>2 DEF Planner, Plans
  <2>3. CASE v # w /\ Plans(v)
    <3>1. worker[v].run # r /\ worker[v].run \in Runs
      BY <2>3, WorkerRun
    <3>2. worker'[v] = worker[v] /\ UNCHANGED <<planned[worker[v].run], requests[worker[v].run]>>
      BY <2>3, <3>1
    <3>3. Planner(v)
      BY DEF Inv, Planners, Planner
    <3> QED BY <3>2, <3>3 DEF Planner, Plans
  <2> QED BY <2>1, <2>2, <2>3
<1> QED BY <1>2, <1>3 DEF Planners, Planner

LEMMA PlannerSays ==
  ASSUME Inv, NEW w \in Workers, Plans(w)
  PROVE  /\ Planner(w)
         /\ \A v \in Workers : v # w /\ Plans(v) => worker[v].run # worker[w].run
BY DEF Inv, Planners, Planner

\* One more request for the round that w plans, within the attempts of its call.
LEMMA RetryKeeps ==
  ASSUME Inv, NEW w \in Workers, NEW r \in Runs, r = worker[w].run,
         NEW failure, Retry(w, failure), UNCHANGED limits
  PROVE  Inv' /\ Current
<1> DEFINE k == worker[w].round
           a == worker[w].attempts + 1
<1>1. UNCHANGED <<control, open, world, run, job, planned, scene, overdue, applied, crashes>>
  BY DEF Retry
<1>2. /\ worker \in [Workers -> WorkerType] /\ requests \in [Runs -> [Rounds -> RequestCount]]
      /\ worker[w] \in WorkerType /\ k \in Rounds
  BY WorkerRun DEF Inv, TypeOK, WorkerType
<1>3. a \in 0 .. MaxAttempts
  <2>1. limits.attempts \in 1 .. MaxAttempts
    BY DmAssumption DEF Inv, TypeOK, Bounds
  <2> QED BY <1>2, <2>1, DmAssumption DEF Retry, WorkerType
<1>4. /\ worker' = [worker EXCEPT ![w] = [worker[w] EXCEPT !.attempts = a]]
      /\ [worker[w] EXCEPT !.attempts = a] \in WorkerType
  BY <1>2, <1>3 DEF Retry, Resent, WorkerType
<1>5. /\ worker' \in [Workers -> WorkerType]
      /\ \A v \in Workers : v # w => worker'[v] = worker[v]
      /\ worker'[w].pc = worker[w].pc /\ worker'[w].run = r /\ worker'[w].round = k
      /\ worker'[w].attempts = a
  BY <1>2, <1>4 DEF WorkerType
<1>6. Plans(w) /\ worker[w].pc = "calling"
  BY DEF Plans, Retry
<1>7. /\ planned[r][k] \in {"claimed", "unknown"} /\ requests[r][k].sent = worker[w].attempts
      /\ \A j \in Rounds : j > k => planned[r][j] = "none"
  BY <1>6, PlannerSays DEF Planner
<1> DEFINE more == [sent |-> requests[r][k].sent + 1,
                    resent |-> IF failure = "transport" THEN requests[r][k].resent + 1
                               ELSE requests[r][k].resent]
<1>8. more \in RequestCount /\ more.sent = a
  <2>1. requests[r][k] \in RequestCount
    BY <1>2
  <2> QED BY <1>7, <2>1 DEF RequestCount
<1>9. requests' = [requests EXCEPT ![r][k] = more]
  BY DEF Retry, Resent
<1> HIDE DEF more
<1>10. /\ requests' \in [Runs -> [Rounds -> RequestCount]]
       /\ \A q \in Runs : q # r => requests'[q] = requests[q]
       /\ requests'[r][k] = more /\ \A j \in Rounds : j # k => requests'[r][j] = requests[r][j]
  BY <1>2, <1>8, <1>9
<1> HIDE DEF k, a
<1>11. Planner(w)'
  BY <1>1, <1>5, <1>6, <1>7, <1>8, <1>10 DEF Planner, Plans
<1>12. Planners'
  <2>1. \A v \in Workers : v # w /\ Plans(v) => worker[v].run # r
    BY <1>6, PlannerSays
  <2> QED BY <1>1, <1>2, <1>5, <1>10, <1>11, <2>1, OnePlanner
<1>13. Beat(r)'
  <2>1. Beat(r) /\ planned \in [Runs -> [Rounds -> PlanStatus]]
    BY <1>2 DEF Inv, TypeOK, PlanStatus
  <2>2. \A j \in Rounds : /\ requests'[r][j].sent <= MaxAttempts
                          /\ planned[r][j] = "none" => requests'[r][j] = Unsent
    <3> TAKE j \in Rounds
    <3>1. CASE j = k
      BY <1>3, <1>7, <1>8, <1>10, <3>1, DmAssumption
    <3>2. CASE j # k
      BY <1>10, <2>1, <3>2 DEF Beat
    <3> QED BY <3>1, <3>2
  <2>3. run' = run /\ job' = job /\ planned' = planned /\ applied' = applied
    BY <1>1
  <2> HIDE DEF Inv
  <2> QED BY <2>1, <2>2, <2>3 DEF Beat, Outstanding, Queued
<1>14. OnlyBeat(r)
  BY <1>1, <1>10 DEF OnlyBeat, Inv, TypeOK, RunType, PlanStatus
<1>15. Calm(r)
  BY <1>1 DEF Calm, Outstanding
<1>16. Inv'
  BY <1>1, <1>2, <1>5, <1>12, <1>13, <1>14, <1>15, RestKept, StepKeeps
<1>17. EffectsUnderAuthority /\ PublishedSceneIsCurrent
  BY <1>1 DEF EffectsUnderAuthority, PublishedSceneIsCurrent
<1> QED BY <1>16, <1>17 DEF Current

\* While a claim of its own is in the hands of an orchestration, no other claim
\* of the run is open.
LEMMA OneClaim ==
  ASSUME Inv, NEW w \in Workers, worker[w].pc \in {"claimed", "calling"}, NEW j \in Rounds,
         j # worker[w].round
  PROVE  planned[worker[w].run][j] # "claimed"
<1> DEFINE r == worker[w].run
           k == worker[w].round
<1>1. r \in Runs /\ k \in Rounds /\ j \in Nat /\ k \in Nat
  BY WorkerRun, ConstantsTyped
<1>2. planned[r][k] # "none" /\ \A i \in Rounds : i > k => planned[r][i] = "none"
  BY PlannerSays DEF Planner, Plans
<1>3. Beat(r)
  BY <1>1 DEF Inv
<1> HIDE DEF r, k
<1>4. j < k => planned[r][j] \in {"settled", "unknown"}
  BY <1>1, <1>2, <1>3 DEF Beat
<1>5. j > k \/ j < k
  BY <1>1 DEF k
<1> QED BY <1>2, <1>4, <1>5 DEF r

LEMMA OverBudgetKeeps ==
  ASSUME Inv, NEW w \in Workers, OverBudget(w), UNCHANGED limits
  PROVE  Inv' /\ Current
<1> DEFINE r == worker[w].run
<1>1. UNCHANGED <<control, open, world, job, scene, overdue, requests, applied, crashes>>
  BY DEF OverBudget
<1>2. planned \in [Runs -> [Rounds -> PlanStatus]] /\ r \in Runs /\ 0 \in Rounds
  BY WorkerRun, ConstantsTyped DEF Inv, TypeOK, PlanStatus
<1>3. planned' = [planned EXCEPT ![r][0] = IF @ = "claimed" THEN "settled" ELSE @]
  BY DEF OverBudget
<1>4. /\ planned' \in [Runs -> [Rounds -> PlanStatus]]
      /\ \A q \in Runs : q # r => planned'[q] = planned[q]
      /\ \A k \in Rounds : \/ planned'[r][k] = planned[r][k]
                           \/ planned[r][k] = "claimed" /\ planned'[r][k] = "settled"
  <2>1. "settled" \in PlanStatus
    BY DEF PlanStatus
  <2> QED BY <1>2, <1>3, <2>1
<1>5. TypeOK /\ "blocked" \in Endings /\ run' = Stopped(r, "blocked")
  BY DEF Inv, Endings, OverBudget
<1>6. Ends(r)
  BY <1>1, <1>2, <1>4, <1>5, StoppedSets DEF Ends, Endings
<1>7. \A v \in Workers : v # w /\ Plans(v) => Undisturbed(worker[v].run)
  <2>1. Plans(w)
    BY DEF Plans, OverBudget
  <2>2. \A v \in Workers : v # w /\ Plans(v) => worker[v].run # r /\ worker[v].run \in Runs
    BY <2>1, PlannerSays, WorkerRun
  <2> QED BY <1>1, <1>4, <2>2 DEF Undisturbed
<1>8. Goto(w, "narrate") /\ "narrate" \in Elsewhere
  BY DEF OverBudget, Elsewhere, PCs
<1>9. worker' \in [Workers -> WorkerType] /\ Planners'
  BY <1>7, <1>8, Leaves
<1> QED BY <1>1, <1>2, <1>6, <1>9, RestKept, EndsKeeps

LEMMA CallingTyped ==
  ASSUME NEW x \in WorkerType, NEW k \in Rounds
  PROVE  /\ [x EXCEPT !.pc = "calling", !.round = k, !.attempts = 1] \in WorkerType
         /\ [x EXCEPT !.pc = "calling", !.round = k, !.attempts = 1].pc = "calling"
         /\ [x EXCEPT !.pc = "calling", !.round = k, !.attempts = 1].run = x.run
         /\ [x EXCEPT !.pc = "calling", !.round = k, !.attempts = 1].round = k
         /\ [x EXCEPT !.pc = "calling", !.round = k, !.attempts = 1].attempts = 1
<1>1. 1 \in 0 .. MaxAttempts
  BY DmAssumption
<1> QED BY <1>1 DEF WorkerType

\* A round that has its status already is set to it again.
LEMMA SetAgain ==
  ASSUME NEW p \in [Runs -> [Rounds -> PlanStatus]], NEW r \in Runs, NEW k \in Rounds
  PROVE  p = [p EXCEPT ![r][k] = p[r][k]]
<1>1. p[r] = [p[r] EXCEPT ![k] = p[r][k]]
  OBVIOUS
<1>2. p = [p EXCEPT ![r] = p[r]]
  OBVIOUS
<1> QED BY <1>1, <1>2

\* The call of a round that was claimed, now or before, leaves for the provider.
LEMMA SentKeeps ==
  ASSUME Inv, NEW w \in Workers, NEW r \in Runs, r = worker[w].run, Plans(w),
         NEW k \in Rounds, Sent(w, k), planned' = [planned EXCEPT ![r][k] = "claimed"],
         UNCHANGED <<control, open, world, run, job, scene, overdue, applied, crashes, limits>>,
         run[r].state = "planning", ~Queued(r), requests[r][k] = Unsent,
         \A j \in Rounds : j > k => planned[r][j] = "none",
         \A j \in Rounds : j < k => planned[r][j] \in {"settled", "unknown"}
  PROVE  Inv' /\ Current
<1>1. /\ planned \in [Runs -> [Rounds -> PlanStatus]] /\ requests \in [Runs -> [Rounds -> RequestCount]]
      /\ worker \in [Workers -> WorkerType]
  BY DEF Inv, TypeOK, PlanStatus, WorkerType
<1>2. /\ planned' \in [Runs -> [Rounds -> PlanStatus]]
      /\ \A q \in Runs : q # r => planned'[q] = planned[q]
      /\ planned'[r][k] = "claimed" /\ \A j \in Rounds : j # k => planned'[r][j] = planned[r][j]
  BY <1>1 DEF PlanStatus
<1>3. /\ requests' \in [Runs -> [Rounds -> RequestCount]]
      /\ \A q \in Runs : q # r => requests'[q] = requests[q]
      /\ requests'[r][k].sent = 1 /\ \A j \in Rounds : j # k => requests'[r][j] = requests[r][j]
  <2> DEFINE first == [requests[r][k] EXCEPT !.sent = @ + 1]
  <2>1. first \in RequestCount /\ first.sent = 1
    BY DEF Unsent, RequestCount
  <2>2. requests' = [requests EXCEPT ![r][k] = first]
    BY <1>1 DEF Sent
  <2> HIDE DEF first
  <2> QED BY <1>1, <2>1, <2>2
<1>4. /\ worker' \in [Workers -> WorkerType]
      /\ \A v \in Workers : v # w => worker'[v] = worker[v]
      /\ worker'[w].pc = "calling" /\ worker'[w].run = r /\ worker'[w].round = k
      /\ worker'[w].attempts = 1
  <2>2. /\ [worker[w] EXCEPT !.pc = "calling", !.round = k, !.attempts = 1] \in WorkerType
        /\ [worker[w] EXCEPT !.pc = "calling", !.round = k, !.attempts = 1].pc = "calling"
        /\ [worker[w] EXCEPT !.pc = "calling", !.round = k, !.attempts = 1].run = worker[w].run
        /\ [worker[w] EXCEPT !.pc = "calling", !.round = k, !.attempts = 1].round = k
        /\ [worker[w] EXCEPT !.pc = "calling", !.round = k, !.attempts = 1].attempts = 1
    <3>1. worker[w] \in WorkerType
      BY <1>1
    <3> QED BY ONLY <3>1, k \in Rounds, CallingTyped
  <2>3. worker' = [worker EXCEPT ![w] = [worker[w] EXCEPT !.pc = "calling", !.round = k, !.attempts = 1]]
    BY <1>1 DEF Sent
  <2>4. /\ worker' \in [Workers -> WorkerType]
        /\ \A v \in Workers : v # w => worker'[v] = worker[v]
        /\ worker'[w] = [worker[w] EXCEPT !.pc = "calling", !.round = k, !.attempts = 1]
    BY <1>1, <2>2, <2>3
  <2> QED BY <2>2, <2>4
<1>5. Planner(w)'
  <2>1. \A j \in Rounds : j > k => j # k
    BY ConstantsTyped
  <2> QED BY <1>2, <1>3, <1>4, <2>1 DEF Planner, Plans
<1>6. Planners'
  BY <1>2, <1>3, <1>4, <1>5, PlannerSays, OnePlanner
<1>7. Beat(r) /\ run[r].choice \in 0 .. MaxEffects /\ run[r].effects \in 0 .. MaxEffects
  BY DEF Inv, TypeOK
<1>8. run[r].effects = 0 /\ run[r].state # "completed" /\ Outstanding(r)
  BY <1>7 DEF Beat, Outstanding, Outstandings
<1>9. Beat(r)'
  <2>1. ASSUME NEW j \in Rounds
        PROVE  /\ requests'[r][j].sent <= MaxAttempts
               /\ planned'[r][j] = "none" => requests'[r][j] = Unsent
               /\ planned'[r][j] # "none" =>
                    \A i \in Rounds : i < j => planned'[r][i] \in {"settled", "unknown"}
               /\ planned'[r][j] = "claimed" =>
                    run'[r].state = "planning" /\ run'[r].effects = 0 /\ ~Queued(r)'
               /\ planned'[r][j] # "unknown"
    <3>1. planned[r][j] # "unknown" /\ j \in Nat /\ k \in Nat
      BY <1>7, <1>8, ConstantsTyped DEF Beat
    <3>2. CASE j = k
      <4>1. \A i \in Rounds : i < k => i # k
        BY ConstantsTyped
      <4>2. requests'[r][k].sent <= MaxAttempts
        BY <1>3, DmAssumption
      <4> QED BY <1>2, <1>8, <3>2, <4>1, <4>2 DEF Queued
    <3>3. CASE j # k /\ j < k
      <4>1. \A i \in Rounds : i < j => i # k /\ i < k
        BY <3>3, ConstantsTyped
      <4> QED BY <1>2, <1>3, <1>7, <3>1, <3>3, <4>1 DEF Beat, Queued
    <3>4. CASE j # k /\ j > k
      BY <1>2, <1>3, <1>7, <3>4 DEF Beat
    <3>5. j = k \/ j < k \/ j > k
      BY <3>1
    <3> QED BY <3>2, <3>3, <3>4, <3>5
  <2>2. run' = run /\ job' = job /\ applied' = applied
    OBVIOUS
  <2> QED BY <1>7, <1>8, <2>1, <2>2 DEF Beat, Outstanding, Queued
<1>10. OnlyBeat(r)
  BY <1>2, <1>3 DEF OnlyBeat, Inv, TypeOK, RunType
<1>11. Calm(r)
  BY DEF Calm, Outstanding
<1>12. Inv'
  BY <1>4, <1>6, <1>9, <1>10, <1>11, RestKept, StepKeeps
<1>13. EffectsUnderAuthority /\ PublishedSceneIsCurrent
  BY DEF EffectsUnderAuthority, PublishedSceneIsCurrent
<1> QED BY <1>12, <1>13 DEF Current

LEMMA BindDmProviderRequestKeeps ==
  ASSUME Inv, NEW w \in Workers, BindDmProviderRequest(w), UNCHANGED limits
  PROVE  Inv' /\ Current
<1> DEFINE r == worker[w].run
<1>1. UNCHANGED <<control, open, world, job, planned, scene, overdue, applied, crashes>>
  BY DEF BindDmProviderRequest
<1>2. CASE run' = Stopped(r, "cancelled") /\ Goto(w, "narrate") /\ UNCHANGED requests
  <2>1. MayStop(r) /\ "narrate" \in Elsewhere
    BY <1>2 DEF MayStop, Endings, Elsewhere, PCs
  <2> QED BY <1>1, <1>2, <2>1, LeavesKeeps, RestKept, WorkerRun
<1>3. CASE planned[r][0] = "claimed" /\ run[r].state = "planning" /\ Sent(w, 0) /\ UNCHANGED run
  <2>1. Plans(w) /\ worker[w].pc = "claimed"
    BY DEF Plans, BindDmProviderRequest
  <2>2. worker[w].round = 0 /\ requests[r][0] = Unsent /\ \A j \in Rounds : j > 0 => planned[r][j] = "none"
    BY <2>1, PlannerSays DEF Planner
  <2>3. r \in Runs /\ 0 \in Rounds /\ \A j \in Rounds : ~(j < 0)
    BY WorkerRun, ConstantsTyped
  <2>4. planned' = [planned EXCEPT ![r][0] = "claimed"]
    <3>1. planned \in [Runs -> [Rounds -> PlanStatus]]
      BY DEF Inv, TypeOK, PlanStatus
    <3> QED BY <1>1, <1>3, <2>3, <3>1, SetAgain
  <2>5. ~Queued(r)
    BY <1>3, <2>3 DEF Inv, Beat, Outstanding, Outstandings
  <2> QED BY <1>1, <1>3, <2>1, <2>2, <2>3, <2>4, <2>5, SentKeeps
<1> QED BY <1>2, <1>3 DEF BindDmProviderRequest

LEMMA ClaimDmPlanningRoundKeeps ==
  ASSUME Inv, NEW w \in Workers, ClaimDmPlanningRound(w), UNCHANGED limits
  PROVE  Inv' /\ Current
<1> DEFINE r == worker[w].run
           k == worker[w].round + 1
<1>1. UNCHANGED <<control, open, world, job, scene, overdue, applied, crashes>>
  BY DEF ClaimDmPlanningRound
<1>2. CASE MayStop(r) /\ Goto(w, "narrate") /\ UNCHANGED <<planned, requests>>
  <2>1. "narrate" \in Elsewhere
    BY DEF Elsewhere, PCs
  <2> QED BY <1>1, <1>2, <2>1, LeavesKeeps, RestKept, WorkerRun
<1>3. CASE /\ Claimable(r, k) /\ planned' = [planned EXCEPT ![r][k] = "claimed"]
           /\ Sent(w, k) /\ UNCHANGED run
  <2>1. Plans(w) /\ worker[w].pc = "reads"
    BY DEF Plans, ClaimDmPlanningRound
  <2>2. /\ worker[w].round < LastRound /\ planned[r][worker[w].round] \in {"settled", "unknown"}
        /\ \A j \in Rounds : j > worker[w].round => planned[r][j] = "none"
    BY <2>1, PlannerSays DEF Planner
  <2>3. r \in Runs /\ worker[w].round \in Rounds /\ Beat(r)
    BY WorkerRun DEF Inv
  <2> HIDE DEF r
  <2>4. k \in Rounds /\ \A j \in Rounds : (j > k => j > worker[w].round)
          /\ (j < k => j < worker[w].round \/ j = worker[w].round)
    BY <2>2, <2>3, DmAssumption DEF Rounds
  <2>5. \A j \in Rounds : j > k => planned[r][j] = "none"
    BY <2>2, <2>4
  <2>6. \A j \in Rounds : j < k => planned[r][j] \in {"settled", "unknown"}
    <3>1. \A j \in Rounds : j < worker[w].round => planned[r][j] \in {"settled", "unknown"}
      BY <2>2, <2>3 DEF Beat
    <3> QED BY <2>2, <2>4, <3>1
  <2>7. requests[r][k] = Unsent /\ run[r].state = "planning" /\ ~Queued(r)
    BY <1>3, <2>3, <2>4 DEF Beat, Claimable
  <2> HIDE DEF k
  <2> QED BY <1>1, <1>3, <2>1, <2>3, <2>4, <2>5, <2>6, <2>7, SentKeeps DEF r
<1> QED BY <1>2, <1>3 DEF ClaimDmPlanningRound, MayStop, Endings

\* A request claims the first round of a beat that nobody plans.
LEMMA ClaimFirstKeeps ==
  ASSUME Inv, NEW w \in Workers, NEW r \in Runs, r = worker[w].run, Goto(w, "claimed"),
         Claimable(r, 0), planned' = [planned EXCEPT ![r][0] = "claimed"],
         UNCHANGED <<control, open, world, run, job, scene, overdue, requests, applied, crashes, limits>>
  PROVE  Inv' /\ Current
<1>1. /\ planned \in [Runs -> [Rounds -> PlanStatus]] /\ 0 \in Rounds
      /\ \A k \in Rounds : k \in Nat
  BY ConstantsTyped DEF Inv, TypeOK, PlanStatus
<1>2. /\ planned' \in [Runs -> [Rounds -> PlanStatus]]
      /\ \A q \in Runs : q # r => planned'[q] = planned[q]
      /\ planned'[r][0] = "claimed" /\ \A j \in Rounds : j # 0 => planned'[r][j] = planned[r][j]
  BY <1>1 DEF PlanStatus
<1>3. /\ Beat(r) /\ planned[r][0] = "none" /\ run[r].state = "planning" /\ ~Queued(r)
      /\ run[r].choice \in 0 .. MaxEffects /\ run[r].effects \in 0 .. MaxEffects
  BY DEF Inv, Claimable, TypeOK
<1>4. \A j \in Rounds : planned[r][j] = "none" /\ requests[r][j] = Unsent
  <2> TAKE j \in Rounds
  <2>1. j > 0 \/ j = 0
    BY <1>1
  <2>2. planned[r][j] = "none"
    BY <1>1, <1>3, <2>1 DEF Beat
  <2> QED BY <1>3, <2>2 DEF Beat
<1>5. /\ worker' \in [Workers -> WorkerType]
      /\ \A v \in Workers : v # w => worker'[v] = worker[v]
      /\ worker'[w].pc = "claimed" /\ worker'[w].run = r /\ worker'[w].round = 0
  <2>1. "claimed" \in PCs /\ TypeOK
    BY DEF PCs, Inv
  <2> QED BY <2>1, GotoSets
<1>6. \A v \in Workers : Plans(v) => worker[v].run # r
  <2>1. ASSUME NEW v \in Workers, Plans(v), worker[v].run = r
        PROVE  FALSE
    <3>1. Planner(v) /\ worker[v].round \in Rounds
      BY <2>1, PlannerSays, WorkerRun
    <3> QED BY <1>4, <2>1, <3>1 DEF Planner, Plans
  <2> QED BY <2>1
<1>7. Planner(w)'
  <2>1. \A j \in Rounds : j > 0 => j # 0
    BY <1>1
  <2> QED BY <1>2, <1>4, <1>5, <2>1, <1>1 DEF Planner, Plans
<1>8. Planners'
  BY <1>2, <1>5, <1>6, <1>7, OnePlanner
<1>9. run[r].effects = 0
  BY <1>3 DEF Beat
<1>10. Beat(r)'
  <2>1. ASSUME NEW j \in Rounds
        PROVE  /\ requests'[r][j] = Unsent /\ planned'[r][j] \in {"none", "claimed"}
               /\ planned'[r][j] = "claimed" => j = 0
    BY <1>2, <1>4
  <2>2. \A j \in Rounds : ~(j < 0)
    BY <1>1
  <2>3. Unsent.sent <= MaxAttempts
    BY DmAssumption DEF Unsent
  <2> QED BY <1>3, <1>9, <2>1, <2>2, <2>3 DEF Beat, Outstanding, Outstandings, Queued
<1>11. OnlyBeat(r)
  BY <1>2 DEF OnlyBeat, Inv, TypeOK, RunType
<1>12. Calm(r)
  BY DEF Calm, Outstanding
<1>13. Inv'
  BY <1>5, <1>8, <1>10, <1>11, <1>12, RestKept, StepKeeps
<1>14. EffectsUnderAuthority /\ PublishedSceneIsCurrent
  BY DEF EffectsUnderAuthority, PublishedSceneIsCurrent
<1> QED BY <1>13, <1>14 DEF Current

\* The plan is final: no round of the run is open after it.
PlanSettled(r) ==
  /\ planned' \in [Runs -> [Rounds -> PlanStatus]]
  /\ \A q \in Runs : q # r => planned'[q] = planned[q]
  /\ \A k \in Rounds :
       /\ planned'[r][k] # "claimed"
       /\ \/ planned'[r][k] = planned[r][k]
          \/ planned[r][k] = "claimed" /\ planned'[r][k] = "settled"

\* What is left of a beat that was being planned when its plan is final.
LEMMA PlanSettledSays ==
  ASSUME Inv, NEW r \in Runs, run[r].state = "planning", PlanSettled(r), requests' = requests
  PROVE  /\ run[r].effects = 0 /\ run[r].choice = 0
         /\ \A i \in Effects : applied[r][i] = 0
         /\ \A k \in Rounds :
              /\ requests'[r][k].sent <= MaxAttempts
              /\ planned'[r][k] = "none" => requests'[r][k] = Unsent
              /\ planned'[r][k] # "none" =>
                   \A j \in Rounds : j < k => planned'[r][j] \in {"settled", "unknown"}
              /\ planned'[r][k] \notin {"claimed", "unknown"}
<1>1. Beat(r) /\ run[r].choice \in 0 .. MaxEffects /\ run[r].effects \in 0 .. MaxEffects
  BY DEF Inv, TypeOK
<1>2. run[r].effects = 0 /\ run[r].choice = 0 /\ Outstanding(r)
  BY <1>1 DEF Beat, Outstanding, Outstandings
<1>3. \A i \in Effects : applied[r][i] = 0
  <2>1. \A i \in Effects : ~(i <= 0)
    BY DmAssumption DEF Effects
  <2> QED BY <1>1, <1>2, <2>1 DEF Beat
<1>4. \A k \in Rounds :
        /\ requests[r][k].sent <= MaxAttempts
        /\ planned[r][k] = "none" => requests[r][k] = Unsent
        /\ planned[r][k] # "none" =>
             \A j \in Rounds : j < k => planned[r][j] \in {"settled", "unknown"}
        /\ planned[r][k] # "unknown"
  BY <1>1, <1>2 DEF Beat
<1>5. \A k \in Rounds :
        /\ planned'[r][k] # "claimed"
        /\ planned'[r][k] = planned[r][k] \/ (planned[r][k] = "claimed" /\ planned'[r][k] = "settled")
  BY DEF PlanSettled
<1> QED BY <1>2, <1>3, <1>4, <1>5

\* A hold, or a beat without candidates: the narration is queued.
LEMMA HoldKeeps ==
  ASSUME Inv, NEW r \in Runs, run[r].state = "planning", PlanSettled(r), RestTyped,
         job' = [job EXCEPT ![r] = world],
         UNCHANGED <<control, run, requests, applied>>,
         worker' \in [Workers -> WorkerType], Planners'
  PROVE  Inv' /\ Current
<1>1. job' \in [Runs -> 0 .. NoJob] /\ \A q \in Runs : q # r => job'[q] = job[q]
  <2>1. world \in 0 .. NoJob /\ job \in [Runs -> 0 .. NoJob]
    BY DmAssumption DEF Inv, TypeOK, NoJob
  <2> QED BY <2>1
<1>2. OnlyBeat(r)
  BY <1>1 DEF OnlyBeat, PlanSettled, Inv, TypeOK, RunType
<1>3. Calm(r)
  BY DEF Calm, Outstanding
<1>4. Beat(r)'
  <2> DEFINE e == run'[r].effects
  <2>1. e = 0 /\ run'[r] = run[r] /\ run[r].state = "planning" /\ run'[r].choice = 0 /\ e <= 0
    BY PlanSettledSays
  <2>2. \A i \in Effects : applied'[r][i] = 0 /\ ~(i <= 0)
    BY PlanSettledSays, DmAssumption DEF Effects
  <2>3. \A k \in Rounds :
          /\ requests'[r][k].sent <= MaxAttempts
          /\ planned'[r][k] = "none" => requests'[r][k] = Unsent
          /\ planned'[r][k] # "none" =>
               \A j \in Rounds : j < k => planned'[r][j] \in {"settled", "unknown"}
          /\ planned'[r][k] \notin {"claimed", "unknown"}
    BY PlanSettledSays
  <2> QED BY <2>1, <2>2, <2>3 DEF Beat
<1>5. Inv'
  BY <1>2, <1>3, <1>4, StepKeeps
<1>6. EffectsUnderAuthority /\ PublishedSceneIsCurrent
  BY DEF EffectsUnderAuthority, PublishedSceneIsCurrent
<1> QED BY <1>5, <1>6 DEF Current

\* A proposal of n effects.
LEMMA ProposalKeeps ==
  ASSUME Inv, NEW r \in Runs, run[r].state = "planning", ~Queued(r), PlanSettled(r), RestTyped,
         NEW n \in 0 .. MaxEffects,
         run' = [run EXCEPT ![r].state = "awaiting-approval", ![r].choice = n],
         UNCHANGED <<control, job, requests, applied>>,
         worker' \in [Workers -> WorkerType], Planners'
  PROVE  Inv' /\ Current
<1>1. run \in [Runs -> RunType] /\ "awaiting-approval" \in States
  BY DEF Inv, TypeOK, RunType, States, Outstandings
<1>2. /\ [run[r] EXCEPT !.state = "awaiting-approval", !.choice = n] \in RunType
      /\ run' = [run EXCEPT ![r] = [run[r] EXCEPT !.state = "awaiting-approval", !.choice = n]]
  <2>1. run[r] \in RunType
    BY <1>1
  <2>2. [run[r] EXCEPT !.state = "awaiting-approval", !.choice = n] \in RunType
    BY ONLY <1>1, <2>1, n \in 0 .. MaxEffects DEF RunType
  <2> QED BY <1>1, <2>2
<1>3. /\ run' \in [Runs -> RunType]
      /\ run'[r] = [run[r] EXCEPT !.state = "awaiting-approval", !.choice = n]
      /\ \A q \in Runs : q # r => run'[q] = run[q]
  BY <1>1, <1>2
<1>4. /\ run'[r].intent = run[r].intent
      /\ run'[r].mode = run[r].mode /\ run'[r].revision = run[r].revision
      /\ run'[r].choice = n /\ run'[r].effects = run[r].effects
      /\ run'[r].state = "awaiting-approval"
  BY <1>1, <1>3 DEF RunType
<1>5. OnlyBeat(r)
  BY <1>3 DEF OnlyBeat, PlanSettled, Inv, TypeOK
<1>6. Calm(r)
  BY <1>4 DEF Calm, Outstanding, Outstandings
<1>7. Beat(r)'
  <2>1. run'[r].effects = 0 /\ 0 <= n
    BY <1>4, PlanSettledSays
  <2>2. \A i \in Effects : applied'[r][i] = 0 /\ ~(i <= 0)
    BY PlanSettledSays, DmAssumption DEF Effects
  <2>3. \A k \in Rounds :
          /\ requests'[r][k].sent <= MaxAttempts
          /\ planned'[r][k] = "none" => requests'[r][k] = Unsent
          /\ planned'[r][k] # "none" =>
               \A j \in Rounds : j < k => planned'[r][j] \in {"settled", "unknown"}
          /\ planned'[r][k] \notin {"claimed", "unknown"}
    BY PlanSettledSays
  <2>4. ~Queued(r)'
    BY DEF Queued
  <2> QED BY <1>4, <2>1, <2>2, <2>3, <2>4 DEF Beat
<1>8. Inv'
  BY <1>5, <1>6, <1>7, StepKeeps
<1>9. EffectsUnderAuthority
  BY DEF EffectsUnderAuthority
<1>10. PublishedSceneIsCurrent
  BY <1>3, <1>4 DEF PublishedSceneIsCurrent
<1> QED BY <1>8, <1>9, <1>10 DEF Current

\* claimDmPlanning() ends the planning, or claims the first round.
LEMMA ClaimDmPlanningKeeps ==
  ASSUME Inv, NEW w \in Workers, ClaimDmPlanning(w), UNCHANGED limits
  PROVE  Inv' /\ Current
<1> DEFINE r == worker[w].run
<1>1. UNCHANGED <<control, open, world, scene, overdue, requests, applied, crashes>>
  BY DEF ClaimDmPlanning
<1>2. r \in Runs /\ planned \in [Runs -> [Rounds -> PlanStatus]] /\ "execute" \in Elsewhere
      /\ 0 \in Rounds /\ RestTyped
  BY <1>1, WorkerRun, ConstantsTyped, RestKept DEF Inv, TypeOK, PlanStatus, Elsewhere, PCs
<1>3. CASE PlanningSettled(r) /\ Goto(w, "execute")
  <2>1. CASE MayStop(r) /\ UNCHANGED <<job, planned>>
    BY <1>1, <1>2, <1>3, <2>1, LeavesKeeps
  <2>2. CASE /\ planned[r][0] = "claimed" /\ run' = Stopped(r, "unknown")
             /\ planned' = [planned EXCEPT ![r][0] = "unknown"] /\ UNCHANGED job
    <3>1. /\ planned' \in [Runs -> [Rounds -> PlanStatus]]
          /\ \A q \in Runs : q # r => planned'[q] = planned[q]
          /\ planned'[r][0] = "unknown" /\ \A k \in Rounds : k # 0 => planned'[r][k] = planned[r][k]
      <4>1. "unknown" \in PlanStatus
        BY DEF PlanStatus
      <4> QED BY <1>2, <2>2, <4>1
    <3>2. TypeOK /\ "unknown" \in Endings
      BY DEF Inv, Endings
    <3>3. Ends(r)
      BY <1>1, <1>2, <2>2, <3>1, <3>2, StoppedSets DEF Ends, Endings
    <3>4. \A q \in Runs : Undisturbed(q)
      BY <1>1, <2>2, <3>1 DEF Undisturbed
    <3>5. worker' \in [Workers -> WorkerType] /\ Planners'
      BY <1>2, <1>3, <3>4, WorkerRun, Leaves
    <3> QED BY <1>2, <3>3, <3>5, EndsKeeps
  <2>3. CASE /\ run[r].state = "planning" /\ ~Queued(r) /\ planned[r][0] = "none"
             /\ UNCHANGED planned
             /\ \/ job' = NarrationQueued(r, world) /\ UNCHANGED run
                \/ /\ run' = [run EXCEPT ![r].state = "awaiting-approval", ![r].choice = 1]
                   /\ UNCHANGED job
    <3>1. worker' \in [Workers -> WorkerType] /\ Planners'
      BY <1>1, <1>2, <1>3, <2>3, NoneDisturbed, Leaves
    <3>2. \A k \in Rounds : planned[r][k] = "none"
      <4> TAKE k \in Rounds
      <4>1. k = 0 \/ 0 < k
        BY ConstantsTyped
      <4>2. Beat(r)
        BY <1>2 DEF Inv
      <4> QED BY <1>2, <2>3, <4>1, <4>2 DEF Beat
    <3>3. PlanSettled(r)
      BY <1>2, <2>3, <3>2 DEF PlanSettled
    <3>4. CASE job' = NarrationQueued(r, world) /\ UNCHANGED run
      BY <1>1, <1>2, <2>3, <3>1, <3>3, <3>4, HoldKeeps DEF NarrationQueued
    <3>5. CASE /\ run' = [run EXCEPT ![r].state = "awaiting-approval", ![r].choice = 1]
               /\ UNCHANGED job
      <4>1. 1 \in 0 .. MaxEffects
        BY DmAssumption
      <4> QED BY <1>1, <1>2, <2>3, <3>1, <3>3, <3>5, <4>1, ProposalKeeps
    <3> QED BY <2>3, <3>4, <3>5
  <2>4. \/ MayStop(r) /\ UNCHANGED <<job, planned>>
        \/ /\ planned[r][0] = "claimed" /\ run' = Stopped(r, "unknown")
           /\ planned' = [planned EXCEPT ![r][0] = "unknown"] /\ UNCHANGED job
        \/ /\ run[r].state = "planning" /\ ~Queued(r) /\ planned[r][0] = "none"
           /\ UNCHANGED planned
           /\ \/ job' = NarrationQueued(r, world) /\ UNCHANGED run
              \/ /\ run' = [run EXCEPT ![r].state = "awaiting-approval", ![r].choice = 1]
                 /\ UNCHANGED job
    BY <1>3 DEF PlanningSettled, MayStop, Endings
  <2> QED BY <2>1, <2>2, <2>3, <2>4
<1>4. CASE /\ Claimable(r, 0) /\ planned' = [planned EXCEPT ![r][0] = "claimed"]
           /\ Goto(w, "claimed") /\ UNCHANGED <<run, job>>
  BY <1>1, <1>2, <1>4, ClaimFirstKeeps
<1> QED BY <1>3, <1>4 DEF ClaimDmPlanning

\* The end of a planning call.
LEMMA SettleDmPlanningKeeps ==
  ASSUME Inv, NEW w \in Workers, NEW n \in 0 .. MaxEffects,
         NEW reply \in {"reads", "choice", "retriable", "unknown"},
         SettleDmPlanning(w, reply, n), UNCHANGED limits
  PROVE  Inv' /\ Current
<1> DEFINE r == worker[w].run
           k == worker[w].round
           heard == Understood(r, k, reply)
           next == CASE heard = "reads" -> "reads"
                     [] heard = "choice" -> "execute"
                     [] OTHER -> "narrate"
<1>1. UNCHANGED <<control, open, world, scene, overdue, requests, applied, crashes>>
  BY DEF SettleDmPlanning
<1>2. /\ r \in Runs /\ k \in Rounds /\ TypeOK /\ RestTyped
      /\ planned \in [Runs -> [Rounds -> PlanStatus]]
  BY <1>1, WorkerRun, RestKept DEF Inv, TypeOK, PlanStatus
<1>3. /\ worker[w].pc = "calling" /\ Plans(w) /\ Settled(r, k, heard, n) /\ Goto(w, next)
  BY DEF SettleDmPlanning, Plans
<1>4. heard = "reads" => run[r].state = "planning" /\ k < LastRound
  BY <1>2, DmAssumption DEF Understood, Rounds
<1>5. heard \in {"reads", "choice", "retriable", "unknown"} /\ next \in PCs
      /\ next \in {"reads", "execute", "narrate"} /\ (next = "reads" => heard = "reads")
  BY DEF Understood, PCs
<1>6. Planner(w) /\ \A v \in Workers : v # w /\ Plans(v) => worker[v].run # r
  BY <1>3, PlannerSays
<1>7. \A j \in Rounds : j # k => planned[r][j] # "claimed"
  BY <1>3, OneClaim
<1> HIDE DEF r, k, heard, next
<1>8. /\ worker' \in [Workers -> WorkerType]
      /\ \A v \in Workers : v # w => worker'[v] = worker[v]
      /\ worker'[w].pc = next /\ worker'[w].run = r /\ (next = "reads" => worker'[w].round = k)
  BY <1>2, <1>3, <1>5, GotoSets DEF r, k
<1>9. /\ planned' \in [Runs -> [Rounds -> PlanStatus]]
      /\ \A q \in Runs : q # r => planned'[q] = planned[q]
      /\ \A j \in Rounds : j # k => planned'[r][j] = planned[r][j]
      /\ planned[r][k] = "claimed" => planned'[r][k] \in {"settled", "unknown"}
      /\ planned[r][k] # "claimed" => planned'[r][k] = planned[r][k]
  BY <1>2, <1>3 DEF Settled, PlanStatus
<1>10. planned[r][k] \in {"claimed", "unknown"} /\ planned'[r][k] \in {"settled", "unknown"}
  <2>1. planned[r][k] \in {"claimed", "unknown"}
    BY <1>3, <1>6 DEF Planner, r, k
  <2> QED BY <1>9, <2>1
<1>11. Planner(w)'
  <2>1. \A j \in Rounds : j > k => planned'[r][j] = "none" /\ j # k
    <3>1. \A j \in Rounds : j > k => planned[r][j] = "none" /\ j # k
      BY <1>2, <1>3, <1>6, ConstantsTyped DEF Planner, r, k
    <3> QED BY <1>9, <3>1
  <2> QED BY <1>4, <1>5, <1>8, <1>10, <2>1 DEF Planner, Plans
<1>12. Planners'
  <2>1. \A q \in Runs : q # r => planned'[q] = planned[q] /\ requests'[q] = requests[q]
    BY <1>1, <1>9
  <2> QED BY <1>2, <1>6, <1>8, <1>11, <2>1, OnePlanner DEF r
<1>13. ASSUME MayStop(r), UNCHANGED job,
              planned'[r][k] # planned[r][k] /\ planned'[r][k] = "unknown" =>
                \E s \in Endings : run' = Stopped(r, s)
       PROVE  Inv' /\ Current
  <2>1. /\ run' \in [Runs -> RunType]
        /\ \A q \in Runs : q # r => run'[q] = run[q]
        /\ run'[r].intent = run[r].intent
        /\ run'[r].mode = run[r].mode /\ run'[r].revision = run[r].revision
        /\ run'[r].choice = run[r].choice /\ run'[r].effects = run[r].effects
        /\ \/ run'[r].state = run[r].state
           \/ Outstanding(r) /\ run'[r].state \in Endings
        /\ (\E s \in Endings : run' = Stopped(r, s)) => run'[r].state \notin Outstandings
    <3>1. CASE run' = run /\ ~(\E s \in Endings : run' = Stopped(r, s))
      BY <1>2, <3>1 DEF TypeOK, RunType
    <3>2. CASE \E s \in Endings : run' = Stopped(r, s)
      BY <1>2, <3>2, StoppedSets
    <3> QED BY <1>13, <3>1, <3>2 DEF MayStop
  <2>2. ASSUME NEW j \in Rounds
        PROVE  \/ planned'[r][j] = planned[r][j]
               \/ planned[r][j] = "claimed" /\ planned'[r][j] = "settled"
               \/ /\ planned[r][j] = "claimed" /\ planned'[r][j] = "unknown"
                  /\ run'[r].state \notin Outstandings
    <3>1. CASE j # k
      BY <1>9, <3>1
    <3>2. CASE j = k
      BY <1>9, <1>10, <1>13, <2>1, <3>2
    <3> QED BY <3>1, <3>2
  <2>3. Ends(r)
    BY <1>1, <1>9, <1>13, <2>1, <2>2 DEF Ends, Endings
  <2> QED BY <1>2, <1>8, <1>12, <2>3, EndsKeeps
<1>14. CASE planned[r][k] # "claimed"
  BY <1>3, <1>9, <1>13, <1>14 DEF Settled, MayStop
<1>15. CASE planned[r][k] = "claimed" /\ Failed(r, k, heard)
  <2>1. PICK s \in Endings : run' = Stopped(r, s) /\ UNCHANGED job
    BY <1>3, <1>15 DEF Settled, Endings
  <2> QED BY <1>13, <2>1 DEF MayStop
<1>16. CASE planned[r][k] = "claimed" /\ ~Failed(r, k, heard)
  <2>1. /\ planned'[r][k] = "settled"
        /\ UNCHANGED <<run, job>> \/ Finalized(r, n)
    BY <1>2, <1>3, <1>16 DEF Settled
  <2>2. CASE UNCHANGED <<run, job>>
    BY <1>13, <2>1, <2>2 DEF MayStop
  <2>3. CASE (\E s \in Endings : run' = Stopped(r, s)) /\ UNCHANGED job
    BY <1>13, <2>3 DEF MayStop
  <2>4. PlanSettled(r)
    BY <1>7, <1>9, <1>16, <2>1 DEF PlanSettled
  <2>5. CASE run[r].state = "planning" /\ job' = NarrationQueued(r, world) /\ UNCHANGED run
    BY <1>1, <1>2, <1>8, <1>12, <2>4, <2>5, HoldKeeps DEF NarrationQueued
  <2>6. CASE /\ run[r].state = "planning" /\ UNCHANGED job
             /\ run' = [run EXCEPT ![r].state = "awaiting-approval", ![r].choice = n]
    <3>1. ~Queued(r)
      BY <1>2, <1>16, <2>6 DEF Inv, Beat, Outstanding, Outstandings
    <3> QED BY <1>1, <1>2, <1>8, <1>12, <2>4, <2>6, <3>1, ProposalKeeps
  <2> QED BY <2>1, <2>2, <2>3, <2>5, <2>6 DEF Finalized, Endings
<1> QED BY <1>14, <1>15, <1>16

-----------------------------------------------------------------------------
(* The execution of a composition.                                         *)

\* A pass commits under the authority of the moment, in order, and no effect
\* that an earlier pass committed.
LEMMA ComposedKeeps ==
  ASSUME Inv, NEW r \in Runs, NEW decided \in Decisions, NEW n, NEW moved \in BOOLEAN,
         NEW end, Composed(r, decided, n, moved, end), Executable(r), Refusal(r) = "none",
         decided = IF run[r].mode = "ai" THEN "ai-policy-v1" ELSE "human-approved",
         crashes' \in 0 .. limits.crashes,
         UNCHANGED <<control, open, planned, scene, overdue, requests, limits>>,
         worker' \in [Workers -> WorkerType], Planners'
  PROVE  Inv' /\ Current
<1> DEFINE e == IF run[r].effects > n THEN run[r].effects ELSE n
           s == IF end = "failed" THEN "blocked" ELSE run[r].state
<1>1. /\ run \in [Runs -> RunType] /\ applied \in [Runs -> [Effects -> Nat]]
      /\ job \in [Runs -> 0 .. NoJob] /\ world \in 0 .. MaxWorld
      /\ planned \in [Runs -> [Rounds -> PlanStatus]]
  BY DEF Inv, TypeOK, RunType, PlanStatus
<1>2. /\ run[r].state = "awaiting-approval" /\ ~Queued(r) /\ Outstanding(r) /\ Beat(r)
      /\ Active(r) /\ ~run[r].late /\ world = run[r].fresh
  BY DEF Executable, Outstanding, Outstandings, Refusal, Fresh, Inv
<1>3. run[r].effects \in 0 .. MaxEffects /\ run[r].choice \in 0 .. MaxEffects /\ MaxEffects \in Nat
  BY <1>1, DmAssumption DEF RunType
<1>4. /\ n \in 0 .. MaxEffects /\ n <= run[r].choice /\ (n > 0 => run[r].effects = 0)
  BY <1>3 DEF Composed, Committable
<1>5. e \in 0 .. MaxEffects /\ s \in States /\ e <= run[r].choice
      /\ (end = "queued" => e = run[r].choice)
  <2>1. e \in 0 .. MaxEffects /\ e <= run[r].choice
    BY <1>2, <1>3, <1>4 DEF Beat
  <2>2. s \in States
    BY <1>1 DEF RunType, States
  <2>3. end = "queued" => n = run[r].choice
    BY DEF Composed
  <2> QED BY <1>3, <1>4, <2>1, <2>2, <2>3
<1>6. run' = [run EXCEPT ![r].decided = decided, ![r].effects = e, ![r].state = s]
  BY DEF Composed
<1> HIDE DEF e, s
<1>7. /\ [run[r] EXCEPT !.decided = decided, !.effects = e, !.state = s] \in RunType
      /\ run' = [run EXCEPT ![r] = [run[r] EXCEPT !.decided = decided, !.effects = e, !.state = s]]
  <2>1. run[r] \in RunType
    BY <1>1
  <2>2. [run[r] EXCEPT !.decided = decided, !.effects = e, !.state = s] \in RunType
    BY ONLY <2>1, <1>5, decided \in Decisions DEF RunType
  <2> QED BY <1>1, <1>6, <2>2
<1>8. /\ run' \in [Runs -> RunType]
      /\ run'[r] = [run[r] EXCEPT !.decided = decided, !.effects = e, !.state = s]
      /\ \A q \in Runs : q # r => run'[q] = run[q]
  BY <1>1, <1>7
<1>9. /\ run'[r].intent = run[r].intent
      /\ run'[r].mode = run[r].mode /\ run'[r].revision = run[r].revision
      /\ run'[r].choice = run[r].choice /\ run'[r].effects = e
      /\ run'[r].state = s /\ run'[r].decided = decided
  BY <1>1, <1>8 DEF RunType
<1>10. world' \in 0 .. MaxWorld
  <2>1. limits.world \in 0 .. MaxWorld
    BY DmAssumption DEF Inv, TypeOK, Bounds
  <2> QED BY <1>1, <2>1, DmAssumption DEF Composed
<1>11. /\ job' \in [Runs -> 0 .. NoJob] /\ \A q \in Runs : q # r => job'[q] = job[q]
       /\ end # "queued" => job'[r] = job[r]
  <2>1. world' \in 0 .. NoJob
    BY <1>10, DmAssumption DEF NoJob
  <2>2. job' = [job EXCEPT ![r] = world'] \/ (job' = job /\ end # "queued")
    BY DEF Composed, NarrationQueued
  <2>3. job' = [job EXCEPT ![r] = world'] => end = "queued" \/ job' = job
    BY DEF Composed
  <2> QED BY <1>1, <2>1, <2>2, <2>3
<1>12. /\ applied' \in [Runs -> [Effects -> Nat]]
       /\ \A q \in Runs : q # r => applied'[q] = applied[q]
       /\ \A i \in Effects : applied'[r][i] = IF i <= n THEN applied[r][i] + 1 ELSE applied[r][i]
  <2>1. applied' = [applied EXCEPT ![r] =
                      [i \in Effects |-> IF i <= n THEN applied[r][i] + 1 ELSE applied[r][i]]]
    BY DEF Composed
  <2>2. [i \in Effects |-> IF i <= n THEN applied[r][i] + 1 ELSE applied[r][i]] \in [Effects -> Nat]
    BY <1>1
  <2> QED BY <1>1, <2>1, <2>2
<1>13. \A i \in Effects : applied'[r][i] = IF i <= e THEN 1 ELSE 0
  <2> TAKE i \in Effects
  <2>1. applied[r][i] = (IF i <= run[r].effects THEN 1 ELSE 0) /\ i \in 1 .. MaxEffects
    BY <1>2 DEF Beat, Effects
  <2> QED BY <1>3, <1>4, <1>12, <2>1 DEF e
<1>14. \A k \in Rounds : planned[r][k] \notin {"claimed", "unknown"}
  BY <1>2 DEF Beat
<1>15. Beat(r)'
  <2>1. s \in {"awaiting-approval", "blocked"} /\ (s = "blocked" <=> end = "failed")
    BY <1>2 DEF s
  <2>2. s = "awaiting-approval" /\ Queued(r)' => e = run[r].choice
    BY <1>2, <1>5, <1>11 DEF Queued, NoJob
  <2>3. \A k \in Rounds :
          /\ requests'[r][k].sent <= MaxAttempts
          /\ planned'[r][k] = "none" => requests'[r][k] = Unsent
          /\ planned'[r][k] # "none" =>
               \A j \in Rounds : j < k => planned'[r][j] \in {"settled", "unknown"}
          /\ planned'[r][k] \notin {"claimed", "unknown"}
    BY <1>2, <1>14 DEF Beat
  <2> QED BY <1>5, <1>9, <1>13, <2>1, <2>2, <2>3 DEF Beat, Outstanding, Outstandings
<1>16. OnlyBeat(r)
  BY <1>1, <1>8, <1>11, <1>12 DEF OnlyBeat, Inv, TypeOK
<1>17. Calm(r)
  BY <1>2, <1>9 DEF Calm, Outstandings, s
<1>18. RestTyped
  BY <1>10 DEF RestTyped, Inv, TypeOK
<1>19. Inv'
  BY <1>15, <1>16, <1>17, <1>18, StepKeeps
<1>20. EffectsUnderAuthority
  <2>1. control = [mode |-> run[r].mode, revision |-> run[r].revision] /\ open
    BY <1>2, ControlIs
  <2> QED BY <1>2, <1>9, <1>12, <2>1 DEF EffectsUnderAuthority
<1>21. PublishedSceneIsCurrent
  <2>1. run'[r].state # "completed"
    BY <1>2, <1>9 DEF s
  <2> QED BY <1>8, <2>1 DEF PublishedSceneIsCurrent
<1> QED BY <1>19, <1>20, <1>21 DEF Current

LEMMA ExecuteCompositionKeeps ==
  ASSUME Inv, NEW w \in Workers, NEW n, NEW moved \in BOOLEAN,
         NEW end, ExecuteComposition(w, n, moved, end), UNCHANGED limits
  PROVE  Inv' /\ Current
<1> DEFINE r == worker[w].run
<1>1. /\ r \in Runs /\ Executable(r) /\ Refusal(r) = "none" /\ Decided(r)
      /\ Composed(r, Decision(r), n, moved, end)
      /\ UNCHANGED <<control, open, planned, scene, overdue, requests>>
  BY WorkerRun DEF ExecuteComposition
<1>2. /\ Decision(r) = IF run[r].mode = "ai" THEN "ai-policy-v1" ELSE "human-approved"
      /\ Decision(r) \in Decisions
  BY <1>1 DEF Decision, Decided, Decisions
<1>3. /\ crashes' \in 0 .. limits.crashes
      /\ worker' \in [Workers -> WorkerType] /\ Planners'
  <2>1. CASE end = "cut"
    <3>1. crashes < limits.crashes /\ crashes' = crashes + 1 /\ worker' = [v \in Workers |-> Idle]
      BY <2>1 DEF ExecuteComposition
    <3>2. limits.crashes \in 0 .. MaxCrashes
      BY DmAssumption DEF Inv, TypeOK, Bounds
    <3>3. crashes' \in 0 .. limits.crashes
      BY <3>1, <3>2, DmAssumption DEF Inv, TypeOK
    <3>4. worker' \in [Workers -> WorkerType] /\ \A v \in Workers : ~Plans(v)'
      BY <3>1, ConstantsTyped DEF Plans
    <3> QED BY <3>3, <3>4, PlannersKept
  <2>2. CASE end # "cut"
    <3>1. Goto(w, "narrate") /\ "narrate" \in Elsewhere /\ UNCHANGED crashes
      BY <2>2 DEF ExecuteComposition, Elsewhere, PCs
    <3>2. crashes' \in 0 .. limits.crashes
      BY <3>1 DEF Inv, TypeOK
    <3> QED BY <1>1, <3>1, <3>2, Leaves, NoneDisturbed
  <2> QED BY <2>1, <2>2
<1> QED BY <1>1, <1>2, <1>3, ComposedKeeps

LEMMA DecideApprovedKeeps ==
  ASSUME Inv, NEW r \in Runs, NEW n, NEW moved \in BOOLEAN,
         NEW end, DecideApproved(r, n, moved, end), UNCHANGED limits
  PROVE  Inv' /\ Current
<1>1. /\ Executable(r) /\ Refusal(r) = "none" /\ run[r].mode = "human"
      /\ Composed(r, "human-approved", n, moved, end)
      /\ UNCHANGED <<control, open, planned, scene, overdue, worker, requests, crashes>>
  BY DEF DecideApproved, Decidable
<1>2. "human-approved" \in Decisions
  BY DEF Decisions
<1>3. /\ crashes' \in 0 .. limits.crashes
      /\ worker' \in [Workers -> WorkerType] /\ Planners'
  BY <1>1, PlannersKept, NoneDisturbed DEF Inv, TypeOK, WorkerType
<1> QED BY <1>1, <1>2, <1>3, ComposedKeeps

-----------------------------------------------------------------------------
(* The steps about every beat of the room.                                 *)

\* A takeover cancels what is outstanding.
LEMMA SetDmControlKeeps ==
  ASSUME Inv, NEW mode \in Modes, SetDmControl(mode), UNCHANGED limits
  PROVE  Inv' /\ Current
<1>1. UNCHANGED <<open, world, job, planned, scene, overdue, worker, requests, applied, crashes>>
  BY DEF SetDmControl
<1>2. run \in [Runs -> RunType] /\ control \in [mode : Modes, revision : 0 .. MaxRevision]
  BY DEF Inv, TypeOK, RunType
<1>3. control' \in [mode : Modes, revision : 0 .. MaxRevision]
  <2>1. limits.revision \in 0 .. MaxRevision
    BY DmAssumption DEF Inv, TypeOK, Bounds
  <2> QED BY <1>2, <2>1, DmAssumption DEF SetDmControl
<1>4. \A r \in Runs : [run[r] EXCEPT !.state = "cancelled"] \in RunType
  BY <1>2 DEF RunType, States
<1>5. \A r \in Runs :
        run'[r] = IF Outstanding(r) THEN [run[r] EXCEPT !.state = "cancelled"] ELSE run[r]
  BY DEF SetDmControl
<1>6. run' \in [Runs -> RunType]
  <2>1. \A r \in Runs :
          (IF Outstanding(r) THEN [run[r] EXCEPT !.state = "cancelled"] ELSE run[r]) \in RunType
    BY <1>2, <1>4
  <2> QED BY <2>1 DEF SetDmControl
<1>7. \A r \in Runs :
        /\ run'[r].intent = run[r].intent
        /\ run'[r].choice = run[r].choice /\ run'[r].effects = run[r].effects
        /\ \/ run'[r].state = "cancelled" /\ Outstanding(r)
           \/ run'[r].state = run[r].state /\ ~Outstanding(r)
        /\ run'[r].state \notin Outstandings
  <2> TAKE r \in Runs
  <2>1. CASE Outstanding(r)
    <3>1. run'[r] = [run[r] EXCEPT !.state = "cancelled"] /\ run[r] \in RunType
      BY <1>2, <1>5, <2>1
    <3> QED BY <2>1, <3>1 DEF RunType, Outstandings
  <2>2. CASE ~Outstanding(r)
    BY <1>5, <2>2 DEF Outstanding
  <2> QED BY <2>1, <2>2
<1>8. TypeOK'
  BY <1>1, <1>3, <1>6 DEF Inv, TypeOK, RunType
<1>9. Planners'
  BY <1>1, PlannersKept, NoneDisturbed
<1>10. \A r \in Runs : Beat(r)'
  <2> TAKE r \in Runs
  <2>1. Beat(r)
    BY DEF Inv
  <2>2. UNCHANGED <<job, planned, requests, applied>>
    BY <1>1
  <2> QED BY <1>7, <2>1, <2>2 DEF Beat, Outstanding, Outstandings, Queued
<1>11. Room'
  BY <1>7 DEF Inv, Room, Outstanding
<1>12. TakeoverIsFinal'
  BY <1>7 DEF TakeoverIsFinal, Outstanding
<1>13. EffectsUnderAuthority /\ PublishedSceneIsCurrent
  BY <1>1, <1>7 DEF EffectsUnderAuthority, PublishedSceneIsCurrent
<1> QED BY <1>8, <1>9, <1>10, <1>11, <1>12, <1>13 DEF Inv, Current

\* How an outstanding beat gives the room up.
LEMMA DisplacedSays ==
  ASSUME NEW r \in Runs
  PROVE  /\ Displaced(r) \in {"cancelled", "unknown", "none"}
         /\ Displaced(r) = "unknown" => planned[r][0] = "claimed"
BY DEF Displaced

LEMMA UnopenedTyped ==
  /\ Unopened \in RunType /\ Unopened.state = "none"
  /\ Unopened.effects = 0 /\ Unopened.choice = 0
<1>1. 0 \in 0 .. MaxWorld /\ 0 \in 0 .. MaxRevision /\ 0 \in 0 .. MaxEffects
  BY DmAssumption
<1> QED BY <1>1 DEF Unopened, RunType, States, Modes, Candidates, Decisions

LEMMA StateTyped ==
  ASSUME NEW x \in RunType, NEW s \in States
  PROVE  [x EXCEPT !.state = s] \in RunType
BY DEF RunType

\* A beat is opened; the one that held the room is stopped.
LEMMA OpenDmBeatKeeps ==
  ASSUME Inv, NEW r \in Runs, NEW intent \in {"open", "continue"}, NEW cands \in Candidates,
         OpenDmBeat(r, intent, cands), UNCHANGED limits
  PROVE  Inv' /\ Current
<1> DEFINE fresh == [Unopened EXCEPT !.state = IF open THEN "planning" ELSE "blocked",
                                     !.intent = intent, !.cands = cands, !.fresh = world,
                                     !.mode = control.mode, !.revision = control.revision]
<1>1. UNCHANGED <<control, open, world, job, scene, overdue, worker, requests, applied, crashes>>
  BY DEF OpenDmBeat
<1>2. /\ run \in [Runs -> RunType] /\ control \in [mode : Modes, revision : 0 .. MaxRevision]
      /\ planned \in [Runs -> [Rounds -> PlanStatus]] /\ world \in 0 .. MaxWorld
  BY DEF Inv, TypeOK, RunType, PlanStatus
<1>3. run[r].state = "none" /\ MayOpen(intent) /\ Beat(r)
  BY DEF OpenDmBeat, Inv
<1>4. /\ fresh \in RunType /\ fresh.state \in {"planning", "blocked"} /\ fresh.intent = intent
      /\ fresh.mode = control.mode /\ fresh.revision = control.revision
      /\ fresh.choice = 0 /\ fresh.effects = 0
  <2> DEFINE s == IF open THEN "planning" ELSE "blocked"
  <2>1. s \in {"planning", "blocked"} /\ s \in States
    BY DEF States, Outstandings
  <2>2. control.mode \in Modes /\ control.revision \in 0 .. MaxRevision
    BY <1>2
  <2>3. fresh = [Unopened EXCEPT !.state = s, !.intent = intent, !.cands = cands, !.fresh = world,
                                 !.mode = control.mode, !.revision = control.revision]
    OBVIOUS
  <2> HIDE DEF s, fresh
  <2>4. Unopened \in RunType /\ Unopened.choice = 0 /\ Unopened.effects = 0
    BY UnopenedTyped
  <2>5. world \in 0 .. MaxWorld /\ intent \in {"open", "continue"} /\ cands \in Candidates
    BY <1>2
  <2>6. /\ fresh \in RunType /\ fresh.state = s /\ fresh.intent = intent
        /\ fresh.mode = control.mode /\ fresh.revision = control.revision
        /\ fresh.choice = Unopened.choice /\ fresh.effects = Unopened.effects
    BY ONLY <2>1, <2>2, <2>3, <2>4, <2>5 DEF RunType
  <2> QED BY <2>1, <2>4, <2>6
<1> HIDE DEF fresh
<1>5. \A q \in Runs : Outstanding(q) => Displaced(q) \in {"cancelled", "unknown"}
  BY <1>3, DisplacedSays DEF MayOpen, Priors
<1>6. \A q \in Runs : run'[q] = IF q = r THEN fresh
                               ELSE IF Outstanding(q) THEN [run[q] EXCEPT !.state = Displaced(q)]
                               ELSE run[q]
  BY <1>5 DEF OpenDmBeat, fresh
<1>7. run' \in [Runs -> RunType]
  <2>1. \A q \in Runs : run'[q] \in RunType
    <3> TAKE q \in Runs
    <3>1. CASE Outstanding(q)
      <4>1. Displaced(q) \in States
        BY <1>5, <3>1 DEF States
      <4>2. run[q] \in RunType
        BY <1>2
      <4>3. [run[q] EXCEPT !.state = Displaced(q)] \in RunType
        BY <4>1, <4>2, StateTyped
      <4> QED BY <1>4, <1>6, <3>1, <4>3
    <3>2. CASE ~Outstanding(q)
      BY <1>2, <1>4, <1>6, <3>2
    <3> QED BY <3>1, <3>2
  <2>2. run' = [q \in Runs |-> run'[q]]
    BY DEF OpenDmBeat
  <2> QED BY <2>1, <2>2
<1>8. \A q \in Runs : q # r =>
        /\ run'[q].intent = run[q].intent
        /\ run'[q].choice = run[q].choice /\ run'[q].effects = run[q].effects
        /\ \/ run'[q].state \in {"cancelled", "unknown"} /\ Outstanding(q)
           \/ run'[q].state = run[q].state /\ ~Outstanding(q)
        /\ run'[q].state \notin Outstandings
  <2> TAKE q \in Runs
  <2> HAVE q # r
  <2>1. CASE Outstanding(q)
    <3>1. /\ run'[q] = [run[q] EXCEPT !.state = Displaced(q)]
          /\ Displaced(q) \in {"cancelled", "unknown"} /\ run[q] \in RunType
      BY <1>2, <1>5, <1>6, <2>1
    <3> QED BY <2>1, <3>1 DEF RunType, Outstandings
  <2>2. CASE ~Outstanding(q)
    BY <1>6, <2>2 DEF Outstanding
  <2> QED BY <2>1, <2>2
<1>9. /\ planned' \in [Runs -> [Rounds -> PlanStatus]] /\ planned'[r] = planned[r]
      /\ \A q \in Runs, k \in Rounds :
           \/ planned'[q][k] = planned[q][k]
           \/ /\ planned[q][k] = "claimed" /\ planned'[q][k] = "unknown"
              /\ q # r /\ Outstanding(q)
  <2>1. \A q \in Runs :
          planned'[q] = IF Outstanding(q) /\ Displaced(q) = "unknown"
                          THEN [planned[q] EXCEPT ![0] = "unknown"] ELSE planned[q]
    BY DEF OpenDmBeat
  <2>2. \A q \in Runs : [planned[q] EXCEPT ![0] = "unknown"] \in [Rounds -> PlanStatus]
    <3> TAKE q \in Runs
    <3>1. planned[q] \in [Rounds -> PlanStatus] /\ "unknown" \in PlanStatus
      BY <1>2 DEF PlanStatus
    <3> QED BY <3>1
  <2>3. planned' \in [Runs -> [Rounds -> PlanStatus]]
    <3>1. ASSUME NEW q \in Runs
          PROVE  planned'[q] \in [Rounds -> PlanStatus]
      <4>1. \/ planned'[q] = [planned[q] EXCEPT ![0] = "unknown"]
            \/ planned'[q] = planned[q]
        BY <2>1
      <4> QED BY <1>2, <2>2, <4>1
    <3>2. planned' = [q \in Runs |-> planned'[q]]
      BY DEF OpenDmBeat
    <3> QED BY <3>1, <3>2
  <2>4. ~Outstanding(r)
    BY <1>3 DEF Outstanding, Outstandings
  <2>5. ASSUME NEW q \in Runs, NEW k \in Rounds
        PROVE  \/ planned'[q][k] = planned[q][k]
               \/ /\ planned[q][k] = "claimed" /\ planned'[q][k] = "unknown"
                  /\ q # r /\ Outstanding(q)
    <3>1. CASE Outstanding(q) /\ Displaced(q) = "unknown"
      <4>1. planned[q][0] = "claimed" /\ q # r
        BY <2>4, <3>1, DisplacedSays
      <4>2. planned'[q] = [planned[q] EXCEPT ![0] = "unknown"] /\ planned[q] \in [Rounds -> PlanStatus]
        BY <1>2, <2>1, <3>1
      <4> QED BY <3>1, <4>1, <4>2
    <3>2. CASE ~(Outstanding(q) /\ Displaced(q) = "unknown")
      BY <2>1, <3>2
    <3> QED BY <3>1, <3>2
  <2> QED BY <2>1, <2>3, <2>4, <2>5
<1>10. TypeOK'
  BY <1>1, <1>7, <1>9 DEF Inv, TypeOK, RunType, PlanStatus
<1>11. Planners'
  <2>1. \A v \in Workers : Undisturbed(worker[v].run)
    BY <1>1, <1>9, WorkerRun DEF Undisturbed
  <2> QED BY <1>1, <2>1, PlannersKept
<1>12. \A q \in Runs : Beat(q)'
  <2> TAKE q \in Runs
  <2>1. Beat(q) /\ UNCHANGED <<job, requests, applied>>
    BY <1>1 DEF Inv
  <2>2. CASE q = r
    <3>1. run'[r] = fresh /\ planned'[r] = planned[r]
      BY <1>6, <1>9
    <3>2. /\ run[r].effects = 0 /\ ~Queued(r) /\ \A k \in Rounds : planned[r][k] = "none"
      BY <1>3 DEF Beat
    <3>3. \A i \in Effects : applied[r][i] = IF i <= 0 THEN 1 ELSE 0
      BY <1>3, <3>2 DEF Beat
    <3>4. \A k \in Rounds : requests[r][k] = Unsent
      BY <1>3, <3>2 DEF Beat
    <3> QED BY <1>4, <2>1, <2>2, <3>1, <3>2, <3>3, <3>4 DEF Beat, Outstanding, Queued
  <2>3. CASE q # r
    <3>1. \A k \in Rounds :
            \/ planned'[q][k] = planned[q][k]
            \/ planned[q][k] = "claimed" /\ planned'[q][k] = "unknown" /\ Outstanding(q)
      BY <1>9
    <3>2. /\ run'[q].choice = run[q].choice /\ run'[q].effects = run[q].effects
          /\ \/ run'[q].state \in {"cancelled", "unknown"} /\ Outstanding(q)
             \/ run'[q].state = run[q].state /\ ~Outstanding(q)
          /\ run'[q].state \notin Outstandings
      BY <1>8, <2>3
    <3> QED BY <2>1, <3>1, <3>2 DEF Beat, Outstanding, Outstandings, Queued
  <2> QED BY <2>2, <2>3
<1>13. Room'
  <2>1. ASSUME NEW q \in Runs, q # r
        PROVE  /\ ~Outstanding(q)'
               /\ run'[q].state = "completed" => run[q].state = "completed"
               /\ run'[q].intent = run[q].intent
    BY <1>8, <2>1 DEF Outstanding
  <2>2. run'[r].intent = intent /\ run'[r].state # "completed"
    BY <1>4, <1>6
  <2>3. ASSUME NEW q \in Runs, q # r, intent = "open", run[q].intent = "open"
        PROVE  run[q].state # "completed"
    BY <1>3, <2>3 DEF MayOpen
  <2> QED BY <2>1, <2>2, <2>3 DEF Inv, Room
<1>14. TakeoverIsFinal'
  BY <1>1, <1>4, <1>6, <1>8 DEF TakeoverIsFinal, Outstanding
<1>15. EffectsUnderAuthority
  BY <1>1 DEF EffectsUnderAuthority
<1>16. PublishedSceneIsCurrent
  BY <1>4, <1>6, <1>8 DEF PublishedSceneIsCurrent
<1> QED BY <1>10, <1>11, <1>12, <1>13, <1>14, <1>15, <1>16 DEF Inv, Current

-----------------------------------------------------------------------------
(* The theorems.                                                           *)

LEMMA InitInv == ASSUME Init PROVE Inv
<1> DEFINE none == [k \in Rounds |-> "none"]
           zero == [k \in Rounds |-> Unsent]
           unapplied == [i \in Effects |-> 0]
<1>1. /\ control = [mode |-> "human", revision |-> 0] /\ open = TRUE /\ world = 0
      /\ run = [r \in Runs |-> Unopened] /\ job = [r \in Runs |-> NoJob]
      /\ planned = [r \in Runs |-> none] /\ scene = [r \in Runs |-> "none"] /\ overdue = {}
      /\ worker = [w \in Workers |-> Idle] /\ requests = [r \in Runs |-> zero]
      /\ applied = [r \in Runs |-> unapplied] /\ crashes = 0 /\ limits \in Limits
  BY DEF Init
<1>2. /\ none \in [Rounds -> PlanStatus] /\ zero \in [Rounds -> RequestCount] /\ unapplied \in [Effects -> Nat]
      /\ \A k \in Rounds : none[k] = "none" /\ zero[k] = Unsent /\ Unsent.sent <= MaxAttempts
      /\ \A i \in Effects : unapplied[i] = 0
  BY DmAssumption DEF PlanStatus, RequestCount, Unsent
<1>3. /\ 0 \in 0 .. MaxWorld /\ 0 \in 0 .. MaxRevision /\ 0 \in 0 .. MaxEffects /\ NoJob \in 0 .. NoJob
      /\ 0 \in 0 .. limits.crashes
  <2>1. limits.crashes \in 0 .. MaxCrashes
    BY <1>1, DmAssumption DEF Bounds
  <2> QED BY <2>1, DmAssumption DEF NoJob
<1>4. Unopened \in RunType /\ Unopened.state = "none" /\ Unopened.effects = 0 /\ Unopened.choice = 0
  BY UnopenedTyped
<1> HIDE DEF none, zero, unapplied
<1>5. TypeOK
  <2>1. control \in [mode : Modes, revision : 0 .. MaxRevision]
    BY <1>1, <1>3 DEF Modes
  <2>2. open \in BOOLEAN /\ world \in 0 .. MaxWorld
    BY <1>1, <1>3
  <2>3. run \in [Runs -> RunType] /\ job \in [Runs -> 0 .. NoJob]
    BY <1>1, <1>3, <1>4
  <2>4. planned \in [Runs -> [Rounds -> PlanStatus]]
    BY <1>1, <1>2
  <2>5. scene \in [Runs -> {"none", "claimed", "fallback", "assisted"}]
    BY <1>1
  <2>6. overdue \subseteq Runs \X (0 .. Narration)
    BY <1>1
  <2>7. worker \in [Workers -> WorkerType]
    BY <1>1, ConstantsTyped
  <2>8. requests \in [Runs -> [Rounds -> RequestCount]] /\ applied \in [Runs -> [Effects -> Nat]]
    BY <1>1, <1>2
  <2>9. crashes \in 0 .. limits.crashes /\ limits \in Limits
    BY <1>1, <1>3
  <2> QED BY <2>1, <2>2, <2>3, <2>4, <2>5, <2>6, <2>7, <2>8, <2>9 DEF TypeOK, RunType, PlanStatus, WorkerType
<1>6. Planners
  BY <1>1, ConstantsTyped DEF Planners, Plans
<1>7. \A r \in Runs : Beat(r)
  <2> TAKE r \in Runs
  <2>1. run[r] = Unopened /\ ~Queued(r) /\ planned[r] = none /\ requests[r] = zero /\ applied[r] = unapplied
    BY <1>1 DEF Queued
  <2>2. \A i \in Effects : ~(i <= 0)
    BY DmAssumption DEF Effects
  <2> QED BY <1>2, <1>4, <2>1, <2>2 DEF Beat, Outstanding, Outstandings
<1>8. \A r \in Runs : ~Outstanding(r) /\ run[r].state # "completed"
  BY <1>1, <1>4 DEF Outstanding, Outstandings
<1> QED BY <1>5, <1>6, <1>7, <1>8 DEF Inv, Room, TakeoverIsFinal

LEMMA StutterKeeps ==
  ASSUME Inv, UNCHANGED vars
  PROVE  Inv' /\ Current
<1>1. PICK r \in Runs : TRUE
  BY DmAssumption
<1>2. RestTyped
  BY RestKept DEF vars
<1> QED BY <1>1, <1>2, OutsideKeeps DEF vars, MayStop

LEMMA WorkerStepKeeps ==
  ASSUME Inv, NEW w \in Workers, WorkerStep(w), UNCHANGED limits
  PROVE  Inv' /\ Current
<1>1. CASE \E n \in 0 .. MaxEffects, moved \in BOOLEAN, end \in {"queued", "failed", "cut"} :
             ExecuteComposition(w, n, moved, end)
  BY <1>1, ExecuteCompositionKeeps
<1>2. CASE \E reply \in {"reads", "choice", "retriable", "unknown"}, n \in 0 .. MaxEffects :
             SettleDmPlanning(w, reply, n)
  BY <1>2, SettleDmPlanningKeeps
<1>3. CASE \E valid \in BOOLEAN : SettleDmNarration(w, valid)
  BY <1>3, SettleDmNarrationKeeps
<1>4. CASE \E failure \in {"refused", "transport"} : Retry(w, failure)
  BY <1>4, RetryKeeps, WorkerRun
<1> QED BY <1>1, <1>2, <1>3, <1>4, ExecuteNothingKeeps, ExecuteRefusedKeeps, SettingsUnavailableKeeps,
           ClaimDmPlanningKeeps, OverBudgetKeeps, BindDmProviderRequestKeeps,
           ClaimDmPlanningRoundKeeps, FenceKeeps, GetDmNarrationWorkKeeps,
           ClaimDmNarrationKeeps, SettleUnclaimedKeeps DEF WorkerStep

LEMMA RequestedKeeps ==
  ASSUME Inv, Requested, UNCHANGED limits
  PROVE  Inv' /\ Current
<1>1. CASE \E mode \in Modes : SetDmControl(mode)
  BY <1>1, SetDmControlKeeps
<1>2. CASE \E r \in Runs, intent \in {"open", "continue"}, cands \in Candidates :
             OpenDmBeat(r, intent, cands)
  BY <1>2, OpenDmBeatKeeps
<1>3. CASE \E r \in Runs : DecideRefused(r)
  BY <1>3, DecideRefusedKeeps
<1>4. CASE \E r \in Runs, n \in 0 .. MaxEffects, moved \in BOOLEAN, end \in {"queued", "failed"} :
             DecideApproved(r, n, moved, end)
  BY <1>4, DecideApprovedKeeps
<1>5. CASE \E w \in Workers, r \in Runs : Orchestrate(w, r)
  BY <1>5, OrchestrateKeeps
<1> QED BY <1>1, <1>2, <1>3, <1>4, <1>5 DEF Requested

LEMMA NextKeeps ==
  ASSUME Inv, [Next]_vars
  PROVE  Inv' /\ Current
<1>1. CASE UNCHANGED vars
  BY <1>1, StutterKeeps
<1>2. CASE Next
  <2>1. UNCHANGED limits
    BY <1>2 DEF Next
  <2>2. CASE \E w \in Workers : WorkerStep(w)
    BY <2>1, <2>2, WorkerStepKeeps
  <2>3. CASE Requested
    BY <2>1, <2>3, RequestedKeeps
  <2>4. CASE Passing
    BY <2>1, <2>4, RunExpiresKeeps, ClaimExpiresKeeps DEF Passing
  <2>5. CASE SetOpen \/ Play
    BY <2>1, <2>5, TableKeeps
  <2>6. CASE Crash
    BY <2>1, <2>6, CrashKeeps
  <2> QED BY <1>2, <2>2, <2>3, <2>4, <2>5, <2>6 DEF Next
<1> QED BY <1>1, <1>2

\* The inductive invariant says what the beats of a room promise.
LEMMA InvImplies ==
  ASSUME Inv
  PROVE  BeatsAreSound
<1>1. TypeOK /\ TakeoverIsFinal /\ \A r \in Runs : Beat(r)
  BY DEF Inv
<1>2. OpenedOnce
  <2> DEFINE opened == {r \in Runs : run[r].intent = "open" /\ run[r].state = "completed"}
  <2>1. CASE opened = {}
    BY <2>1, FS_EmptySet DEF OpenedOnce
  <2>2. CASE opened # {}
    <3>1. PICK p \in opened : TRUE
      BY <2>2
    <3>2. opened = {p}
      BY <3>1 DEF Inv, Room
    <3>3. Cardinality({p}) = 1
      BY FS_Singleton
    <3> QED BY <3>2, <3>3 DEF OpenedOnce
  <2> QED BY <2>1, <2>2
<1>3. EachEffectOnce
  BY <1>1 DEF EachEffectOnce, Beat
<1>4. CompletedIsWhole
  BY <1>1 DEF CompletedIsWhole, Beat
<1>5. DispatchedByOne
  BY <1>1 DEF DispatchedByOne, Beat
<1>6. UnknownIsFinal
  BY <1>1 DEF UnknownIsFinal, Beat
<1> QED BY <1>1, <1>2, <1>3, <1>4, <1>5, <1>6 DEF BeatsAreSound

\* Whatever requests, takeovers, expiries and crashes meet: a takeover ends what
\* was planned, one beat opens the room, each effect is committed once and a
\* beat as a whole, an unknown answer is final, and a planning round costs at
\* most the requests of one call: its retries are counted, also those after a
\* lost answer, but no second orchestration adds to them.
THEOREM BeatsSound == Spec => []BeatsAreSound
<1>1. Init => Inv
  BY InitInv
<1>2. Inv /\ [Next]_vars => Inv'
  BY NextKeeps
<1>3. Inv => BeatsAreSound
  BY InvImplies
<1> QED BY <1>1, <1>2, <1>3, PTL DEF Spec

\* Every step that commits an effect or publishes a scene does so under the
\* authority and over the world of that moment (execute(), getDmNarrationWork()).
THEOREM AuthorityCurrent == Spec => AuthorityIsCurrent
<1>1. Init => Inv
  BY InitInv
<1>2. Inv /\ [Next]_vars => Inv'
  BY NextKeeps
<1>3. Inv /\ [Next]_vars => [EffectsUnderAuthority /\ PublishedSceneIsCurrent]_vars
  BY NextKeeps DEF Current
<1> QED BY <1>1, <1>2, <1>3, PTL DEF Spec, AuthorityIsCurrent
=============================================================================
