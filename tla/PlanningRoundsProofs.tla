------------------------ MODULE PlanningRoundsProofs ------------------------
(***************************************************************************)
(* The safety of PlanningRounds for every set of workers, every number of  *)
(* rounds, every lease and every number of crashes and of moves of the     *)
(* timeline.                                                               *)
(*                                                                         *)
(* The inductive invariant Inv adds to the order of the rounds what joins  *)
(* the rows of a round to each other (Rows) and to the memory of the       *)
(* workers: a claimed round has one asker (Askers), who seals holds the    *)
(* stored success (Sealers), and who settles over another worker's claim   *)
(* does it past the lease or after the turn (Failers).  Most steps of a    *)
(* worker touch no row: they are one shape, Moves.  Each step that writes  *)
(* a row has a lemma of its own.                                           *)
(***************************************************************************)
EXTENDS PlanningRounds, TLAPS

-----------------------------------------------------------------------------
(* The inductive invariant.                                                *)

\* Where a worker is while the round it holds is claimed.
Held == {"claimed", "waiting", "settle", "fail", "settled", "persist", "recover"}

\* The worker that took the round's claim and has not settled it yet.
Asks(w) == worker[w].pc \in {"claimed", "waiting", "settle"}

\* A round has one asker, and what it holds in memory is what the rows and the
\* provider say of the round.
Askers ==
  /\ \A w \in Workers : worker[w].pc \in Held => worker[w].round \in Claimed
  /\ \A v, w \in Workers :
       v # w /\ Asks(v) /\ Asks(w) => worker[v].round # worker[w].round
  /\ \A w \in Workers :
       /\ worker[w].pc = "claimed" => requests[worker[w].round] = 0
       /\ worker[w].pc \in {"claimed", "waiting"} => heard[worker[w].round] = "none"
       /\ worker[w].pc = "settle" => /\ worker[w].answer \in Batch
                                     /\ heard[worker[w].round] = worker[w].answer

\* A worker that is about to seal a round holds its stored success.
Sealers ==
  \A w \in Workers :
    /\ worker[w].pc \in {"settled", "persist"} =>
         /\ response[worker[w].round] \in Batch
         /\ response[worker[w].round] = worker[w].answer
    /\ worker[w].pc = "recover" => response[worker[w].round] \in Batch

\* Who settles a failure over another worker's claim found the lease expired
\* or the turn over, and neither is ever undone.
Failers ==
  \A w \in Workers : worker[w].pc = "fail" =>
    \/ Late \/ turn = "terminal"
    \/ \A v \in Workers : Asks(v) => worker[v].round # worker[w].round

\* The rows of a round follow each other: a request and an answer belong to a
\* claim, a success is the answer, a decision is the success.
Rows ==
  /\ \A n \in Rounds :
       /\ requests[n] <= 1
       /\ n \notin Claimed => requests[n] = 0 /\ heard[n] = "none" /\ response[n] = "none"
       /\ response[n] \in Batch => heard[n] = response[n]
       /\ n \in Decided => response[n] \in Batch /\ decision[n].batch = response[n]
  /\ \A n \in proposal : decision[n].batch = "mutation"

Inv == TypeOK /\ Askers /\ Sealers /\ Failers /\ Rows /\ RoundsInOrder

\* What SettlementsAreSound says of one step.
Settles == FirstSettlementStands /\ SuccessIsCurrent /\ LiveClaimsAreLeftAlone

-----------------------------------------------------------------------------
(* Steps that write no row of a round.                                     *)

WorkerType == [pc : Step, rev : Nat, timeline : Nat, exec : Nat, round : Rounds,
               answer : Batch \cup {"none"}]

\* A turn that is over stays over.
TurnGoesOn ==
  /\ turn' \in TurnState /\ rev' \in Nat
  /\ turn = "terminal" => turn' = "terminal"

\* Only w goes on, and it does not become the asker of a round.
OnlyWorker(w) ==
  /\ worker' \in [Workers -> WorkerType]
  /\ \A v \in Workers : v # w => worker'[v] = worker[v]
  /\ worker'[w].pc \notin {"claimed", "waiting", "settle"}

\* What the worker holds afterwards is justified by the rows.
Justified(w) ==
  /\ worker'[w].pc \in Held => worker'[w].round \in Claimed
  /\ worker'[w].pc \in {"settled", "persist"} =>
       response[worker'[w].round] \in Batch /\ response[worker'[w].round] = worker'[w].answer
  /\ worker'[w].pc = "recover" => response[worker'[w].round] \in Batch
  /\ worker'[w].pc = "fail" =>
       \/ Late \/ turn = "terminal"
       \/ Asks(w) /\ worker'[w].round = worker[w].round

Moves(w) ==
  /\ UNCHANGED <<store, history, timeline, now, crashes, limits>>
  /\ TurnGoesOn /\ OnlyWorker(w) /\ Justified(w)

\* The rows keep what is said of them.
LEMMA RowsKept ==
  ASSUME Inv, UNCHANGED <<store, history>>
  PROVE  Rows' /\ RoundsInOrder' /\ Claimed' = Claimed
<1> USE DEF Inv, store, history
<1>1. Claimed' = Claimed /\ Decided' = Decided
  BY DEF Claimed, Decided
<1> QED BY <1>1 DEF Rows, RoundsInOrder

\* Where nothing is settled, nothing is settled wrongly.
LEMMA NothingSettled ==
  ASSUME UNCHANGED response
  PROVE  Settles
BY DEF Settles, FirstSettlementStands, SuccessIsCurrent, LiveClaimsAreLeftAlone, Batch

\* A worker that moves keeps the invariant.
LEMMA MovesKeeps ==
  ASSUME Inv, NEW w \in Workers, Moves(w)
  PROVE  Inv' /\ Settles
<1> USE DEF Inv
<1>1. /\ Rows' /\ RoundsInOrder' /\ Claimed' = Claimed
      /\ UNCHANGED <<claim, response, decision, read, proposal, replanned, exec,
                     requests, heard, timeline, now, crashes, limits>>
  BY RowsKept DEF Moves, store, history
<1>2. /\ worker' \in [Workers -> WorkerType]
      /\ \A v \in Workers : v # w => worker'[v] = worker[v]
      /\ worker'[w].pc \notin {"claimed", "waiting", "settle"}
  BY DEF Moves, OnlyWorker
<1>3. \A v \in Workers : Asks(v)' => v # w /\ Asks(v) /\ worker'[v] = worker[v]
  BY <1>2 DEF Asks
<1>4. TypeOK'
  BY <1>1, <1>2 DEF TypeOK, Moves, TurnGoesOn, WorkerType
<1>5. Askers'
  BY <1>1, <1>2, <1>3 DEF Askers, Moves, Justified
<1>6. Sealers'
  BY <1>1, <1>2 DEF Sealers, Moves, Justified
<1>7. Failers'
  <2> SUFFICES ASSUME NEW u \in Workers, worker'[u].pc = "fail", ~Late', turn' # "terminal",
                      NEW v \in Workers, Asks(v)'
               PROVE  worker'[v].round # worker'[u].round
    BY DEF Failers
  <2>1. ~Late /\ turn # "terminal"
    BY <1>1 DEF Late, Moves, TurnGoesOn
  <2>2. v # w /\ Asks(v) /\ worker'[v] = worker[v]
    BY <1>3
  <2>3. CASE u # w
    BY <1>2, <2>1, <2>2, <2>3 DEF Failers
  <2>4. CASE u = w
    BY <2>1, <2>2, <2>4 DEF Moves, Justified, Askers
  <2> QED BY <2>3, <2>4
<1>8. Settles
  BY <1>1, NothingSettled
<1> QED BY <1>1, <1>4, <1>5, <1>6, <1>7, <1>8

\* A worker that goes to another step of the loop and holds the same round.
LEMMA GotoMoves ==
  ASSUME TypeOK, NEW w \in Workers, NEW pc \in Step \ {"claimed", "waiting", "settle"},
         Goto(w, pc)
  PROVE  /\ OnlyWorker(w)
         /\ worker'[w].pc = pc /\ worker'[w].round = worker[w].round
         /\ worker'[w].answer = worker[w].answer
<1>1. worker' = [worker EXCEPT ![w].pc = pc]
  BY DEF Goto
<1>2. worker \in [Workers -> WorkerType]
  BY DEF TypeOK, WorkerType
<1>3. worker' \in [Workers -> WorkerType]
  BY <1>1, <1>2 DEF WorkerType
<1> QED BY <1>1, <1>2, <1>3 DEF OnlyWorker, WorkerType

\* An event of an open turn.
LEMMA AdvanceGoesOn ==
  ASSUME TypeOK, NEW state \in TurnState, Advance(state), turn # "terminal"
  PROVE  TurnGoesOn /\ UNCHANGED timeline
BY DEF TypeOK, Advance, TurnGoesOn

\* No event at all.
LEMMA NothingGoesOn ==
  ASSUME TypeOK, UNCHANGED coordination
  PROVE  TurnGoesOn /\ UNCHANGED timeline
BY DEF TypeOK, coordination, TurnGoesOn

-----------------------------------------------------------------------------
(* The steps of a worker that only move it.                                *)

\* A worker that enters the loop.
LEMMA EntersMoves ==
  ASSUME TypeOK, NEW w \in Workers, NEW n \in Rounds,
         NEW pc \in Step \ {"claimed", "waiting", "settle"}, Enters(w, pc, n)
  PROVE  OnlyWorker(w) /\ worker'[w].pc = pc /\ worker'[w].round = n
<1> DEFINE entered == [pc |-> pc, rev |-> rev, exec |-> exec,
                       timeline |-> timeline, round |-> n, answer |-> "none"]
<1>1. worker' = [worker EXCEPT ![w] = entered]
  BY DEF Enters
<1>2. worker \in [Workers -> WorkerType] /\ entered \in WorkerType
  BY DEF TypeOK, WorkerType
<1>3. worker'[w] = entered /\ \A v \in Workers : v # w => worker'[v] = worker[v]
  BY <1>1, <1>2
<1>4. worker' \in [Workers -> WorkerType]
  BY <1>1, <1>2
<1> QED BY <1>3, <1>4 DEF OnlyWorker

LEMMA ResumeMoves ==
  ASSUME Inv, NEW w \in Workers, Resume(w), UNCHANGED limits
  PROVE  Moves(w)
<1> USE DEF Inv
<1>1. ASSUME NEW n \in Rounds, EnterOrphan(w, n)
      PROVE  Moves(w)
  <2>1. /\ UNCHANGED <<store, history, coordination, now, crashes>>
        /\ Orphaned(n) /\ Enters(w, "fail", n)
    BY <1>1 DEF EnterOrphan
  <2>2. OnlyWorker(w) /\ worker'[w].pc = "fail" /\ worker'[w].round = n
    BY <2>1, EntersMoves DEF Step
  <2>3. Justified(w)
    BY <2>1, <2>2 DEF Justified, Orphaned, Open
  <2> QED BY <2>1, <2>2, <2>3, NothingGoesOn DEF Moves
<1>2. ASSUME NEW n \in Rounds, EnterAnswered(w, n)
      PROVE  Moves(w)
  <2>1. /\ UNCHANGED <<store, history, coordination, now, crashes>>
        /\ n \in Open /\ response[n] # "none"
    BY <1>2 DEF EnterAnswered
  <2>2. PICK pc \in {"recover", "fallback"} :
          Enters(w, pc, n) /\ (pc = "recover" => response[n] # "failed")
    BY <1>2 DEF EnterAnswered
  <2>3. OnlyWorker(w) /\ worker'[w].pc = pc /\ worker'[w].round = n
    BY <2>2, EntersMoves DEF Step
  <2>4. response[n] \in Batch \cup {"none", "failed"}
    BY DEF TypeOK
  <2>5. Justified(w)
    BY <2>1, <2>2, <2>3, <2>4 DEF Justified, Open, Held
  <2> QED BY <2>1, <2>3, <2>5, NothingGoesOn DEF Moves
<1>3. ASSUME NEW n \in Rounds, EnterDecided(w, n)
      PROVE  Moves(w)
  <2>1. /\ UNCHANGED <<store, history, now, crashes>>
        /\ worker[w].pc = "idle" /\ turn = "declared"
    BY <1>3 DEF EnterDecided
  <2>2. CASE Advance("terminal") /\ UNCHANGED worker
    <3>1. OnlyWorker(w) /\ Justified(w)
      BY <2>1, <2>2 DEF OnlyWorker, Justified, Held, TypeOK, WorkerType
    <3> QED BY <2>1, <2>2, <3>1, AdvanceGoesOn DEF Moves, TurnState
  <2>3. CASE UNCHANGED coordination /\ \E pc \in {"fallback", "act"} : Enters(w, pc, n)
    <3>1. PICK pc \in {"fallback", "act"} : Enters(w, pc, n)
      BY <2>3
    <3>2. OnlyWorker(w) /\ worker'[w].pc = pc
      BY <3>1, EntersMoves DEF Step
    <3>3. Justified(w)
      BY <3>2 DEF Justified, Held
    <3> QED BY <2>1, <2>3, <3>2, <3>3, NothingGoesOn DEF Moves
  <2> QED BY <1>3, <2>2, <2>3 DEF EnterDecided
<1>4. CASE EnterFresh(w)
  <2>1. UNCHANGED <<store, history, coordination, now, crashes>> /\ Enters(w, "plan", 1)
    BY <1>4 DEF EnterFresh
  <2>2. 1 \in Rounds
    BY LimitsAssumption DEF Rounds
  <2>3. OnlyWorker(w) /\ worker'[w].pc = "plan"
    BY <2>1, <2>2, EntersMoves DEF Step
  <2>4. Justified(w)
    BY <2>3 DEF Justified, Held
  <2> QED BY <2>1, <2>3, <2>4, NothingGoesOn DEF Moves
<1> QED BY <1>1, <1>2, <1>3, <1>4 DEF Resume

LEMMA PlanMoves ==
  ASSUME Inv, NEW w \in Workers, Plan(w), UNCHANGED limits
  PROVE  Moves(w)
<1> USE DEF Inv
<1>1. UNCHANGED <<store, history, coordination, now, crashes>>
  BY DEF Plan
<1>2. OnlyWorker(w) /\ worker'[w].pc \in {"fallback", "claim"}
  <2>1. CASE Goto(w, "fallback")
    BY <2>1, GotoMoves DEF Step
  <2>2. CASE \E n \in 1..limits.rounds :
               worker' = [worker EXCEPT ![w].pc = "claim", ![w].round = n, ![w].exec = exec]
    <3>1. PICK n \in 1..limits.rounds :
            worker' = [worker EXCEPT ![w].pc = "claim", ![w].round = n, ![w].exec = exec]
      BY <2>2
    <3>2. n \in Rounds
      <4>1. limits.rounds \in 1..MaxRounds
        BY LimitsAssumption DEF TypeOK
      <4> QED BY <4>1, LimitsAssumption DEF Rounds
    <3>3. worker \in [Workers -> WorkerType] /\ exec \in Nat
      BY DEF TypeOK, WorkerType
    <3>4. worker' \in [Workers -> WorkerType]
      <4>1. [worker[w] EXCEPT !.pc = "claim", !.round = n, !.exec = exec] \in WorkerType
        BY <3>2, <3>3 DEF WorkerType, Step
      <4> QED BY <3>1, <3>3, <4>1
    <3> QED BY <3>1, <3>3, <3>4 DEF OnlyWorker, WorkerType
  <2> QED BY <2>1, <2>2 DEF Plan
<1>3. Justified(w)
  BY <1>2 DEF Justified, Held
<1> QED BY <1>1, <1>2, <1>3, NothingGoesOn DEF Moves

LEMMA RereadMoves ==
  ASSUME Inv, NEW w \in Workers, Reread(w), UNCHANGED limits
  PROVE  Moves(w)
<1> USE DEF Inv
<1>1. UNCHANGED <<store, history, coordination, now, crashes>> /\ worker[w].pc = "settled"
  BY DEF Reread
<1>2. PICK pc \in {"fallback", "persist"} :
        worker' = [worker EXCEPT ![w].pc = pc, ![w].exec = exec]
  BY DEF Reread
<1>3. worker \in [Workers -> WorkerType] /\ exec \in Nat
  BY DEF TypeOK, WorkerType
<1>4. worker' \in [Workers -> WorkerType]
  <2>1. [worker[w] EXCEPT !.pc = pc, !.exec = exec] \in WorkerType
    BY <1>3 DEF WorkerType, Step
  <2> QED BY <1>2, <1>3, <2>1
<1>5. /\ worker'[w].pc = pc /\ worker'[w].round = worker[w].round
      /\ worker'[w].answer = worker[w].answer
  BY <1>2, <1>3 DEF WorkerType
<1>6. OnlyWorker(w)
  BY <1>2, <1>4, <1>5 DEF OnlyWorker
<1>7. Justified(w)
  BY <1>1, <1>2, <1>5 DEF Justified, Held, Askers, Sealers
<1> QED BY <1>1, <1>6, <1>7, NothingGoesOn DEF Moves

\* A worker that leaves the rows to the others, or crashes.
LEMMA LeaveMoves ==
  ASSUME Inv, NEW w \in Workers, UNCHANGED <<store, history, timeline, now, limits>>,
         NEW pc \in {"idle", "plan", "act", "fallback"}, Goto(w, pc), TurnGoesOn,
         UNCHANGED crashes
  PROVE  Moves(w)
<1>1. OnlyWorker(w) /\ worker'[w].pc = pc
  BY GotoMoves DEF Step, Inv
<1>2. Justified(w)
  BY <1>1 DEF Justified, Held
<1> QED BY <1>1, <1>2 DEF Moves

LEMMA FallbackMoves ==
  ASSUME Inv, NEW w \in Workers, Fallback(w), UNCHANGED limits
  PROVE  Moves(w)
<1>1. UNCHANGED <<store, now, crashes, history>> /\ Goto(w, "idle")
  BY DEF Fallback
<1>2. TurnGoesOn /\ UNCHANGED timeline
  BY AdvanceGoesOn, NothingGoesOn DEF Fallback, TurnState, Inv
<1> QED BY <1>1, <1>2, LeaveMoves

-----------------------------------------------------------------------------
(* The steps that write a row.                                             *)

\* A claim is taken where there is none, and its taker is the only asker.
LEMMA ClaimKeeps ==
  ASSUME Inv, NEW w \in Workers, Claim(w), UNCHANGED limits
  PROVE  Inv' /\ Settles
<1> USE DEF Inv
<1> DEFINE n == worker[w].round
<1>1. /\ UNCHANGED <<response, decision, read, proposal, replanned,
                     coordination, now, crashes, history>>
      /\ worker[w].pc = "claim"
  BY DEF Claim
<1>2. CASE n \in Claimed /\ Replays(w, n) /\ UNCHANGED <<claim, exec>>
  <2>1. PICK pc \in {"fallback", "fail", "idle"} : Goto(w, pc) /\ (pc = "fail" => Late)
    BY <1>2 DEF Replays
  <2>2. OnlyWorker(w) /\ worker'[w].pc = pc /\ worker'[w].round = n
    BY <2>1, GotoMoves DEF Step
  <2>3. Justified(w)
    BY <1>2, <2>1, <2>2 DEF Justified
  <2>4. Moves(w)
    BY <1>1, <1>2, <2>2, <2>3, NothingGoesOn DEF Moves, store
  <2> QED BY <2>4, MovesKeeps
<1>3. CASE /\ n \notin Claimed /\ Claimable(w, n)
           /\ claim' = [claim EXCEPT ![n] = ClaimOf(w)]
           /\ exec' = exec + 1
           /\ Goto(w, "claimed")
  <2>1. n \in Rounds /\ worker \in [Workers -> WorkerType]
    BY DEF TypeOK, WorkerType
  <2>2. ClaimOf(w) \in [rev : Nat, timeline : Nat, exec : Nat] /\ ClaimOf(w) # NoClaim
    BY <2>1 DEF ClaimOf, NoClaim, WorkerType
  <2>3. worker' = [worker EXCEPT ![w].pc = "claimed"]
    BY <1>3 DEF Goto
  <2>4. /\ worker' \in [Workers -> WorkerType]
        /\ \A v \in Workers : v # w => worker'[v] = worker[v]
        /\ worker'[w].pc = "claimed" /\ worker'[w].round = n
    BY <2>1, <2>3 DEF WorkerType, Step
  <2>5. claim \in [Rounds -> [rev : Nat, timeline : Nat, exec : Nat]]
    BY DEF TypeOK
  <2>6. Claimed' = Claimed \cup {n} /\ Decided' = Decided
    BY <1>1, <1>3, <2>1, <2>2, <2>5 DEF Claimed, Decided
  <2>7. TypeOK'
    BY <1>1, <1>3, <2>2, <2>4, <2>5 DEF TypeOK, coordination, history, WorkerType
  <2>8. UNCHANGED <<requests, heard, turn>>
    BY <1>1 DEF history, coordination
  <2>9. requests[n] = 0 /\ heard[n] = "none"
    BY <1>3, <2>1 DEF Rows
  <2>10. Rows'
    BY <1>1, <2>6, <2>8 DEF Rows
  <2>11. Askers'
    <3>1. \A v \in Workers : Asks(v) => worker[v].round \in Claimed
      BY DEF Asks, Askers, Held
    <3>2. \A v \in Workers : v # w /\ Asks(v)' => Asks(v) /\ worker'[v].round # n
      BY <1>3, <2>4, <3>1 DEF Asks
    <3> QED BY <2>4, <2>6, <2>8, <2>9, <3>2 DEF Askers
  <2>12. Sealers'
    BY <1>1, <2>4 DEF Sealers
  <2>13. Failers'
    <3>1. \A v \in Workers : worker'[v].pc = "fail" =>
            v # w /\ worker[v].pc = "fail" /\ worker'[v] = worker[v] /\ worker[v].round # n
      BY <1>3, <2>4 DEF Askers, Held
    <3>2. \A v \in Workers : Asks(v)' => v = w \/ (Asks(v) /\ worker'[v] = worker[v])
      BY <2>4 DEF Asks
    <3> QED BY <1>1, <2>4, <2>8, <3>1, <3>2 DEF Failers, Late
  <2>14. RoundsInOrder'
    <3>1. /\ \A k \in Rounds : k < n => k \in Decided
          /\ \A k \in Decided :
               /\ decision[k].batch # "complete"
               /\ decision[k].batch = "read" => k \in read
      BY <1>3 DEF Claimable, IsNext
    <3>2. \A k \in 1..(n - 1) : k \in Rounds /\ k < n
      BY <2>1, LimitsAssumption DEF Rounds
    <3>3. UNCHANGED <<decision, read, replanned>>
      BY <1>1
    <3>4. \A m \in Claimed : \A k \in 1..(m - 1) :
            /\ k \in Decided /\ decision[k].batch # "complete"
            /\ decision[k].batch = "read" => k \in read
      BY DEF RoundsInOrder
    <3>5. \A m \in Decided : \A k \in 1..(m - 1) :
            decision[k].batch = "mutation" => k \in replanned
      BY DEF RoundsInOrder
    <3> HIDE DEF Inv, n
    <3>6. \A m \in Claimed' : \A k \in 1..(m - 1) :
            /\ k \in Decided' /\ decision'[k].batch # "complete"
            /\ decision'[k].batch = "read" => k \in read'
      <4> TAKE m \in Claimed'
      <4>1. CASE m = n
        <5> TAKE k \in 1..(m - 1)
        <5>1. k \in Decided
          BY <3>1, <3>2, <4>1
        <5> QED BY <2>6, <3>1, <3>3, <5>1
      <4>2. CASE m # n
        BY <2>6, <3>3, <3>4, <4>2
      <4> QED BY <4>1, <4>2
    <3>7. \A m \in Decided' : \A k \in 1..(m - 1) :
            decision'[k].batch = "mutation" => k \in replanned'
      BY <2>6, <3>3, <3>5
    <3> QED BY <3>6, <3>7 DEF RoundsInOrder
  <2> QED BY <1>1, <2>7, <2>10, <2>11, <2>12, <2>13, <2>14, NothingSettled
<1>4. CASE Goto(w, "fallback") /\ UNCHANGED <<claim, exec>>
  <2>1. UNCHANGED <<store, history, timeline, now, crashes, limits>> /\ TurnGoesOn
    BY <1>1, <1>4, NothingGoesOn DEF store
  <2>2. Moves(w)
    BY <1>4, <2>1, LeaveMoves
  <2> QED BY <2>2, MovesKeeps
<1> QED BY <1>2, <1>3, <1>4 DEF Claim

\* Who holds the claim sends its one request, or gives up.
LEMMA SendKeeps ==
  ASSUME Inv, NEW w \in Workers, Send(w), UNCHANGED limits
  PROVE  Inv' /\ Settles
<1> USE DEF Inv
<1> DEFINE n == worker[w].round
<1>1. /\ UNCHANGED <<store, coordination, now, crashes, heard>>
      /\ worker[w].pc = "claimed"
  BY DEF Send
<1>2. CASE Goto(w, "waiting") /\ requests' = [requests EXCEPT ![n] = @ + 1]
  <2>1. n \in Claimed /\ n \in Rounds /\ worker \in [Workers -> WorkerType]
        /\ requests \in [Rounds -> Nat] /\ requests[n] = 0
    BY <1>1 DEF TypeOK, WorkerType, Askers, Held
  <2>2. worker' = [worker EXCEPT ![w].pc = "waiting"]
    BY <1>2 DEF Goto
  <2>3. /\ worker' \in [Workers -> WorkerType]
        /\ \A v \in Workers : v # w => worker'[v] = worker[v]
        /\ worker'[w].pc = "waiting" /\ worker'[w].round = n
    BY <2>1, <2>2 DEF WorkerType, Step
  <2>4. /\ requests' \in [Rounds -> Nat] /\ requests'[n] = 1
        /\ \A k \in Rounds : k # n => requests'[k] = requests[k]
    BY <1>2, <2>1
  <2>5. UNCHANGED <<claim, response, decision, read, proposal, replanned, exec,
                    turn, rev, timeline>>
    BY <1>1 DEF store, coordination
  <2>6. Claimed' = Claimed /\ Decided' = Decided
    BY <2>5 DEF Claimed, Decided
  <2>7. TypeOK'
    BY <1>1, <2>3, <2>4, <2>5 DEF TypeOK, WorkerType
  <2>8. Rows'
    BY <1>1, <2>1, <2>4, <2>5, <2>6 DEF Rows
  <2>9. \A v \in Workers : Asks(v)' = Asks(v) /\ worker'[v].round = worker[v].round
    BY <1>1, <2>3 DEF Asks
  <2>10. Askers'
    <3>1. \A v \in Workers : v # w /\ Asks(v) => worker[v].round # n
      BY <1>1 DEF Askers, Asks
    <3>2. \A v \in Workers : v # w /\ worker[v].pc = "claimed" =>
            requests'[worker[v].round] = requests[worker[v].round]
      BY <2>1, <2>4, <3>1 DEF Asks, WorkerType
    <3> QED BY <1>1, <2>3, <2>6, <2>9, <3>2 DEF Askers, Held
  <2>11. Sealers' /\ Failers'
    BY <1>1, <2>3, <2>5, <2>9 DEF Sealers, Failers, Late
  <2>12. RoundsInOrder'
    BY <2>5, <2>6 DEF RoundsInOrder
  <2> QED BY <2>5, <2>7, <2>8, <2>10, <2>11, <2>12, NothingSettled
<1>3. CASE Goto(w, "fail") /\ UNCHANGED requests
  <2>1. OnlyWorker(w) /\ worker'[w].pc = "fail" /\ worker'[w].round = n
    BY <1>3, GotoMoves DEF Step
  <2>2. Justified(w)
    BY <1>1, <2>1 DEF Justified, Askers, Held, Asks
  <2>3. Moves(w)
    BY <1>1, <1>3, <2>1, <2>2, NothingGoesOn DEF Moves, history
  <2> QED BY <2>3, MovesKeeps
<1> QED BY <1>2, <1>3 DEF Send

\* The answer of a round is its asker's, and it is the first.
LEMMA AnswerKeeps ==
  ASSUME Inv, NEW w \in Workers, NEW batch \in Batch, Answer(w, batch), UNCHANGED limits
  PROVE  Inv' /\ Settles
<1> USE DEF Inv
<1> DEFINE n == worker[w].round
<1>1. /\ UNCHANGED <<store, coordination, now, crashes, requests>>
      /\ worker[w].pc = "waiting"
  BY DEF Answer
<1>2. /\ n \in Claimed /\ n \in Rounds /\ worker \in [Workers -> WorkerType]
      /\ heard \in [Rounds -> Batch \cup {"none"}] /\ heard[n] = "none"
  BY <1>1 DEF TypeOK, WorkerType, Askers, Held
<1>3. \A v \in Workers : v # w /\ Asks(v) => worker[v].round # n
  BY <1>1 DEF Askers, Asks
<1>4. CASE /\ heard' = [heard EXCEPT ![n] = batch]
           /\ worker' = [worker EXCEPT ![w].answer = batch,
                ![w].pc = IF ~ Late /\ worker[w].timeline = timeline
                            THEN "settle" ELSE "fail"]
  <2>1. PICK pc \in {"settle", "fail"} :
          worker' = [worker EXCEPT ![w].answer = batch, ![w].pc = pc]
    BY <1>4
  <2>2. worker' \in [Workers -> WorkerType]
    <3>1. [worker[w] EXCEPT !.answer = batch, !.pc = pc] \in WorkerType
      BY <1>2 DEF WorkerType, Step
    <3> QED BY <1>2, <2>1, <3>1
  <2>3. /\ \A v \in Workers : v # w => worker'[v] = worker[v]
        /\ worker'[w].pc = pc /\ worker'[w].round = n /\ worker'[w].answer = batch
    BY <1>2, <2>1 DEF WorkerType
  <2>4. /\ heard' \in [Rounds -> Batch \cup {"none"}] /\ heard'[n] = batch
        /\ \A k \in Rounds : k # n => heard'[k] = heard[k]
    BY <1>2, <1>4
  <2>5. /\ UNCHANGED <<claim, response, decision, read, proposal, replanned, exec,
                       turn, rev, timeline>>
        /\ Claimed' = Claimed /\ Decided' = Decided
    BY <1>1 DEF store, coordination, Claimed, Decided
  <2>6. TypeOK'
    BY <1>1, <2>2, <2>4, <2>5 DEF TypeOK, WorkerType
  <2>7. Rows'
    <3>1. "none" \notin Batch
      BY DEF Batch
    <3>2. response[n] \notin Batch
      BY <1>2, <3>1 DEF Rows
    <3> QED BY <1>1, <1>2, <2>4, <2>5, <3>2 DEF Rows
  <2>8. \A v \in Workers : Asks(v)' => Asks(v) /\ worker'[v].round = worker[v].round
    BY <1>1, <2>3 DEF Asks
  <2>9. Askers'
    <3>1. \A v \in Workers : v # w /\ Asks(v) =>
            heard'[worker[v].round] = heard[worker[v].round]
      BY <1>2, <1>3, <2>4 DEF WorkerType
    <3>2. \A v \in Workers : worker'[v].pc \in Held => worker'[v].round \in Claimed'
      BY <1>2, <2>3, <2>5 DEF Askers
    <3>3. \A v, u \in Workers :
            v # u /\ Asks(v)' /\ Asks(u)' => worker'[v].round # worker'[u].round
      BY <2>8 DEF Askers
    <3>4. \A v \in Workers : v # w =>
            /\ worker'[v].pc = "claimed" => requests'[worker'[v].round] = 0
            /\ worker'[v].pc \in {"claimed", "waiting"} => heard'[worker'[v].round] = "none"
            /\ worker'[v].pc = "settle" => /\ worker'[v].answer \in Batch
                                           /\ heard'[worker'[v].round] = worker'[v].answer
      BY <1>1, <2>3, <3>1 DEF Askers, Asks
    <3> QED BY <2>3, <2>4, <3>2, <3>3, <3>4 DEF Askers
  <2>10. Sealers' /\ RoundsInOrder'
    BY <2>3, <2>5 DEF Sealers, RoundsInOrder
  <2>11. Failers'
    <3> SUFFICES ASSUME NEW u \in Workers, worker'[u].pc = "fail", ~Late', turn' # "terminal",
                        NEW v \in Workers, Asks(v)'
                 PROVE  worker'[v].round # worker'[u].round
      BY DEF Failers
    <3>1. ~Late /\ turn # "terminal" /\ Asks(v) /\ worker'[v].round = worker[v].round
      BY <1>1, <2>5, <2>8 DEF Late
    <3>2. CASE u = w
      BY <1>3, <2>3, <3>1, <3>2 DEF Asks
    <3>3. CASE u # w
      BY <2>3, <3>1, <3>3 DEF Failers
    <3> QED BY <3>2, <3>3
  <2> QED BY <2>5, <2>6, <2>7, <2>9, <2>10, <2>11, NothingSettled
<1>5. CASE Goto(w, "fail") /\ UNCHANGED heard
  <2>1. OnlyWorker(w) /\ worker'[w].pc = "fail" /\ worker'[w].round = n
    BY <1>5, GotoMoves DEF Step
  <2>2. Justified(w)
    BY <1>1, <1>2, <2>1 DEF Justified, Asks
  <2>3. Moves(w)
    BY <1>1, <1>5, <2>1, <2>2, NothingGoesOn DEF Moves, history
  <2> QED BY <2>3, MovesKeeps
<1> QED BY <1>4, <1>5 DEF Answer

\* One round may have got its settlement, and only w went on.
SettlesOne(w, value) ==
  /\ UNCHANGED <<claim, decision, read, proposal, replanned, exec,
                 coordination, now, crashes, history, limits>>
  /\ response' = Stored(worker[w].round, value)
  /\ OnlyWorker(w) /\ worker'[w].pc \notin Held \ {"settled"}
  /\ worker'[w].pc = "settled" =>
       /\ worker'[w].round = worker[w].round
       /\ worker'[w].answer = value /\ response[worker[w].round] = "none" /\ value \in Batch

\* A settlement that is the first of its round, and what was heard if it is a
\* success, keeps the invariant.
LEMMA SettlesOneKeeps ==
  ASSUME Inv, NEW w \in Workers, NEW value \in Batch \cup {"failed"}, SettlesOne(w, value),
         worker[w].round \in Claimed, value \in Batch => heard[worker[w].round] = value
  PROVE  Inv'
<1> USE DEF Inv
<1> DEFINE n == worker[w].round
<1>1. /\ UNCHANGED <<claim, decision, read, proposal, replanned, exec,
                     turn, rev, timeline, now, crashes, requests, heard, limits>>
      /\ response' = Stored(n, value)
  BY DEF SettlesOne, coordination, history
<1>2. /\ worker' \in [Workers -> WorkerType]
      /\ \A v \in Workers : v # w => worker'[v] = worker[v]
      /\ worker'[w].pc \notin Held \ {"settled"}
  BY DEF SettlesOne, OnlyWorker
<1>3. n \in Rounds /\ response \in [Rounds -> Batch \cup {"none", "failed"}]
  BY DEF TypeOK
<1>4. /\ response' \in [Rounds -> Batch \cup {"none", "failed"}]
      /\ \A k \in Rounds : response[k] # "none" => response'[k] = response[k]
      /\ \A k \in Rounds : k # n => response'[k] = response[k]
      /\ response[n] = "none" => response'[n] = value
  BY <1>1, <1>3 DEF Stored
<1>5. Claimed' = Claimed /\ Decided' = Decided
  BY <1>1 DEF Claimed, Decided
<1>6. "none" \notin Batch /\ "failed" \notin Batch
  BY DEF Batch
<1>7. TypeOK'
  BY <1>1, <1>2, <1>4 DEF TypeOK, WorkerType
<1>8. Rows'
  BY <1>1, <1>3, <1>4, <1>5, <1>6 DEF Rows
<1>9. \A v \in Workers : Asks(v)' => v # w /\ Asks(v) /\ worker'[v] = worker[v]
  BY <1>2 DEF Asks, Held
<1>10. Askers'
  <2>1. \A v \in Workers : worker'[v].pc \in Held => worker'[v].round \in Claimed'
    BY <1>2, <1>5 DEF Askers, SettlesOne
  <2>2. \A v \in Workers : v = w => worker'[v].pc \notin {"claimed", "waiting", "settle"}
    BY <1>2 DEF Held
  <2> QED BY <1>1, <1>2, <1>9, <2>1, <2>2 DEF Askers
<1>11. Sealers'
  <2>1. \A v \in Workers : v # w => worker'[v] = worker[v] /\ worker[v].round \in Rounds
    BY <1>2 DEF TypeOK
  <2>2. \A v \in Workers : v # w =>
          /\ worker'[v].pc \in {"settled", "persist"} =>
               /\ response'[worker'[v].round] \in Batch
               /\ response'[worker'[v].round] = worker'[v].answer
          /\ worker'[v].pc = "recover" => response'[worker'[v].round] \in Batch
    BY <1>4, <1>6, <2>1 DEF Sealers
  <2>3. worker'[w].pc \in {"settled", "persist"} =>
          /\ response'[worker'[w].round] \in Batch
          /\ response'[worker'[w].round] = worker'[w].answer
    BY <1>2, <1>4 DEF SettlesOne, Held
  <2>4. worker'[w].pc # "recover"
    BY <1>2 DEF Held
  <2> QED BY <2>2, <2>3, <2>4 DEF Sealers
<1>12. Failers'
  <2>1. \A v \in Workers : worker'[v].pc = "fail" => v # w /\ worker'[v] = worker[v]
    BY <1>2 DEF Held
  <2> QED BY <1>1, <1>9, <2>1 DEF Failers, Late
<1>13. RoundsInOrder'
  BY <1>1, <1>5 DEF RoundsInOrder
<1> QED BY <1>7, <1>8, <1>10, <1>11, <1>12, <1>13

\* What is stored by a worker that found its claim in force, or alone.
LEMMA StoredSettles ==
  ASSUME Inv, NEW w \in Workers, NEW value \in Batch \cup {"failed"},
         response' = Stored(worker[w].round, value),
         value \in Batch => Authoritative(worker[w].round),
         ~Late /\ turn # "terminal" => \A v \in Workers :
           worker[v].pc = "waiting" => worker[v].round # worker[w].round
  PROVE  Settles
<1> USE DEF Inv
<1>1. "none" \notin Batch /\ "failed" \notin Batch
  BY DEF Batch
<1>2. worker[w].round \in Rounds /\ response \in [Rounds -> Batch \cup {"none", "failed"}]
  BY DEF TypeOK
<1>3. \A k \in Rounds :
        /\ response[k] # "none" => response'[k] = response[k]
        /\ k # worker[w].round => response'[k] = response[k]
        /\ response[k] = "none" /\ k = worker[w].round => response'[k] = value
  BY <1>2 DEF Stored
<1>4. now < Deadline <=> ~Late
  BY LimitsAssumption DEF Late, TypeOK
<1>5. FirstSettlementStands
  BY <1>3 DEF FirstSettlementStands
<1>6. SuccessIsCurrent
  BY <1>1, <1>3, <1>4 DEF SuccessIsCurrent, Authoritative
<1>7. LiveClaimsAreLeftAlone
  BY <1>3, <1>4 DEF LiveClaimsAreLeftAlone
<1> QED BY <1>5, <1>6, <1>7 DEF Settles

LEMMA SettleSuccessKeeps ==
  ASSUME Inv, NEW w \in Workers, SettleSuccess(w), UNCHANGED limits
  PROVE  Inv' /\ Settles
<1> USE DEF Inv
<1> DEFINE n == worker[w].round
           value == IF Authoritative(n) THEN worker[w].answer ELSE "failed"
           pc == IF response[n] = "none" /\ Authoritative(n) THEN "settled" ELSE "fallback"
<1>1. /\ UNCHANGED <<claim, decision, read, proposal, replanned, exec,
                     coordination, now, crashes, history, limits>>
      /\ worker[w].pc = "settle" /\ response' = Stored(n, value) /\ Goto(w, pc)
  BY DEF SettleSuccess
<1>2. n \in Claimed /\ worker[w].answer \in Batch /\ heard[n] = worker[w].answer
  BY <1>1 DEF Askers, Held
<1>3. OnlyWorker(w) /\ worker'[w].pc = pc /\ worker'[w].round = n
      /\ worker'[w].answer = worker[w].answer
  BY <1>1, GotoMoves DEF Step
<1>4. SettlesOne(w, value)
  BY <1>1, <1>2, <1>3 DEF SettlesOne, Held
<1>5. /\ value \in Batch \cup {"failed"} /\ (value \in Batch => heard[n] = value)
      /\ value \in Batch => Authoritative(n)
  BY <1>2 DEF Batch
<1>6. \A v \in Workers : worker[v].pc = "waiting" => worker[v].round # n
  BY <1>1 DEF Askers, Asks
<1>7. Inv'
  <2> HIDE DEF Inv, n, value, pc
  <2> QED BY <1>2, <1>4, <1>5, SettlesOneKeeps DEF n
<1>8. Settles
  <2> HIDE DEF Inv, value, pc
  <2> QED BY <1>1, <1>5, <1>6, StoredSettles
<1> QED BY <1>7, <1>8

LEMMA SettleFailureKeeps ==
  ASSUME Inv, NEW w \in Workers, SettleFailure(w), UNCHANGED limits
  PROVE  Inv' /\ Settles
<1> USE DEF Inv
<1>1. /\ UNCHANGED <<claim, decision, read, proposal, replanned, exec,
                     coordination, now, crashes, history, limits>>
      /\ worker[w].pc = "fail" /\ response' = Stored(worker[w].round, "failed")
  BY DEF SettleFailure
<1>2. PICK pc \in {"fallback", "idle"} : Goto(w, pc)
  BY DEF SettleFailure
<1>3. OnlyWorker(w) /\ worker'[w].pc = pc
  BY <1>2, GotoMoves DEF Step
<1>4. SettlesOne(w, "failed")
  BY <1>1, <1>3 DEF SettlesOne, Held
<1>5. worker[w].round \in Claimed /\ "failed" \notin Batch
  BY <1>1 DEF Askers, Held, Batch
<1>6. ~Late /\ turn # "terminal" => \A v \in Workers :
        worker[v].pc = "waiting" => worker[v].round # worker[w].round
  BY <1>1 DEF Failers, Asks
<1> QED BY <1>1, <1>4, <1>5, <1>6, SettlesOneKeeps, StoredSettles

\* A recovered or a just settled answer is sealed once, as it was stored, and
\* after every earlier round.
LEMMA PersistKeeps ==
  ASSUME Inv, NEW w \in Workers, Persist(w), UNCHANGED limits
  PROVE  Inv' /\ Settles
<1> USE DEF Inv
<1> DEFINE n == worker[w].round
           batch == IF worker[w].pc = "recover" THEN response[n] ELSE worker[w].answer
<1>1. /\ UNCHANGED <<claim, response, read, proposal, replanned,
                     coordination, now, crashes, history, limits>>
      /\ worker[w].pc \in {"persist", "recover"}
  BY DEF Persist
<1>2. PICK pc \in {"idle", "fallback", "act"} : Goto(w, pc)
  BY DEF Persist
<1>3. CASE UNCHANGED <<decision, exec>>
  <2>1. UNCHANGED <<store, history, timeline, now, limits, crashes>> /\ TurnGoesOn
    BY <1>1, <1>3, NothingGoesOn DEF store
  <2>2. Moves(w)
    BY <1>2, <2>1, LeaveMoves
  <2> QED BY <2>2, MovesKeeps
<1>4. CASE /\ n \notin Decided /\ Sealable(w, n)
           /\ decision' = [decision EXCEPT ![n] = [batch |-> batch, rev |-> rev]]
           /\ exec' = exec + 1
  <2>1. /\ n \in Rounds /\ rev \in Nat /\ exec \in Nat
        /\ decision \in [Rounds -> [batch : Batch \cup {"none"}, rev : Nat]]
    BY DEF TypeOK
  <2>2. batch = response[n] /\ response[n] \in Batch /\ n \in Claimed
    BY <1>1 DEF Sealers, Askers, Held
  <2> HIDE DEF batch
  <2>3. /\ decision' \in [Rounds -> [batch : Batch \cup {"none"}, rev : Nat]]
        /\ decision'[n] = [batch |-> batch, rev |-> rev]
        /\ \A k \in Rounds : k # n => decision'[k] = decision[k]
    BY <1>4, <2>1, <2>2
  <2>4. UNCHANGED <<requests, heard, turn, rev, timeline>>
    BY <1>1 DEF history, coordination
  <2>5. Claimed' = Claimed /\ Decided' = Decided \cup {n}
    <3>1. decision'[n] # NoDecision
      BY <2>2, <2>3 DEF NoDecision, Batch
    <3> QED BY <1>1, <2>1, <2>3, <3>1 DEF Claimed, Decided
  <2>6. /\ worker' \in [Workers -> WorkerType] /\ worker'[w].pc = pc
        /\ \A v \in Workers : v # w => worker'[v] = worker[v]
    BY <1>2, GotoMoves DEF OnlyWorker, Step
  <2>7. TypeOK'
    BY <1>1, <1>4, <2>1, <2>3, <2>4, <2>6 DEF TypeOK, WorkerType
  <2>8. Rows'
    <3>1. \A k \in Rounds :
            /\ requests[k] <= 1
            /\ k \notin Claimed => requests[k] = 0 /\ heard[k] = "none" /\ response[k] = "none"
            /\ response[k] \in Batch => heard[k] = response[k]
      BY DEF Rows
    <3>2. \A k \in Decided' : response[k] \in Batch /\ decision'[k].batch = response[k]
      <4> TAKE k \in Decided'
      <4>1. CASE k = n
        BY <2>2, <2>3, <4>1
      <4>2. CASE k # n
        BY <2>3, <2>5, <4>2 DEF Rows, Decided
      <4> QED BY <4>1, <4>2
    <3>3. \A k \in proposal : decision'[k].batch = "mutation"
      <4> TAKE k \in proposal
      <4>1. k \in Rounds /\ decision[k].batch = "mutation"
        BY DEF Rows, TypeOK
      <4>2. k # n
        BY <1>4, <2>1, <4>1 DEF Decided, NoDecision
      <4> QED BY <2>3, <4>1, <4>2
    <3> QED BY <1>1, <2>4, <2>5, <3>1, <3>2, <3>3 DEF Rows
  <2>9. \A v \in Workers :
          worker'[v].pc \in Held => v # w /\ worker[v].pc \in Held /\ worker'[v] = worker[v]
    BY <2>6 DEF Held
  <2>10. \A v \in Workers : Asks(v)' => v # w /\ Asks(v) /\ worker'[v] = worker[v]
    BY <2>6 DEF Asks
  <2>11. Askers'
    BY <2>4, <2>5, <2>9, <2>10 DEF Askers, Held
  <2>12. Sealers'
    BY <1>1, <2>9 DEF Sealers, Held
  <2>13. Failers'
    BY <1>1, <2>4, <2>9, <2>10 DEF Failers, Late, Held
  <2>14. RoundsInOrder'
    <3>1. /\ \A k \in Rounds : k < n => k \in Decided
          /\ \A k \in Decided : decision[k].batch = "mutation" => k \in replanned
      BY <1>4 DEF Sealable, IsNext
    <3>2. \A m \in Claimed : \A k \in 1..(m - 1) :
            /\ k \in Rounds /\ k # n
            /\ k \in Decided /\ decision[k].batch # "complete"
            /\ decision[k].batch = "read" => k \in read
      BY <1>4 DEF RoundsInOrder, Decided
    <3>3. \A m \in Claimed' : \A k \in 1..(m - 1) :
            /\ k \in Decided' /\ decision'[k].batch # "complete"
            /\ decision'[k].batch = "read" => k \in read'
      BY <1>1, <2>3, <2>5, <3>2
    <3>4. \A m \in Decided' : \A k \in 1..(m - 1) :
            decision'[k].batch = "mutation" => k \in replanned'
      <4> TAKE m \in Decided'
      <4> TAKE k \in 1..(m - 1)
      <4>1. CASE m = n
        <5>1. k \in Rounds /\ k < n
          BY <2>1, <4>1, LimitsAssumption DEF Rounds
        <5>2. k # n /\ k \in Decided
          BY <2>1, <3>1, <5>1 DEF Rounds
        <5> QED BY <1>1, <2>3, <3>1, <5>1, <5>2
      <4>2. CASE m # n
        <5>1. m \in Decided /\ m \in Claimed
          BY <2>5, <4>2 DEF Rows, Decided, Batch
        <5>2. k \in Rounds /\ k # n
          BY <3>2, <5>1
        <5> QED BY <1>1, <2>3, <5>1, <5>2 DEF RoundsInOrder
      <4> QED BY <4>1, <4>2
    <3> HIDE DEF Inv
    <3> QED BY <3>3, <3>4 DEF RoundsInOrder
  <2> QED BY <1>1, <2>7, <2>8, <2>11, <2>12, <2>13, <2>14, NothingSettled
<1> QED BY <1>3, <1>4 DEF Persist

\* The outcome of a read is one more, whoever stored it.
Follows ==
  /\ UNCHANGED <<claim, response, decision, timeline, now, crashes, history, limits>>
  /\ TurnGoesOn /\ exec' \in Nat
  /\ read \subseteq read' /\ read' \subseteq Rounds
  /\ replanned \subseteq replanned' /\ replanned' \subseteq Rounds
  /\ proposal' \subseteq Rounds
  /\ \A n \in proposal' : n \in proposal \/ decision[n].batch = "mutation"
  /\ \/ UNCHANGED worker
     \/ \E w \in Workers : OnlyWorker(w) /\ worker'[w].pc \notin Held

\* What follows from a decision keeps the invariant.
LEMMA FollowsKeeps ==
  ASSUME Inv, Follows
  PROVE  Inv' /\ Settles
<1> USE DEF Inv
<1>1. /\ UNCHANGED <<claim, response, decision, timeline, now, crashes, requests, heard, limits>>
      /\ turn = "terminal" => turn' = "terminal"
      /\ read \subseteq read' /\ replanned \subseteq replanned'
  BY DEF Follows, history, TurnGoesOn
<1>2. Claimed' = Claimed /\ Decided' = Decided
  BY <1>1 DEF Claimed, Decided
<1>3. /\ worker' \in [Workers -> WorkerType]
      /\ \A v \in Workers : worker'[v] = worker[v] \/ worker'[v].pc \notin Held
  <2>1. CASE UNCHANGED worker
    BY <2>1 DEF TypeOK, WorkerType
  <2>2. ASSUME NEW w \in Workers, OnlyWorker(w), worker'[w].pc \notin Held
        PROVE  /\ worker' \in [Workers -> WorkerType]
               /\ \A v \in Workers : worker'[v] = worker[v] \/ worker'[v].pc \notin Held
    BY <2>2 DEF OnlyWorker
  <2> QED BY <2>1, <2>2 DEF Follows
<1>4. TypeOK'
  BY <1>1, <1>3 DEF TypeOK, Follows, TurnGoesOn, WorkerType
<1>5. \A v \in Workers : Asks(v)' => Asks(v) /\ worker'[v] = worker[v]
  BY <1>3 DEF Asks, Held
<1>6. Rows'
  BY <1>1, <1>2 DEF Rows, Follows
<1>7. Askers'
  BY <1>1, <1>2, <1>3, <1>5 DEF Askers, Held
<1>8. Sealers'
  BY <1>1, <1>3 DEF Sealers, Held
<1>9. Failers'
  BY <1>1, <1>3, <1>5 DEF Failers, Late, Held
<1>10. RoundsInOrder'
  BY <1>1, <1>2 DEF RoundsInOrder
<1> QED BY <1>1, <1>4, <1>6, <1>7, <1>8, <1>9, <1>10, NothingSettled

LEMMA MarkReadFollows ==
  ASSUME Inv, NEW w \in Workers, MarkRead(w), UNCHANGED limits
  PROVE  Follows
<1> USE DEF Inv
<1>1. /\ UNCHANGED <<claim, response, decision, proposal, replanned,
                     coordination, now, crashes, history>>
      /\ read' \in {read, read \cup {worker[w].round}} /\ exec' \in {exec, exec + 1}
  BY DEF MarkRead
<1>2. PICK pc \in {"plan", "idle"} : Goto(w, pc)
  BY DEF MarkRead
<1>3. OnlyWorker(w) /\ worker'[w].pc = pc /\ worker'[w].pc \notin Held
  BY <1>2, GotoMoves DEF Step, Held
<1>4. /\ worker[w].round \in Rounds /\ exec \in Nat
      /\ read \subseteq Rounds /\ replanned \subseteq Rounds /\ proposal \subseteq Rounds
  BY DEF TypeOK
<1> QED BY <1>1, <1>3, <1>4, NothingGoesOn DEF Follows

LEMMA ProposeFollows ==
  ASSUME Inv, NEW w \in Workers, Propose(w), UNCHANGED limits
  PROVE  Follows
<1> USE DEF Inv
<1>1. /\ UNCHANGED <<claim, response, decision, read, replanned, exec,
                     now, crashes, history>>
      /\ decision[worker[w].round].batch = "mutation" /\ Goto(w, "idle")
      /\ proposal' \in {proposal, proposal \cup {worker[w].round}}
  BY DEF Propose
<1>2. OnlyWorker(w) /\ worker'[w].pc = "idle" /\ worker'[w].pc \notin Held
  BY <1>1, GotoMoves DEF Step, Held
<1>3. TurnGoesOn /\ UNCHANGED timeline
  <2>1. CASE Appendable(w, worker[w].round) /\ Advance("proposed")
    BY <2>1, AdvanceGoesOn DEF Appendable, TurnState
  <2>2. CASE turn # "terminal" /\ Advance("terminal")
    BY <2>2, AdvanceGoesOn DEF TurnState
  <2>3. CASE UNCHANGED coordination
    BY <2>3, NothingGoesOn
  <2> QED BY <2>1, <2>2, <2>3 DEF Propose
<1>4. /\ worker[w].round \in Rounds /\ exec \in Nat
      /\ read \subseteq Rounds /\ replanned \subseteq Rounds /\ proposal \subseteq Rounds
  BY DEF TypeOK
<1> QED BY <1>1, <1>2, <1>3, <1>4 DEF Follows

LEMMA ReplanFollows ==
  ASSUME Inv, NEW n \in Rounds, Replan(n), UNCHANGED limits
  PROVE  Follows
<1> USE DEF Inv
<1>1. /\ UNCHANGED <<claim, response, decision, read, proposal, exec,
                     worker, now, crashes, history>>
      /\ replanned' = replanned \cup {n} /\ turn = "proposed" /\ Advance("declared")
  BY DEF Replan
<1>2. TurnGoesOn /\ UNCHANGED timeline
  BY <1>1, AdvanceGoesOn DEF TurnState
<1>3. exec \in Nat /\ read \subseteq Rounds /\ replanned \subseteq Rounds /\ proposal \subseteq Rounds
  BY DEF TypeOK
<1> QED BY <1>1, <1>2, <1>3 DEF Follows

-----------------------------------------------------------------------------
(* The rest of the turn, the clock and the crashes.                        *)

\* No worker moves, no row is written; what is past stays past.
LEMMA RestKeeps ==
  ASSUME Inv, UNCHANGED <<store, history, worker, crashes, limits>>, TurnGoesOn,
         timeline' \in Nat, now' \in Nat, now <= now'
  PROVE  Inv' /\ Settles
<1> USE DEF Inv
<1>1. /\ Rows' /\ RoundsInOrder' /\ Claimed' = Claimed
      /\ UNCHANGED <<claim, response, decision, read, proposal, replanned, exec,
                     requests, heard>>
  BY RowsKept DEF store, history
<1>2. TypeOK'
  BY <1>1 DEF TypeOK, TurnGoesOn
<1>3. \A v \in Workers : Asks(v)' = Asks(v)
  BY DEF Asks
<1>4. Askers' /\ Sealers'
  BY <1>1, <1>3 DEF Askers, Sealers
<1>5. Late => Late'
  BY LimitsAssumption DEF Late, TypeOK
<1>6. Failers'
  BY <1>3, <1>5 DEF Failers, TurnGoesOn
<1> QED BY <1>1, <1>2, <1>4, <1>6, NothingSettled

LEMMA CrashKeeps ==
  ASSUME Inv, NEW w \in Workers, Crash(w), UNCHANGED limits
  PROVE  Inv' /\ Settles
<1> USE DEF Inv
<1>1. /\ UNCHANGED <<store, coordination, now, history>> /\ Goto(w, "idle")
      /\ crashes' = crashes + 1
  BY DEF Crash
<1>2. /\ OnlyWorker(w) /\ worker'[w].pc = "idle"
      /\ \A v \in Workers : v # w => worker'[v] = worker[v]
      /\ worker' \in [Workers -> WorkerType]
  BY <1>1, GotoMoves DEF Step, OnlyWorker
<1>3. /\ Rows' /\ RoundsInOrder' /\ Claimed' = Claimed
      /\ UNCHANGED <<claim, response, decision, read, proposal, replanned, exec,
                     requests, heard, turn, rev, timeline>>
  BY <1>1, RowsKept DEF store, history, coordination
<1>4. TypeOK'
  BY <1>1, <1>2, <1>3 DEF TypeOK, WorkerType
<1>5. \A v \in Workers :
        worker'[v].pc \in Held => v # w /\ worker'[v] = worker[v]
  BY <1>2 DEF Held
<1>6. \A v \in Workers : Asks(v)' => v # w /\ Asks(v) /\ worker'[v] = worker[v]
  BY <1>2 DEF Asks
<1>7. Askers'
  BY <1>3, <1>5, <1>6 DEF Askers, Held
<1>8. Sealers'
  BY <1>3, <1>5 DEF Sealers, Held
<1>9. Failers'
  BY <1>1, <1>3, <1>5, <1>6 DEF Failers, Late, Held
<1> QED BY <1>3, <1>4, <1>7, <1>8, <1>9, NothingSettled

-----------------------------------------------------------------------------
(* The theorems.                                                           *)

LEMMA InvInit == Init => Inv
<1> SUFFICES ASSUME Init PROVE Inv
  OBVIOUS
<1>1. 1 \in Rounds
  BY LimitsAssumption DEF Rounds
<1>2. TypeOK
  BY <1>1 DEF Init, TypeOK, TurnState, NoClaim, NoDecision, Idle, Step
<1>3. Claimed = {} /\ Decided = {}
  BY DEF Init, Claimed, Decided
<1>4. \A w \in Workers : worker[w].pc = "idle"
  BY DEF Init, Idle
<1>5. Rows
  BY <1>3 DEF Init, Rows, Batch
<1>6. Askers /\ Sealers /\ Failers
  BY <1>4 DEF Askers, Sealers, Failers, Held, Asks
<1>7. RoundsInOrder
  BY <1>3 DEF RoundsInOrder
<1> QED BY <1>2, <1>5, <1>6, <1>7 DEF Inv

LEMMA InvStep == Inv /\ [Next]_vars => Inv' /\ Settles
<1> SUFFICES ASSUME Inv, [Next]_vars PROVE Inv' /\ Settles
  OBVIOUS
<1>t. TypeOK /\ now \in Nat /\ timeline \in Nat
  BY DEF Inv, TypeOK
<1>1. ASSUME NEW w \in Workers, Resume(w), UNCHANGED limits PROVE Inv' /\ Settles
  BY <1>1, ResumeMoves, MovesKeeps
<1>2. ASSUME NEW w \in Workers, Work(w), UNCHANGED limits PROVE Inv' /\ Settles
  <2>1. CASE Plan(w)
    BY <1>2, <2>1, PlanMoves, MovesKeeps
  <2>2. CASE Claim(w)
    BY <1>2, <2>2, ClaimKeeps
  <2>3. CASE Send(w)
    BY <1>2, <2>3, SendKeeps
  <2>4. CASE \E batch \in Batch : Answer(w, batch)
    BY <1>2, <2>4, AnswerKeeps
  <2>5. CASE SettleSuccess(w)
    BY <1>2, <2>5, SettleSuccessKeeps
  <2>6. CASE SettleFailure(w)
    BY <1>2, <2>6, SettleFailureKeeps
  <2>7. CASE Reread(w)
    BY <1>2, <2>7, RereadMoves, MovesKeeps
  <2>8. CASE Persist(w)
    BY <1>2, <2>8, PersistKeeps
  <2>9. CASE MarkRead(w)
    BY <1>2, <2>9, MarkReadFollows, FollowsKeeps
  <2>10. CASE Propose(w)
    BY <1>2, <2>10, ProposeFollows, FollowsKeeps
  <2>11. CASE Fallback(w)
    BY <1>2, <2>11, FallbackMoves, MovesKeeps
  <2> QED BY <1>2, <2>1, <2>2, <2>3, <2>4, <2>5, <2>6, <2>7, <2>8, <2>9, <2>10, <2>11 DEF Work
<1>3. ASSUME NEW w \in Workers, Crash(w), UNCHANGED limits PROVE Inv' /\ Settles
  BY <1>3, CrashKeeps
<1>4. ASSUME NEW n \in Rounds, Replan(n), UNCHANGED limits PROVE Inv' /\ Settles
  BY <1>4, ReplanFollows, FollowsKeeps
<1>5. CASE End /\ UNCHANGED limits
  <2>1. TurnGoesOn /\ UNCHANGED timeline
    BY <1>5, <1>t, AdvanceGoesOn DEF End, TurnState
  <2> QED BY <1>5, <1>t, <2>1, RestKeeps DEF End
<1>6. CASE MoveTimeline /\ UNCHANGED limits
  <2>1. TurnGoesOn
    BY <1>6, <1>t DEF MoveTimeline, TurnGoesOn, TypeOK
  <2> QED BY <1>6, <1>t, <2>1, RestKeeps DEF MoveTimeline
<1>7. CASE Tick /\ UNCHANGED limits
  <2>1. TurnGoesOn /\ UNCHANGED timeline
    BY <1>7, <1>t, NothingGoesOn DEF Tick
  <2> QED BY <1>7, <1>t, <2>1, RestKeeps DEF Tick
<1>8. CASE UNCHANGED vars
  <2>1. UNCHANGED <<store, coordination, worker, now, crashes, history, limits>>
    BY <1>8 DEF vars
  <2>2. TurnGoesOn /\ UNCHANGED timeline
    BY <1>t, <2>1, NothingGoesOn
  <2> QED BY <1>t, <2>1, <2>2, RestKeeps
<1>9. limits.workers \subseteq Workers
  BY <1>t, LimitsAssumption DEF TypeOK
<1> QED BY <1>1, <1>2, <1>3, <1>4, <1>5, <1>6, <1>7, <1>8, <1>9 DEF Next

\* The inductive invariant holds in every state.
LEMMA Invariance == Spec => []Inv
BY InvInit, InvStep, PTL DEF Spec

\* However many workers resume a turn, and whichever of them crash, each round
\* asks its provider at most once, the rounds are sealed in order, and what is
\* decided and proposed is what was heard and stored.
THEOREM RoundsSound == Spec => []RoundsAreSound
<1>1. Inv => RoundsAreSound
  <2> SUFFICES ASSUME Inv PROVE RoundsAreSound
    OBVIOUS
  <2>1. OneRequestPerRound
    BY DEF Inv, Rows, OneRequestPerRound
  <2>2. DecisionsWereHeard
    <3>1. \A n \in Decided : n \in Rounds
      BY DEF Decided
    <3>2. \A n \in proposal : n \in Rounds /\ decision[n].batch = "mutation"
      BY DEF Inv, Rows, TypeOK
    <3>3. \A n \in proposal : n \in Decided
      BY <3>2 DEF Decided, NoDecision
    <3> QED BY <3>1, <3>2, <3>3 DEF Inv, Rows, DecisionsWereHeard
  <2> QED BY <2>1, <2>2 DEF Inv, RoundsAreSound
<1> QED BY <1>1, Invariance, PTL

\* No step settles a round twice, lets a success pass that is no longer
\* current, or settles a round under a worker that waits for its answer.
THEOREM SettlementsSound == Spec => SettlementsAreSound
<1>1. Inv /\ [Next]_vars =>
        [FirstSettlementStands /\ SuccessIsCurrent /\ LiveClaimsAreLeftAlone]_vars
  BY InvStep DEF Settles
<1> QED BY <1>1, Invariance, PTL DEF Spec, SettlementsAreSound
=============================================================================
