------------------------- MODULE AdventureTurnProofs -------------------------
(***************************************************************************)
(* The safety of AdventureTurn for every set of proposals, calls and keys, *)
(* every lifetime of a confirmation and every horizon.                     *)
(*                                                                         *)
(* Typed steps come first (TypeCorrect); the inductive invariant Inv       *)
(* follows, with one lemma per group of actions, and its theorems.  The    *)
(* last part is the refinement: AdventureTurn implements TurnPromise, every*)
(* step of the coordinated turn is a step of the promise, or leaves phase  *)
(* and fates as they are.                                                  *)
(***************************************************************************)
EXTENDS AdventureTurnRefinement, FiniteSetTheorems, TLAPS

-----------------------------------------------------------------------------
(* Lemmas about the operators.                                             *)

\* Whatever Advance writes, it starts from a row that is not terminal.
LEMMA AdvanceEffect ==
    ASSUME NEW a, NEW s, NEW n, Advance(a, s, n)
    PROVE  /\ phys' = [state |-> a, narration |-> n]
           /\ turn' = [state |-> s, narration |-> n]
           /\ revision' = revision + 1
           /\ phys.state \notin Terminal
BY DEF Advance, MoveAllowed, Terminal

\* Advance keeps the types of row, event and revision.
LEMMA AdvanceTyped ==
    ASSUME NEW a \in PhysicalState, NEW s \in LogicalState, NEW n \in Narration,
           TypeOK, Advance(a, s, n)
    PROVE  /\ phys' \in [state : PhysicalState, narration : Narration]
           /\ turn' \in [state : LogicalState, narration : Narration]
           /\ revision' \in Nat
BY DEF Advance, TypeOK

\* A proposal projected as approved has not run, was not replanned, and was
\* consented to or needs no consent.
LEMMA ApprovedStatus ==
    ASSUME NEW p, Status(p) = "approved"
    PROVE  /\ p \notin command \cup receipt \cup replan
           /\ decision[p] \in {"none", "approved"}
           /\ decision[p] = "none" => p \notin confirmable
BY DEF Status, ReceiptLinks

\* Settle decides exactly S, over a row that admits decisions.
LEMMA SettleEffect ==
    ASSUME NEW S, NEW verdict, Settle(S, verdict)
    PROVE  /\ phys.state = "awaiting-confirmation"
           /\ decision' = [p \in Proposals |-> IF p \in S THEN verdict ELSE decision[p]]
           /\ \/ Advance("awaiting-confirmation", "awaiting-confirmation", "none")
              \/ Advance("mechanics-committed", "confirmed", "none")
              \/ /\ Advance("cancelled", "cancelled", "none")
                 /\ \A p \in proposed : p \in confirmable /\ decision'[p] # "approved"
                 /\ \A p \in confirmable : decision'[p] # "none"
BY DEF Settle, DecisionAllowed

-----------------------------------------------------------------------------
(* Type correctness.                                                       *)

\* The states and narrations the actions write are of their types.
LEMMA Names ==
    /\ {"declared", "proposed", "awaiting-confirmation", "mechanics-committed",
        "narrating", "completed", "cancelled", "failed"} = PhysicalState
    /\ PhysicalState \subseteq LogicalState
    /\ "confirmed" \in LogicalState
    /\ {"none", "pending", "in-progress", "completed", "failed"} = Narration
BY DEF PhysicalState, LogicalState, Narration

\* What a settled batch leaves behind is typed.
LEMMA SettleTyped ==
    ASSUME TypeOK, NEW S, NEW verdict \in Decision, Settle(S, verdict)
    PROVE  /\ phys' \in [state : PhysicalState, narration : Narration]
           /\ turn' \in [state : LogicalState, narration : Narration]
           /\ revision' \in Nat
           /\ decision' \in [Proposals -> Decision]
<1>1. decision' \in [Proposals -> Decision]
  BY SettleEffect DEF TypeOK
<1>2. CASE Advance("awaiting-confirmation", "awaiting-confirmation", "none")
  BY <1>1, <1>2, AdvanceTyped, Names
<1>3. CASE Advance("mechanics-committed", "confirmed", "none")
  BY <1>1, <1>3, AdvanceTyped, Names
<1>4. CASE Advance("cancelled", "cancelled", "none")
  BY <1>1, <1>4, AdvanceTyped, Names
<1>5. QED BY <1>2, <1>3, <1>4, SettleEffect

LEMMA TypeInit == Init => TypeOK
BY DEF Init, TypeOK, PhysicalState, LogicalState, Narration, Decision, Request

LEMMA TypeStep == TypeOK /\ [Next]_vars => TypeOK'
<1> SUFFICES ASSUME TypeOK, [Next]_vars PROVE TypeOK'
  OBVIOUS
<1> USE DEF books, effects, network
<1>1. ASSUME NEW p \in Proposals, NEW c \in BOOLEAN, NEW b \in BOOLEAN,
             AppendToolProposal(p, c, b)
      PROVE  TypeOK'
  <2>1. /\ phys' \in [state : PhysicalState, narration : Narration]
        /\ turn' \in [state : LogicalState, narration : Narration]
        /\ revision' \in Nat
    BY <1>1, AdvanceTyped, Names DEF AppendToolProposal, KeepCommitted
  <2>2. now + Ttl \in Nat
    BY BoundsAssumption DEF TypeOK
  <2>3. QED BY <1>1, <2>1, <2>2 DEF AppendToolProposal, TypeOK
<1>2. CASE WaitForToolConfirmation
  BY <1>2, AdvanceTyped, Names DEF WaitForToolConfirmation, KeepCommitted, TypeOK
<1>3. ASSUME NEW k \in Keys, NEW S \in SUBSET Proposals, NEW v \in {"approved", "rejected"},
             SendConfirm([key |-> k, ids |-> S, verdict |-> v, expected |-> revision])
      PROVE  TypeOK'
  BY <1>3 DEF SendConfirm, TypeOK, Request
<1>4. ASSUME NEW r \in sent, DecideToolProposals(r) PROVE TypeOK'
  <2>1. r \in Request /\ r.verdict \in Decision /\ Settle(r.ids, r.verdict)
    BY <1>4 DEF DecideToolProposals, TypeOK, Request, Decision
  <2>2. QED BY <1>4, <2>1, SettleTyped DEF DecideToolProposals, TypeOK
<1>5. CASE ExpireToolProposals
  <2>1. Settle(Due, "expired") /\ "expired" \in Decision
    BY <1>5 DEF ExpireToolProposals, Decision
  <2>2. QED BY <1>5, <2>1, SettleTyped DEF ExpireToolProposals, TypeOK
<1>6. ASSUME NEW p \in Proposals, ExecuteCommand(p) PROVE TypeOK'
  <2>1. /\ MechanicsState(link \cup {p}) \in LogicalState
        /\ MechanicsNarration(link \cup {p}) \in Narration
    BY Names DEF MechanicsState, MechanicsNarration
  <2>2. /\ phys' \in [state : PhysicalState, narration : Narration]
        /\ turn' \in [state : LogicalState, narration : Narration]
        /\ revision' \in Nat
    BY <1>6, <2>1, AdvanceTyped, Names DEF ExecuteCommand
  <2>3. p \in proposed /\ timeline + 1 \in Nat
    BY <1>6 DEF ExecuteCommand, Executable, TypeOK
  <2>4. QED BY <1>6, <2>2, <2>3 DEF ExecuteCommand, TypeOK
<1>7. ASSUME NEW p \in Proposals, ExecuteDomainAction(p) PROVE TypeOK'
  BY <1>7 DEF ExecuteDomainAction, Executable, TypeOK
<1>8. ASSUME NEW p \in Proposals, ReplanAgentProposal(p) PROVE TypeOK'
  BY <1>8, AdvanceTyped, Names DEF ReplanAgentProposal, Executable, TypeOK
<1>9. ASSUME NEW p \in Proposals, ExecuteUnlinked(p) PROVE TypeOK'
  BY <1>9 DEF ExecuteUnlinked, TypeOK
<1>10. ASSUME NEW S, LinkMechanics(S) PROVE TypeOK'
  <2>1. /\ MechanicsState(link \cup S) \in LogicalState
        /\ MechanicsNarration(link \cup S) \in Narration
    BY Names DEF MechanicsState, MechanicsNarration
  <2>2. QED BY <1>10, <2>1, AdvanceTyped, Names DEF LinkMechanics, Recoverable, TypeOK
<1>11. CASE StartNarration
  BY <1>11, AdvanceTyped, Names DEF StartNarration, TypeOK
<1>12. CASE CompleteNarration
  BY <1>12, AdvanceTyped, Names DEF CompleteNarration, TypeOK
<1>13. CASE CancelTurn
  BY <1>13, AdvanceTyped, Names DEF CancelTurn, Recoverable, TypeOK
<1>14. CASE FailTurn
  BY <1>14, AdvanceTyped, Names DEF FailTurn, TypeOK
<1>15. ASSUME NEW c \in Calls, RecordProviderCallStart(c) PROVE TypeOK'
  BY <1>15, AdvanceTyped, Names DEF RecordProviderCallStart, TypeOK
<1>16. ASSUME NEW c \in Calls, NEW o \in {"succeeded", "failed"},
              RecordProviderCallOutcome(c, o)
       PROVE  TypeOK'
  BY <1>16, AdvanceTyped, Names DEF RecordProviderCallOutcome, TypeOK
<1>17. CASE OutsideCommand
  BY <1>17 DEF OutsideCommand, TypeOK
<1>18. CASE Tick
  BY <1>18 DEF Tick, TypeOK
<1>19. CASE UNCHANGED vars
  BY <1>19 DEF vars, TypeOK
<1>20. QED
  BY <1>1, <1>2, <1>3, <1>4, <1>5, <1>6, <1>7, <1>8, <1>9, <1>10, <1>11, <1>12,
     <1>13, <1>14, <1>15, <1>16, <1>17, <1>18, <1>19
     DEF Next, LinkFinalMechanicsReceipt, ReconcileAdventureTurnMechanics

\* Every variable keeps its type: in particular the database's rows only ever
\* refer to proposals of the turn.
THEOREM TypeCorrect == Spec => []TypeOK
<1>1. QED BY TypeInit, TypeStep, PTL DEF Spec

-----------------------------------------------------------------------------
(* Consent: what has run was approved, was not replanned, and every link    *)
(* points at a committed command.                                          *)

LinksAreCommitted == link \subseteq command
Consent == CommitsWereApproved /\ ReplannedNeverRuns /\ LinksAreCommitted

LEMMA ConsentInit == Init => Consent
BY DEF Init, Consent, CommitsWereApproved, ReplannedNeverRuns, LinksAreCommitted

\* A batch of decisions touches only proposals that wait, and none has run.
LEMMA ConsentSettle ==
    ASSUME TypeOK, Consent, NEW S, NEW verdict, S \subseteq Pending,
           Settle(S, verdict),
           UNCHANGED <<proposed, confirmable, replan, command, link, receipt>>
    PROVE  Consent'
<1>1. \A p \in command \cup receipt : p \notin S
  BY DEF Consent, CommitsWereApproved, Approved, Pending
<1>2. CommitsWereApproved'
  BY <1>1, SettleEffect DEF Consent, CommitsWereApproved, Approved, TypeOK
<1>3. QED BY <1>2 DEF Consent, ReplannedNeverRuns, LinksAreCommitted

\* Steps that leave the rows of decisions and mechanics alone.
LEMMA ConsentUntouched ==
    ASSUME Consent,
           UNCHANGED <<proposed, confirmable, decision, replan, command, link, receipt>>
    PROVE  Consent'
BY DEF Consent, CommitsWereApproved, ReplannedNeverRuns, LinksAreCommitted, Approved

LEMMA ConsentStep == TypeOK /\ Consent /\ [Next]_vars => Consent'
<1> SUFFICES ASSUME TypeOK, Consent, [Next]_vars PROVE Consent'
  OBVIOUS
<1> USE DEF books, effects, network
<1>1. ASSUME NEW p \in Proposals, NEW c \in BOOLEAN, NEW b \in BOOLEAN,
             AppendToolProposal(p, c, b)
      PROVE  Consent'
  BY <1>1 DEF AppendToolProposal, Consent, CommitsWereApproved,
              ReplannedNeverRuns, LinksAreCommitted, Approved, TypeOK
<1>2. CASE WaitForToolConfirmation
  BY <1>2, ConsentUntouched DEF WaitForToolConfirmation
<1>3. ASSUME NEW r, SendConfirm(r) PROVE Consent'
  BY <1>3, ConsentUntouched DEF SendConfirm
<1>4. ASSUME NEW r \in sent, DecideToolProposals(r) PROVE Consent'
  BY <1>4, ConsentSettle DEF DecideToolProposals
<1>5. CASE ExpireToolProposals
  <2>1. Due \subseteq Pending
    BY DEF Due
  <2>2. QED BY <1>5, <2>1, ConsentSettle DEF ExpireToolProposals
<1>6. ASSUME NEW p \in Proposals, ExecuteCommand(p) PROVE Consent'
  <2>1. p \in Approved /\ p \notin replan
    BY <1>6, ApprovedStatus DEF ExecuteCommand, Executable, Approved
  <2>2. QED
    BY <1>6, <2>1 DEF ExecuteCommand, Consent, CommitsWereApproved,
                      ReplannedNeverRuns, LinksAreCommitted, Approved
<1>7. ASSUME NEW p \in Proposals, ExecuteDomainAction(p) PROVE Consent'
  <2>1. p \in Approved /\ p \notin replan
    BY <1>7, ApprovedStatus DEF ExecuteDomainAction, Executable, Approved
  <2>2. QED
    BY <1>7, <2>1 DEF ExecuteDomainAction, Consent, CommitsWereApproved,
                      ReplannedNeverRuns, LinksAreCommitted, Approved
<1>8. ASSUME NEW p \in Proposals, ReplanAgentProposal(p) PROVE Consent'
  <2>1. p \notin command \cup receipt
    BY <1>8, ApprovedStatus DEF ReplanAgentProposal, Executable
  <2>2. QED
    BY <1>8, <2>1 DEF ReplanAgentProposal, Consent, CommitsWereApproved,
                      ReplannedNeverRuns, LinksAreCommitted, Approved
<1>9. ASSUME NEW p \in Proposals, ExecuteUnlinked(p) PROVE Consent'
  <2>1. p \in Approved /\ p \notin replan
    BY <1>9, ApprovedStatus DEF ExecuteUnlinked, Approved, TypeOK
  <2>2. QED
    BY <1>9, <2>1 DEF ExecuteUnlinked, Consent, CommitsWereApproved,
                      ReplannedNeverRuns, LinksAreCommitted, Approved
<1>10. ASSUME NEW S, LinkMechanics(S) PROVE Consent'
  BY <1>10 DEF LinkMechanics, Recoverable, Consent, CommitsWereApproved,
               ReplannedNeverRuns, LinksAreCommitted, Approved
<1>11. CASE StartNarration
  BY <1>11, ConsentUntouched DEF StartNarration
<1>12. CASE CompleteNarration
  BY <1>12, ConsentUntouched DEF CompleteNarration
<1>13. CASE CancelTurn
  BY <1>13 DEF CancelTurn, Recoverable, Consent, CommitsWereApproved,
               ReplannedNeverRuns, LinksAreCommitted, Approved
<1>14. CASE FailTurn
  BY <1>14, ConsentUntouched DEF FailTurn
<1>15. ASSUME NEW c \in Calls, RecordProviderCallStart(c) PROVE Consent'
  BY <1>15, ConsentUntouched DEF RecordProviderCallStart
<1>16. ASSUME NEW c \in Calls, NEW o \in {"succeeded", "failed"},
              RecordProviderCallOutcome(c, o)
       PROVE  Consent'
  BY <1>16, ConsentUntouched DEF RecordProviderCallOutcome
<1>17. CASE OutsideCommand
  BY <1>17, ConsentUntouched DEF OutsideCommand
<1>18. CASE Tick
  BY <1>18, ConsentUntouched DEF Tick
<1>19. CASE UNCHANGED vars
  BY <1>19, ConsentUntouched DEF vars
<1>20. QED
  BY <1>1, <1>2, <1>3, <1>4, <1>5, <1>6, <1>7, <1>8, <1>9, <1>10, <1>11, <1>12,
     <1>13, <1>14, <1>15, <1>16, <1>17, <1>18, <1>19
     DEF Next, LinkFinalMechanicsReceipt, ReconcileAdventureTurnMechanics

\* Mechanics run only with consent, and a replanned proposal never runs.
THEOREM ConsentBeforeMechanics == Spec => []ConsentIsRespected
<1>1. TypeOK /\ Consent /\ [Next]_vars => TypeOK' /\ Consent'
  BY TypeStep, ConsentStep
<1>2. Consent => ConsentIsRespected
  BY DEF Consent, ConsentIsRespected
<1>3. QED BY TypeInit, ConsentInit, <1>1, <1>2, PTL DEF Spec

-----------------------------------------------------------------------------
(* Coordination: row and event, narration, and the end of the turn.        *)

\* A turn given up has executed or replanned everything it approved.
GivenUpLeavesNothing ==
    turn.state \in {"cancelled", "failed"} => NothingApprovedWaits

Coordination ==
    /\ RowFollowsEvent
    /\ NarratesOnlyEvidence
    /\ MechanicsCommittedMeansLinked
    /\ CancelledTurnIsReconciled
    /\ GivenUpLeavesNothing

\* What the steps do to the turn matters only in these states.
LEMMA CoordinationElsewhere ==
    ASSUME RowFollowsEvent',
           turn.state' \notin Terminal \cup {"narrating", "mechanics-committed"}
    PROVE  Coordination'
BY DEF Coordination, NarratesOnlyEvidence, MechanicsCommittedMeansLinked,
       CancelledTurnIsReconciled, GivenUpLeavesNothing, Terminal

\* Steps that leave the turn and the rows it is judged by alone.
LEMMA CoordinationUntouched ==
    ASSUME Coordination,
           UNCHANGED <<phys, turn, proposed, confirmable, decision, replan,
                       command, link, receipt>>
    PROVE  Coordination'
BY DEF Coordination, RowFollowsEvent, NarratesOnlyEvidence, HasDurableMechanics,
       MechanicsCommittedMeansLinked, Approved, CancelledTurnIsReconciled,
       GivenUpLeavesNothing, NothingApprovedWaits, Status, ReceiptLinks

LEMMA CoordinationInit == Init => Coordination
BY DEF Init, Coordination, RowFollowsEvent, NarratesOnlyEvidence, Terminal,
       MechanicsCommittedMeansLinked, CancelledTurnIsReconciled, GivenUpLeavesNothing

\* Nothing is executable in a turn that is over or being narrated: the
\* orchestrator returns before executing anything.
LEMMA NothingExecutesLate ==
    ASSUME Consent, Coordination, NEW p, Executable(p)
    PROVE  turn.state \notin Terminal \cup {"narrating"}
<1>1. Status(p) = "approved" /\ p \in proposed /\ Resumes
  BY DEF Executable
<1>2. turn.state \notin {"cancelled", "failed"}
  BY <1>1 DEF Coordination, GivenUpLeavesNothing, NothingApprovedWaits
<1>3. CASE turn.state \in {"narrating", "completed"}
  <2>1. ReceiptLinks # {}
    BY <1>1, <1>3 DEF Coordination, NarratesOnlyEvidence, HasDurableMechanics,
                      Consent, LinksAreCommitted, ReceiptLinks
  <2>2. EffectiveState = turn.state
    BY <1>3 DEF EffectiveState
  <2>3. QED BY <1>1, <1>3, <2>1, <2>2 DEF Resumes
<1>4. QED BY <1>2, <1>3 DEF Terminal

\* A batch that leaves the turn with nothing approved leaves it without
\* mechanics too: whatever ran was approved and still is.
LEMMA CoordinationSettle ==
    ASSUME TypeOK, Consent, Consent', Coordination, NEW S, NEW verdict,
           Settle(S, verdict),
           UNCHANGED <<proposed, confirmable, replan, command, link, receipt>>
    PROVE  Coordination'
<1>1. CASE Advance("awaiting-confirmation", "awaiting-confirmation", "none")
  <2>1. RowFollowsEvent'
    BY <1>1, AdvanceEffect DEF RowFollowsEvent, Terminal
  <2>2. QED BY <1>1, <2>1, AdvanceEffect, CoordinationElsewhere DEF Terminal
<1>2. CASE Advance("mechanics-committed", "confirmed", "none")
  <2>1. RowFollowsEvent'
    BY <1>2, AdvanceEffect DEF RowFollowsEvent, Terminal
  <2>2. QED BY <1>2, <2>1, AdvanceEffect, CoordinationElsewhere DEF Terminal
<1>3. CASE /\ Advance("cancelled", "cancelled", "none")
           /\ \A p \in proposed : p \in confirmable /\ decision'[p] # "approved"
           /\ \A p \in confirmable : decision'[p] # "none"
  <2>1. RowFollowsEvent'
    BY <1>3, AdvanceEffect DEF RowFollowsEvent, Terminal
  <2>2. command' = {} /\ link' = {}
    BY <1>3 DEF Consent, CommitsWereApproved, LinksAreCommitted, Approved
  <2>3. NothingApprovedWaits'
    BY <1>3 DEF NothingApprovedWaits, Status, ReceiptLinks
  <2>4. turn.state' = "cancelled"
    BY <1>3, AdvanceEffect
  <2>5. QED
    BY <2>1, <2>2, <2>3, <2>4 DEF Coordination, NarratesOnlyEvidence,
       MechanicsCommittedMeansLinked, CancelledTurnIsReconciled, GivenUpLeavesNothing
<1>4. QED BY <1>1, <1>2, <1>3, SettleEffect

\* The state a link leads to counts as committed only when all are linked.
LEMMA CoordinationLink ==
    ASSUME TypeOK, Consent', NEW linked, link' = linked, linked # {},
           UNCHANGED <<proposed, confirmable, decision>>,
           Advance("mechanics-committed", MechanicsState(linked), MechanicsNarration(linked))
    PROVE  Coordination'
<1>1. /\ phys' = [state |-> "mechanics-committed", narration |-> MechanicsNarration(linked)]
      /\ turn' = [state |-> MechanicsState(linked), narration |-> MechanicsNarration(linked)]
  BY AdvanceEffect
<1>2. MechanicsState(linked) \in {"mechanics-committed", "confirmed"}
  BY DEF MechanicsState
<1>3. RowFollowsEvent'
  BY <1>1, <1>2 DEF RowFollowsEvent, Terminal
<1>4. CASE MechanicsState(linked) = "confirmed"
  BY <1>1, <1>3, <1>4, CoordinationElsewhere DEF Terminal
<1>5. CASE MechanicsState(linked) = "mechanics-committed"
  <2>1. Approved # {} /\ Cardinality(linked) = Cardinality(Approved)
    BY <1>5 DEF MechanicsState
  <2>2. Approved' = Approved
    BY DEF Approved
  <2>3. linked \subseteq Approved
    BY <2>2 DEF Consent, LinksAreCommitted, CommitsWereApproved
  <2>4. IsFiniteSet(Approved)
    BY BoundsAssumption, FS_Subset DEF Approved, TypeOK
  <2>5. linked = Approved
    BY <2>1, <2>3, <2>4, FS_Subset
  <2>6. QED
    BY <1>1, <1>3, <1>5, <2>1, <2>2, <2>5
       DEF Coordination, NarratesOnlyEvidence, MechanicsCommittedMeansLinked,
           CancelledTurnIsReconciled, GivenUpLeavesNothing
<1>6. QED BY <1>2, <1>4, <1>5

LEMMA CoordinationStep ==
    TypeOK /\ Consent /\ Consent' /\ Coordination /\ [Next]_vars => Coordination'
<1> SUFFICES ASSUME TypeOK, Consent, Consent', Coordination, [Next]_vars
             PROVE  Coordination'
  OBVIOUS
<1> USE DEF books, effects, network
<1>1. ASSUME NEW p \in Proposals, NEW c \in BOOLEAN, NEW b \in BOOLEAN,
             AppendToolProposal(p, c, b)
      PROVE  Coordination'
  <2>1. /\ turn' = [state |-> "proposed", narration |-> "none"]
        /\ phys' = [state |-> KeepCommitted("proposed"), narration |-> "none"]
    BY <1>1, AdvanceEffect DEF AppendToolProposal
  <2>2. RowFollowsEvent'
    BY <2>1 DEF RowFollowsEvent, KeepCommitted, Terminal
  <2>3. QED BY <2>1, <2>2, CoordinationElsewhere DEF Terminal
<1>2. CASE WaitForToolConfirmation
  <2>1. /\ turn' = [state |-> "awaiting-confirmation", narration |-> "none"]
        /\ phys' = [state |-> KeepCommitted("awaiting-confirmation"), narration |-> "none"]
    BY <1>2, AdvanceEffect DEF WaitForToolConfirmation
  <2>2. RowFollowsEvent'
    BY <2>1 DEF RowFollowsEvent, KeepCommitted, Terminal
  <2>3. QED BY <2>1, <2>2, CoordinationElsewhere DEF Terminal
<1>3. ASSUME NEW r, SendConfirm(r) PROVE Coordination'
  BY <1>3, CoordinationUntouched DEF SendConfirm
<1>4. ASSUME NEW r \in sent, DecideToolProposals(r) PROVE Coordination'
  BY <1>4, CoordinationSettle DEF DecideToolProposals
<1>5. CASE ExpireToolProposals
  BY <1>5, CoordinationSettle DEF ExpireToolProposals
<1>6. ASSUME NEW p \in Proposals, ExecuteCommand(p) PROVE Coordination'
  BY <1>6, CoordinationLink DEF ExecuteCommand
<1>7. ASSUME NEW p \in Proposals, ExecuteDomainAction(p) PROVE Coordination'
  <2>1. turn.state \notin Terminal \cup {"narrating"}
    BY <1>7, NothingExecutesLate DEF ExecuteDomainAction
  <2>2. QED
    BY <1>7, <2>1 DEF ExecuteDomainAction, Coordination, RowFollowsEvent,
       NarratesOnlyEvidence, MechanicsCommittedMeansLinked, Approved,
       CancelledTurnIsReconciled, GivenUpLeavesNothing, Terminal
<1>8. ASSUME NEW p \in Proposals, ReplanAgentProposal(p) PROVE Coordination'
  <2>1. turn.state \notin Terminal \cup {"narrating"}
    BY <1>8, NothingExecutesLate DEF ReplanAgentProposal
  <2>2. /\ turn' = [state |-> "declared", narration |-> "none"]
        /\ phys' = [state |-> phys.state, narration |-> "none"]
    BY <1>8, AdvanceEffect DEF ReplanAgentProposal
  <2>3. RowFollowsEvent'
    BY <2>1, <2>2 DEF Coordination, RowFollowsEvent, Terminal
  <2>4. QED BY <2>2, <2>3, CoordinationElsewhere DEF Terminal
<1>9. ASSUME NEW p \in Proposals, ExecuteUnlinked(p) PROVE Coordination'
  BY <1>9 DEF ExecuteUnlinked, Coordination, RowFollowsEvent,
     NarratesOnlyEvidence, MechanicsCommittedMeansLinked,
     CancelledTurnIsReconciled, GivenUpLeavesNothing
<1>10. ASSUME NEW S, LinkMechanics(S) PROVE Coordination'
  BY <1>10, CoordinationLink DEF LinkMechanics
<1>11. CASE StartNarration
  <2>1. /\ turn' = [state |-> "narrating", narration |-> "in-progress"]
        /\ phys' = [state |-> "narrating", narration |-> "in-progress"]
    BY <1>11, AdvanceEffect DEF StartNarration
  <2>2. QED
    BY <1>11, <2>1 DEF StartNarration, HasEvidence, HasDurableMechanics,
       Coordination, RowFollowsEvent, NarratesOnlyEvidence,
       MechanicsCommittedMeansLinked, CancelledTurnIsReconciled,
       GivenUpLeavesNothing, Terminal
<1>12. CASE CompleteNarration
  <2>1. /\ turn' = [state |-> "completed", narration |-> "completed"]
        /\ phys' = [state |-> "completed", narration |-> "completed"]
    BY <1>12, AdvanceEffect DEF CompleteNarration
  <2>2. QED
    BY <1>12, <2>1 DEF CompleteNarration, HasEvidence, HasDurableMechanics,
       Coordination, RowFollowsEvent, NarratesOnlyEvidence,
       MechanicsCommittedMeansLinked, CancelledTurnIsReconciled,
       GivenUpLeavesNothing, Terminal
<1>13. CASE CancelTurn
  <2>1. /\ turn' = [state |-> "cancelled", narration |-> "none"]
        /\ phys' = [state |-> "cancelled", narration |-> "none"]
    BY <1>13, AdvanceEffect DEF CancelTurn
  <2>2. command' = link'
    BY <1>13 DEF CancelTurn, Recoverable, Consent, LinksAreCommitted
  <2>3. NothingApprovedWaits'
    BY <1>13, <2>1 DEF CancelTurn, NothingApprovedWaits, Status, ReceiptLinks
  <2>4. QED
    BY <2>1, <2>2, <2>3 DEF Coordination, RowFollowsEvent, NarratesOnlyEvidence,
       MechanicsCommittedMeansLinked, CancelledTurnIsReconciled,
       GivenUpLeavesNothing, Terminal
<1>14. CASE FailTurn
  <2>1. /\ turn' = [state |-> "failed", narration |-> "failed"]
        /\ phys' = [state |-> "failed", narration |-> "failed"]
    BY <1>14, AdvanceEffect DEF FailTurn
  <2>2. NothingApprovedWaits'
    BY <1>14, <2>1 DEF FailTurn, NothingApprovedWaits, Status, ReceiptLinks, Terminal
  <2>3. QED
    BY <2>1, <2>2 DEF Coordination, RowFollowsEvent, NarratesOnlyEvidence,
       MechanicsCommittedMeansLinked, CancelledTurnIsReconciled,
       GivenUpLeavesNothing, Terminal
<1>15. ASSUME NEW c \in Calls, RecordProviderCallStart(c) PROVE Coordination'
  <2>1. CASE /\ turn.state \in {"mechanics-committed", "narrating"}
             /\ Advance("narrating", "narrating", "in-progress")
    <3>1. /\ turn' = [state |-> "narrating", narration |-> "in-progress"]
          /\ phys' = [state |-> "narrating", narration |-> "in-progress"]
      BY <2>1, AdvanceEffect
    <3>2. HasDurableMechanics \/ proposed = {}
      BY <2>1 DEF Coordination, NarratesOnlyEvidence,
         MechanicsCommittedMeansLinked, HasDurableMechanics
    <3>3. QED
      BY <1>15, <3>1, <3>2 DEF RecordProviderCallStart, HasDurableMechanics,
         Coordination, RowFollowsEvent, NarratesOnlyEvidence,
         MechanicsCommittedMeansLinked, CancelledTurnIsReconciled,
         GivenUpLeavesNothing, Terminal
  <2>2. CASE /\ turn.state \notin {"mechanics-committed", "narrating"}
             /\ Advance(phys.state, turn.state, turn.narration)
    <3>1. /\ turn' = [state |-> turn.state, narration |-> turn.narration]
          /\ phys' = [state |-> phys.state, narration |-> turn.narration]
          /\ turn.state \notin Terminal
      BY <1>15, <2>2, AdvanceEffect DEF RecordProviderCallStart
    <3>2. RowFollowsEvent'
      BY <3>1 DEF Coordination, RowFollowsEvent
    <3>3. QED BY <2>2, <3>1, <3>2, CoordinationElsewhere
  <2>3. QED BY <1>15, <2>1, <2>2 DEF RecordProviderCallStart
<1>16. ASSUME NEW c \in Calls, NEW o \in {"succeeded", "failed"},
              RecordProviderCallOutcome(c, o)
       PROVE  Coordination'
  <2>1. PICK n : /\ turn' = [state |-> turn.state, narration |-> n]
                 /\ phys' = [state |-> phys.state, narration |-> n]
    <3>1. CASE /\ turn.state = "narrating"
               /\ Advance(phys.state, turn.state, "failed")
      BY <3>1, AdvanceEffect
    <3>2. CASE Advance(phys.state, turn.state, turn.narration)
      BY <3>2, AdvanceEffect
    <3>3. QED BY <1>16, <3>1, <3>2 DEF RecordProviderCallOutcome
  <2>2. turn.state \notin Terminal \cup {"mechanics-committed"}
    BY <1>16 DEF RecordProviderCallOutcome
  <2>3. QED
    BY <1>16, <2>1, <2>2 DEF RecordProviderCallOutcome, HasDurableMechanics,
       Coordination, RowFollowsEvent, NarratesOnlyEvidence,
       MechanicsCommittedMeansLinked, CancelledTurnIsReconciled,
       GivenUpLeavesNothing, Terminal
<1>17. CASE OutsideCommand
  BY <1>17, CoordinationUntouched DEF OutsideCommand
<1>18. CASE Tick
  BY <1>18, CoordinationUntouched DEF Tick
<1>19. CASE UNCHANGED vars
  BY <1>19, CoordinationUntouched DEF vars
<1>20. QED
  BY <1>1, <1>2, <1>3, <1>4, <1>5, <1>6, <1>7, <1>8, <1>9, <1>10, <1>11, <1>12,
     <1>13, <1>14, <1>15, <1>16, <1>17, <1>18, <1>19
     DEF Next, LinkFinalMechanicsReceipt, ReconcileAdventureTurnMechanics

Inv == TypeOK /\ Consent /\ Coordination

\* Inv is inductive: the one invariant behind the coordination theorems.
LEMMA InvHolds == Spec => []Inv
<1>1. Init => Inv
  BY TypeInit, ConsentInit, CoordinationInit DEF Inv
<1>2. Inv /\ [Next]_vars => Inv'
  BY TypeStep, ConsentStep, CoordinationStep DEF Inv
<1>3. QED BY <1>1, <1>2, PTL DEF Spec

\* The row the triggers guard follows the event the repository reads.
THEOREM RowNeverTrails == Spec => []RowFollowsEvent
<1>1. Inv => RowFollowsEvent
  BY DEF Inv, Coordination
<1>2. QED BY <1>1, InvHolds, PTL

\* A narrating or completed turn has evidence, or proposed nothing.
THEOREM NarrationHasEvidence == Spec => []NarratesOnlyEvidence
<1>1. Inv => NarratesOnlyEvidence
  BY DEF Inv, Coordination
<1>2. QED BY <1>1, InvHolds, PTL

\* A turn recorded as committed has linked all it approved, and a cancelled
\* turn accounts for every command it committed, crash or not.
THEOREM MechanicsAreAccountedFor == Spec => []MechanicsAreAccounted
<1>1. Inv => MechanicsAreAccounted
  BY DEF Inv, Coordination, MechanicsAreAccounted
<1>2. QED BY <1>1, InvHolds, PTL

\* No step changes a finished turn, its decisions or its mechanics: every
\* command advances the row, which admits no move out of a terminal state, and
\* the one step that advances nothing finds nothing to execute.
THEOREM FinishedTurnsStay == Spec => TerminalIsFinal
<1> DEFINE Kept == <<phys, turn, books, decision, replan, command, link, receipt>>
<1>1. Inv /\ [Next]_vars => [turn.state \in Terminal => UNCHANGED Kept]_vars
  <2> SUFFICES ASSUME Inv, [Next]_vars, turn.state \in Terminal
               PROVE  UNCHANGED Kept
    OBVIOUS
  <2>1. phys.state \in Terminal
    BY DEF Inv, Coordination, RowFollowsEvent, Terminal
  <2>2. \A a, s, n : ~ Advance(a, s, n)
    BY <2>1, AdvanceEffect
  <2>3. \A p : ~ Executable(p)
    BY NothingExecutesLate DEF Inv
  <2>4. \A S, v : ~ Settle(S, v)
    BY <2>1, SettleEffect DEF Terminal
  <2> USE DEF books, effects, network
  <2>5. CASE \E k \in Keys, S \in SUBSET Proposals, v \in {"approved", "rejected"} :
               SendConfirm([key |-> k, ids |-> S, verdict |-> v, expected |-> revision])
    BY <2>5 DEF SendConfirm
  <2>6. CASE \E p \in Proposals : ExecuteUnlinked(p)
    BY <2>6 DEF ExecuteUnlinked, Terminal
  <2>7. CASE OutsideCommand \/ Tick
    BY <2>7 DEF OutsideCommand, Tick
  <2>8. CASE UNCHANGED vars
    BY <2>8 DEF vars
  <2>9. QED
    BY <2>2, <2>3, <2>4, <2>5, <2>6, <2>7, <2>8
       DEF Next, AppendToolProposal, WaitForToolConfirmation, DecideToolProposals,
           ExpireToolProposals, ExecuteCommand, ExecuteDomainAction,
           ReplanAgentProposal, LinkFinalMechanicsReceipt,
           ReconcileAdventureTurnMechanics, LinkMechanics, StartNarration,
           CompleteNarration, CancelTurn, FailTurn, RecordProviderCallStart,
           RecordProviderCallOutcome
<1>2. QED BY <1>1, InvHolds, PTL DEF Spec, TerminalIsFinal

-----------------------------------------------------------------------------
(* Decisions: requested by a client, acknowledged once, made in time.      *)

\* A batch over waiting proposals leaves every earlier decision as it was.
LEMMA DecisionsKept ==
    ASSUME TypeOK, NEW S, NEW verdict, S \subseteq Pending, Settle(S, verdict),
           NEW p \in Proposals, decision[p] # "none"
    PROVE  decision'[p] = decision[p]
BY SettleEffect DEF Pending, TypeOK

LEMMA DecisionsInit == Init => DecisionsHold
BY DEF Init, DecisionsHold, AcknowledgedDecisionsHold, DecisionsWereRequested

LEMMA DecisionsStep == TypeOK /\ DecisionsHold /\ [Next]_vars => DecisionsHold'
<1> SUFFICES ASSUME TypeOK, DecisionsHold, [Next]_vars PROVE DecisionsHold'
  OBVIOUS
<1> USE DEF books, effects, network
<1>1. ASSUME NEW r \in sent, DecideToolProposals(r) PROVE DecisionsHold'
  <2>1. /\ Settle(r.ids, r.verdict) /\ r.ids \subseteq Pending
        /\ r.ids \subseteq Proposals /\ r.verdict \in {"approved", "rejected"}
        /\ sent' = sent
    BY <1>1 DEF DecideToolProposals, TypeOK, Request
  <2>2. \A p \in Proposals : decision'[p] = IF p \in r.ids THEN r.verdict ELSE decision[p]
    BY <2>1, SettleEffect
  <2>3. DecisionsWereRequested'
    BY <2>1, <2>2 DEF DecisionsHold, DecisionsWereRequested
  <2>4. ASSUME NEW k \in Keys, reply'[k] # None, NEW p \in reply'[k].ids
        PROVE  decision'[p] = reply'[k].verdict
    <3>1. CASE k = r.key
      <4>1. reply'[k] = r
        BY <1>1, <3>1 DEF DecideToolProposals, TypeOK
      <4>2. QED BY <2>1, <2>2, <2>4, <4>1
    <3>2. CASE k # r.key
      <4>1. reply'[k] = reply[k]
        BY <1>1, <3>2 DEF DecideToolProposals, TypeOK
      <4>2. reply[k] \in Request /\ p \in Proposals
        BY <2>4, <4>1 DEF TypeOK, Request
      <4>3. decision[p] = reply[k].verdict /\ decision[p] # "none"
        BY <2>4, <4>1, <4>2 DEF DecisionsHold, AcknowledgedDecisionsHold, Request
      <4>4. QED BY <2>1, <4>1, <4>2, <4>3, DecisionsKept
    <3>3. QED BY <3>1, <3>2
  <2>5. QED BY <2>3, <2>4 DEF DecisionsHold, AcknowledgedDecisionsHold
<1>2. CASE ExpireToolProposals
  <2>1. /\ Settle(Due, "expired") /\ Due \subseteq Pending
        /\ sent' = sent /\ reply' = reply
    BY <1>2 DEF ExpireToolProposals, Due
  <2>2. \A p \in Proposals : decision'[p] = IF p \in Due THEN "expired" ELSE decision[p]
    BY <2>1, SettleEffect
  <2>3. DecisionsWereRequested'
    BY <2>1, <2>2 DEF DecisionsHold, DecisionsWereRequested
  <2>4. ASSUME NEW k \in Keys, reply'[k] # None, NEW p \in reply'[k].ids
        PROVE  decision'[p] = reply'[k].verdict
    <3>1. reply[k] \in Request /\ p \in Proposals
      BY <2>1, <2>4 DEF TypeOK, Request
    <3>2. decision[p] = reply[k].verdict /\ decision[p] # "none"
      BY <2>1, <2>4, <3>1 DEF DecisionsHold, AcknowledgedDecisionsHold, Request
    <3>3. QED BY <2>1, <3>1, <3>2, DecisionsKept
  <2>5. QED BY <2>3, <2>4 DEF DecisionsHold, AcknowledgedDecisionsHold
<1>3. ASSUME UNCHANGED <<decision, reply>>, sent \subseteq sent' PROVE DecisionsHold'
  BY <1>3 DEF DecisionsHold, AcknowledgedDecisionsHold, DecisionsWereRequested
<1>4. QED
  BY <1>1, <1>2, <1>3
     DEF Next, vars, AppendToolProposal, WaitForToolConfirmation, SendConfirm,
         ExecuteCommand, ExecuteDomainAction, ReplanAgentProposal,
         ExecuteUnlinked, LinkFinalMechanicsReceipt,
         ReconcileAdventureTurnMechanics, LinkMechanics, StartNarration,
         CompleteNarration, CancelTurn, FailTurn, RecordProviderCallStart,
         RecordProviderCallOutcome, OutsideCommand, Tick

\* What a client was told of its decision stays true, and no decision of a
\* client's kind exists that no client asked for.
THEOREM DecisionsAreKept == Spec => []DecisionsHold
<1>1. TypeOK /\ DecisionsHold /\ [Next]_vars => TypeOK' /\ DecisionsHold'
  BY TypeStep, DecisionsStep
<1>2. QED BY TypeInit, DecisionsInit, <1>1, PTL DEF Spec

\* The clock separates consent from expiry: whichever step decides a proposal,
\* it approves or rejects only before the expiry and expires only from then on.
THEOREM ClockSeparates == Spec => ConsentBeatsExpiry
<1> DEFINE InItsTime ==
      \A p \in Proposals : decision'[p] # decision[p] =>
          /\ decision[p] = "none"
          /\ (now < expires[p]) <=> (decision'[p] # "expired")
<1>1. TypeOK /\ [Next]_vars => [InItsTime]_vars
  <2> SUFFICES ASSUME TypeOK, Next PROVE InItsTime
    OBVIOUS
  <2>1. ASSUME NEW r \in sent, DecideToolProposals(r) PROVE InItsTime
    <3>1. /\ Settle(r.ids, r.verdict) /\ r.ids \subseteq Pending
          /\ r.verdict \in {"approved", "rejected"}
          /\ \A p \in r.ids : now < expires[p]
      BY <2>1 DEF DecideToolProposals, TypeOK, Request, InTime
    <3>2. QED BY <3>1, SettleEffect DEF Pending
  <2>2. CASE ExpireToolProposals
    <3>1. /\ Settle(Due, "expired")
          /\ \A p \in Due : p \in Pending /\ expires[p] <= now
      BY <2>2 DEF ExpireToolProposals, Due
    <3>2. \A p \in Proposals : expires[p] \in Nat /\ now \in Nat
      BY DEF TypeOK
    <3>3. QED BY <3>1, <3>2, SettleEffect DEF Pending
  <2>3. CASE UNCHANGED decision
    BY <2>3
  <2> USE DEF books, effects, network
  <2>4. QED
    BY <2>1, <2>2, <2>3
       DEF Next, AppendToolProposal, WaitForToolConfirmation, SendConfirm,
           ExecuteCommand, ExecuteDomainAction, ReplanAgentProposal,
           ExecuteUnlinked, LinkFinalMechanicsReceipt,
           ReconcileAdventureTurnMechanics, LinkMechanics, StartNarration,
           CompleteNarration, CancelTurn, FailTurn, RecordProviderCallStart,
           RecordProviderCallOutcome, OutsideCommand, Tick
<1>2. QED BY <1>1, TypeCorrect, PTL DEF Spec, ConsentBeatsExpiry

-----------------------------------------------------------------------------
(* The refinement of TurnPromise.                                          *)

Fates == [p \in Proposals |-> FateOf(p)]

-----------------------------------------------------------------------------
(* What the simulation needs beyond Inv.                                   *)

\* Only confirmable proposals are decided, and only approved ones replanned.
DecidedWereConfirmable == \A p \in Proposals : decision[p] # "none" => p \in confirmable
ReplannedWereApproved == replan \subseteq Approved

\* A committed row collects new proposals only after a replan.
CommittedRowWaitsAfterReplan ==
    phys.state = "mechanics-committed" /\ Pending # {} => replan # {}

RequestsNameProposals == \A r \in sent : r.ids # {}

Planning ==
    /\ DecidedWereConfirmable
    /\ ReplannedWereApproved
    /\ CommittedRowWaitsAfterReplan
    /\ RequestsNameProposals

LEMMA PlanningInit == Init => Planning
BY DEF Init, Planning, DecidedWereConfirmable, ReplannedWereApproved,
       CommittedRowWaitsAfterReplan, RequestsNameProposals, Pending

LEMMA PlanningSettle ==
    ASSUME Inv, Planning, NEW S, NEW verdict, verdict # "none", S \subseteq Pending,
           Settle(S, verdict), UNCHANGED <<proposed, confirmable, replan, sent>>
    PROVE  Planning'
<1>1. /\ \A p \in S : p \in confirmable /\ decision[p] = "none"
      /\ \A p \in Proposals : decision'[p] = IF p \in S THEN verdict ELSE decision[p]
      /\ confirmable \subseteq proposed /\ proposed \subseteq Proposals
  BY SettleEffect DEF Pending, Inv, TypeOK
<1>2. DecidedWereConfirmable'
  BY <1>1 DEF Planning, DecidedWereConfirmable
<1>3. ReplannedWereApproved'
  BY <1>1 DEF Planning, ReplannedWereApproved, Approved
<1>4. CommittedRowWaitsAfterReplan'
  <2>1. CASE \E p \in confirmable : decision'[p] = "none"
    <3>1. Advance("awaiting-confirmation", "awaiting-confirmation", "none")
      BY <2>1, <1>1, SettleEffect DEF Settle
    <3>2. QED BY <3>1, AdvanceEffect DEF CommittedRowWaitsAfterReplan
  <2>2. CASE \A p \in confirmable : decision'[p] # "none"
    BY <2>2 DEF CommittedRowWaitsAfterReplan, Pending
  <2>3. QED BY <2>1, <2>2
<1>5. QED BY <1>2, <1>3, <1>4 DEF Planning, RequestsNameProposals

\* Steps that touch neither the rows of proposals nor a row yet to be committed.
LEMMA PlanningUntouched ==
    ASSUME Planning,
           UNCHANGED <<proposed, confirmable, decision, replan, sent>>,
           phys'.state = "mechanics-committed" =>
               phys.state = "mechanics-committed" \/ Pending = {}
    PROVE  Planning'
BY DEF Planning, DecidedWereConfirmable, ReplannedWereApproved, Approved,
       CommittedRowWaitsAfterReplan, Pending, RequestsNameProposals

\* A link commits a row that is committed, or one without confirmations.
LEMMA LinkedRow ==
    ASSUME Inv, turn.state \in {"proposed", "confirmed", "mechanics-committed"},
           NEW S, S # {}, LinkAllowed(S)
    PROVE  phys.state = "mechanics-committed" \/ Pending = {}
BY DEF Inv, Coordination, RowFollowsEvent, Terminal, LinkAllowed, Pending

LEMMA PlanningStep == Inv /\ Planning /\ [Next]_vars => Planning'
<1> SUFFICES ASSUME Inv, Planning, [Next]_vars PROVE Planning'
  OBVIOUS
<1> USE DEF books, effects, network
<1>1. ASSUME NEW p \in Proposals, NEW c \in BOOLEAN, NEW b \in BOOLEAN,
             AppendToolProposal(p, c, b)
      PROVE  Planning'
  <2>1. /\ phys' = [state |-> KeepCommitted("proposed"), narration |-> "none"]
        /\ p \notin proposed /\ proposed' = proposed \cup {p}
        /\ confirmable \subseteq confirmable' /\ confirmable' \subseteq confirmable \cup {p}
        /\ decision' = decision /\ replan' = replan /\ sent' = sent
    BY <1>1, AdvanceEffect DEF AppendToolProposal
  <2>2. CommittedRowWaitsAfterReplan'
    BY <1>1, <2>1 DEF AppendToolProposal, AppendAllowed, KeepCommitted,
                      CommittedRowWaitsAfterReplan
  <2>3. ReplannedWereApproved'
    BY <2>1 DEF Planning, ReplannedWereApproved, Approved
  <2>4. QED
    BY <2>1, <2>2, <2>3 DEF Planning, DecidedWereConfirmable, RequestsNameProposals
<1>2. CASE WaitForToolConfirmation
  <2>1. phys' = [state |-> KeepCommitted("awaiting-confirmation"), narration |-> "none"]
    BY <1>2, AdvanceEffect DEF WaitForToolConfirmation
  <2>2. QED BY <1>2, <2>1, PlanningUntouched DEF WaitForToolConfirmation, KeepCommitted
<1>3. ASSUME NEW r, SendConfirm(r) PROVE Planning'
  BY <1>3 DEF SendConfirm, Planning, DecidedWereConfirmable, ReplannedWereApproved,
              Approved, CommittedRowWaitsAfterReplan, Pending, RequestsNameProposals
<1>4. ASSUME NEW r \in sent, DecideToolProposals(r) PROVE Planning'
  <2>1. r.verdict # "none"
    BY DEF Inv, TypeOK, Request
  <2>2. QED BY <1>4, <2>1, PlanningSettle DEF DecideToolProposals
<1>5. CASE ExpireToolProposals
  <2>1. Due \subseteq Pending
    BY DEF Due
  <2>2. QED BY <1>5, <2>1, PlanningSettle DEF ExpireToolProposals
<1>6. ASSUME NEW p \in Proposals, ExecuteCommand(p) PROVE Planning'
  <2>1. phys.state = "mechanics-committed" \/ Pending = {}
    BY <1>6, LinkedRow DEF ExecuteCommand
  <2>2. QED BY <1>6, <2>1, PlanningUntouched DEF ExecuteCommand
<1>7. ASSUME NEW p \in Proposals, ExecuteDomainAction(p) PROVE Planning'
  BY <1>7, PlanningUntouched DEF ExecuteDomainAction
<1>8. ASSUME NEW p \in Proposals, ReplanAgentProposal(p) PROVE Planning'
  <2>1. p \in Approved
    BY <1>8, ApprovedStatus DEF ReplanAgentProposal, Executable, Approved
  <2>2. QED
    BY <1>8, <2>1 DEF ReplanAgentProposal, Planning, DecidedWereConfirmable,
       ReplannedWereApproved, Approved, CommittedRowWaitsAfterReplan, RequestsNameProposals
<1>9. ASSUME NEW p \in Proposals, ExecuteUnlinked(p) PROVE Planning'
  BY <1>9, PlanningUntouched DEF ExecuteUnlinked
<1>10. ASSUME NEW S, LinkMechanics(S) PROVE Planning'
  <2>1. phys.state = "mechanics-committed" \/ Pending = {}
    BY <1>10, LinkedRow DEF LinkMechanics
  <2>2. QED BY <1>10, <2>1, PlanningUntouched DEF LinkMechanics
<1>11. CASE StartNarration
  BY <1>11, AdvanceEffect, PlanningUntouched DEF StartNarration
<1>12. CASE CompleteNarration
  BY <1>12, AdvanceEffect, PlanningUntouched DEF CompleteNarration
<1>13. CASE CancelTurn
  BY <1>13, AdvanceEffect, PlanningUntouched DEF CancelTurn
<1>14. CASE FailTurn
  BY <1>14, AdvanceEffect, PlanningUntouched DEF FailTurn
<1>15. ASSUME NEW c \in Calls, RecordProviderCallStart(c) PROVE Planning'
  BY <1>15, AdvanceEffect, PlanningUntouched DEF RecordProviderCallStart
<1>16. ASSUME NEW c \in Calls, NEW o \in {"succeeded", "failed"},
              RecordProviderCallOutcome(c, o)
       PROVE  Planning'
  BY <1>16, AdvanceEffect, PlanningUntouched DEF RecordProviderCallOutcome
<1>17. CASE OutsideCommand
  BY <1>17, PlanningUntouched DEF OutsideCommand
<1>18. CASE Tick
  BY <1>18, PlanningUntouched DEF Tick
<1>19. CASE UNCHANGED vars
  BY <1>19, PlanningUntouched DEF vars
<1>20. QED
  BY <1>1, <1>2, <1>3, <1>4, <1>5, <1>6, <1>7, <1>8, <1>9, <1>10, <1>11, <1>12,
     <1>13, <1>14, <1>15, <1>16, <1>17, <1>18, <1>19
     DEF Next, LinkFinalMechanicsReceipt, ReconcileAdventureTurnMechanics

-----------------------------------------------------------------------------
(* The refinement mapping: each fate stands for one kind of row.           *)

FateTable ==
    \A p \in Proposals :
        /\ FateOf(p) \in Promise!Fate
        /\ FateOf(p) = "executed" <=> p \in ReceiptLinks
        /\ FateOf(p) = "dropped" <=> p \in replan
        /\ FateOf(p) = "approved" <=> p \in Approved \ (ReceiptLinks \cup replan)
        /\ FateOf(p) = "pending" <=> p \in Pending
        /\ FateOf(p) = "refused" <=> decision[p] \in {"rejected", "expired"}
        /\ FateOf(p) = "absent" <=> p \notin proposed

LEMMA FatesTabulated == Inv /\ Planning => FateTable
<1> SUFFICES ASSUME Inv, Planning, NEW p \in Proposals
             PROVE  /\ FateOf(p) \in Promise!Fate
                    /\ FateOf(p) = "executed" <=> p \in ReceiptLinks
                    /\ FateOf(p) = "dropped" <=> p \in replan
                    /\ FateOf(p) = "approved" <=> p \in Approved \ (ReceiptLinks \cup replan)
                    /\ FateOf(p) = "pending" <=> p \in Pending
                    /\ FateOf(p) = "refused" <=> decision[p] \in {"rejected", "expired"}
                    /\ FateOf(p) = "absent" <=> p \notin proposed
  BY DEF FateTable
<1>1. /\ ReceiptLinks \subseteq Approved /\ replan \subseteq Approved
      /\ ReceiptLinks \cap replan = {} /\ Approved \cap Pending = {}
      /\ Approved \subseteq proposed /\ Pending \subseteq proposed
  BY DEF Inv, Consent, CommitsWereApproved, ReplannedNeverRuns, ReceiptLinks,
         Planning, ReplannedWereApproved, Approved, Pending, TypeOK
<1>2. decision[p] \in {"rejected", "expired"} => p \in proposed \ (Approved \cup Pending)
  BY DEF Planning, DecidedWereConfirmable, Approved, Pending, Inv, TypeOK
<1>3. p \in proposed \ (Approved \cup Pending) => decision[p] \in {"rejected", "expired"}
  BY DEF Approved, Pending, Inv, TypeOK, Decision
<1>4. CASE p \in ReceiptLinks
  BY <1>1, <1>2, <1>4 DEF FateOf, Promise!Fate
<1>5. CASE p \in replan
  BY <1>1, <1>2, <1>5 DEF FateOf, Promise!Fate
<1>6. CASE p \in Approved \ (ReceiptLinks \cup replan)
  BY <1>1, <1>2, <1>6 DEF FateOf, Promise!Fate
<1>7. CASE p \in Pending
  BY <1>1, <1>2, <1>7 DEF FateOf, Promise!Fate
<1>8. CASE p \in proposed \ (Approved \cup Pending)
  BY <1>1, <1>3, <1>8 DEF FateOf, Promise!Fate
<1>9. CASE p \notin proposed
  BY <1>1, <1>2, <1>9 DEF FateOf, Promise!Fate
<1>10. QED BY <1>4, <1>5, <1>6, <1>7, <1>8, <1>9

\* Steps that leave the rows the fates are read from alone.
LEMMA FatesKept ==
    ASSUME UNCHANGED <<proposed, confirmable, decision, replan, ReceiptLinks>>
    PROVE  Fates' = Fates
BY DEF Fates, FateOf, Approved, Pending

LEMMA PhaseOpen ==
    ASSUME turn.state \notin Terminal \cup {"narrating"}
    PROVE  PhaseOf = "open"
BY DEF PhaseOf, Terminal

-----------------------------------------------------------------------------
(* The simulation.                                                         *)

\* Changing the fate of one proposal, in the terms of the promise.
LEMMA OneFate ==
    ASSUME NEW p \in Proposals, NEW f,
           \A q \in Proposals : FateOf(q)' = IF q = p THEN f ELSE FateOf(q)
    PROVE  Fates' = [Fates EXCEPT ![p] = f]
BY DEF Fates

LEMMA RunSimulated ==
    ASSUME FateTable, FateTable', NEW p \in Proposals, p \in proposed, Status(p) = "approved",
           ReceiptLinks' = ReceiptLinks \cup {p},
           UNCHANGED <<proposed, confirmable, decision, replan>>,
           PhaseOf = "open", PhaseOf' = "open"
    PROVE  Promise!Run(p)
<1>1. p \in Approved \ (ReceiptLinks \cup replan)
  BY ApprovedStatus DEF Approved, ReceiptLinks
<1>2. FateOf(p) = "approved" /\ FateOf(p)' = "executed"
  BY <1>1 DEF FateTable
<1>3. \A q \in Proposals : q # p => FateOf(q)' = FateOf(q)
  BY DEF FateOf, Approved, Pending
<1>4. Fates' = [Fates EXCEPT ![p] = "executed"]
  BY <1>2, <1>3, OneFate
<1>5. QED BY <1>2, <1>4 DEF Promise!Run, Fates

LEMMA DropSimulated ==
    ASSUME FateTable, FateTable', NEW p \in Proposals, p \in proposed, Status(p) = "approved",
           replan' = replan \cup {p},
           UNCHANGED <<proposed, confirmable, decision, command, receipt>>,
           PhaseOf = "open", PhaseOf' = "open"
    PROVE  Promise!Drop(p)
<1>1. p \in Approved \ (ReceiptLinks \cup replan)
  BY ApprovedStatus DEF Approved, ReceiptLinks
<1>2. FateOf(p) = "approved" /\ FateOf(p)' = "dropped"
  BY <1>1 DEF FateTable
<1>3. \A q \in Proposals : q # p => FateOf(q)' = FateOf(q)
  BY DEF FateOf, Approved, Pending, ReceiptLinks
<1>4. Fates' = [Fates EXCEPT ![p] = "dropped"]
  BY <1>2, <1>3, OneFate
<1>5. QED BY <1>2, <1>4 DEF Promise!Drop, Fates

LEMMA ProposeSimulated ==
    ASSUME FateTable, FateTable', NEW p \in Proposals, NEW c \in BOOLEAN, NEW b \in BOOLEAN,
           Inv, Planning, AppendToolProposal(p, c, b)
    PROVE  Promise!Propose(p)
<1> USE DEF books, effects, network
<1>1. /\ p \notin proposed /\ proposed' = proposed \cup {p}
      /\ confirmable' = IF c THEN confirmable \cup {p} ELSE confirmable
      /\ UNCHANGED <<decision, replan, command, receipt>>
  BY DEF AppendToolProposal
<1>2. decision[p] = "none"
  BY <1>1 DEF Planning, DecidedWereConfirmable, Inv, TypeOK
<1>3. p \notin ReceiptLinks \cup replan \cup confirmable
  BY <1>1 DEF ReceiptLinks, Inv, TypeOK
<1>4. FateOf(p) = "absent"
  BY <1>1 DEF FateTable
<1>5. PICK f \in {"pending", "approved"} : FateOf(p)' = f
  BY <1>1, <1>2, <1>3 DEF FateOf, Approved, Pending, ReceiptLinks
<1>6. \A q \in Proposals : q # p => FateOf(q)' = FateOf(q)
  BY <1>1 DEF FateOf, Approved, Pending, ReceiptLinks
<1>7. Fates' = [Fates EXCEPT ![p] = f]
  BY <1>5, <1>6, OneFate
<1>8. PhaseOf = "open"
  BY PhaseOpen DEF AppendToolProposal, Terminal
<1>9. PhaseOf' = "open"
  BY AdvanceEffect DEF AppendToolProposal, PhaseOf
<1>10. QED BY <1>4, <1>5, <1>7, <1>8, <1>9 DEF Promise!Propose, Fates

LEMMA DecideSimulated ==
    ASSUME FateTable, FateTable', Inv, Inv', Planning, NEW S, S # {}, S \subseteq Pending,
           NEW verdict \in {"approved", "rejected", "expired"},
           turn.state = "awaiting-confirmation", Settle(S, verdict),
           UNCHANGED <<proposed, confirmable, replan, command, receipt>>
    PROVE  \E v \in {"approved", "refused"} : Promise!Decide(S, v)
<1> DEFINE v == IF verdict = "approved" THEN "approved" ELSE "refused"
<1>1. S \subseteq proposed /\ S \subseteq Proposals
  BY DEF Pending, Inv, TypeOK
<1>2. \A p \in Proposals : decision'[p] = IF p \in S THEN verdict ELSE decision[p]
  BY SettleEffect
<1>3. \A p \in S : FateOf(p) = "pending" /\ p \notin ReceiptLinks \cup replan
  <2>1. \A p \in S : FateOf(p) = "pending"
    BY <1>1 DEF FateTable
  <2>2. \A p \in S : FateOf(p) # "executed" /\ FateOf(p) # "dropped"
    BY <2>1
  <2>3. QED BY <1>1, <2>1, <2>2 DEF FateTable
<1>4. \A p \in S : FateOf(p)' = v
  <2>1. CASE verdict = "approved"
    <3>1. \A p \in S : p \in Approved' \ (ReceiptLinks' \cup replan')
      BY <1>1, <1>2, <1>3, <2>1 DEF Approved, ReceiptLinks
    <3>2. QED BY <1>1, <2>1, <3>1 DEF FateTable
  <2>2. CASE verdict \in {"rejected", "expired"}
    BY <1>1, <1>2, <2>2 DEF FateTable
  <2>3. QED BY <2>1, <2>2
<1>5. \A p \in Proposals \ S : FateOf(p)' = FateOf(p)
  BY <1>2 DEF FateOf, Approved, Pending, ReceiptLinks
<1>6. Fates' = [p \in Proposals |-> IF p \in S THEN v ELSE Fates[p]]
  BY <1>4, <1>5 DEF Fates
<1>7. PhaseOf = "open"
  BY PhaseOpen DEF Terminal
<1>8. \/ PhaseOf' = "open"
      \/ /\ \A p \in Proposals : Fates'[p] \in {"absent", "refused"}
         /\ PhaseOf' = "abandoned"
  <2>1. CASE Advance("awaiting-confirmation", "awaiting-confirmation", "none")
    BY <2>1, AdvanceEffect DEF PhaseOf
  <2>2. CASE Advance("mechanics-committed", "confirmed", "none")
    BY <2>2, AdvanceEffect DEF PhaseOf
  <2>3. CASE /\ Advance("cancelled", "cancelled", "none")
             /\ \A p \in proposed : p \in confirmable /\ decision'[p] # "approved"
             /\ \A p \in confirmable : decision'[p] # "none"
    <3>1. PhaseOf' = "abandoned"
      BY <2>3, AdvanceEffect DEF PhaseOf
    <3>2. \A p \in proposed : decision'[p] \in {"rejected", "expired"}
      BY <2>3 DEF Inv, TypeOK, Decision
    <3>3. \A p \in Proposals : FateOf(p)' \in {"absent", "refused"}
      BY <3>2 DEF FateTable
    <3>4. QED BY <3>1, <3>3 DEF Fates
  <2>4. QED BY <2>1, <2>2, <2>3, SettleEffect
<1>9. Promise!Decide(S, v)
  BY <1>1, <1>3, <1>6, <1>7, <1>8 DEF Promise!Decide, Fates
<1>10. QED BY <1>9

\* Narration starts with nothing pending, over something that ran or nothing at all.
LEMMA NarrateSimulated ==
    ASSUME FateTable, Inv, UNCHANGED Fates, PhaseOf = "open", PhaseOf' = "narrating",
           Pending = {}, HasDurableMechanics \/ proposed = {}
    PROVE  Promise!Narrate
<1>1. \A p \in Proposals : FateOf(p) # "pending"
  BY DEF FateTable
<1>2. CASE HasDurableMechanics
  <2>1. PICK p \in ReceiptLinks : TRUE
    BY <1>2 DEF HasDurableMechanics, ReceiptLinks, Inv, Consent, LinksAreCommitted
  <2>2. p \in Proposals /\ FateOf(p) = "executed"
    BY <2>1 DEF FateTable, Inv, TypeOK, ReceiptLinks
  <2>3. QED BY <1>1, <2>2 DEF Promise!Narrate, Fates
<1>3. CASE proposed = {}
  <2>1. \A p \in Proposals : FateOf(p) = "absent"
    BY <1>3 DEF FateTable
  <2>2. QED BY <1>1, <2>1 DEF Promise!Narrate, Fates
<1>4. QED BY <1>2, <1>3

Simulation == Promise!Next \/ UNCHANGED <<PhaseOf, Fates>>

LEMMA StepSimulated ==
    ASSUME Inv, Inv', Planning, FateTable, FateTable', [Next]_vars
    PROVE  Simulation
<1> USE DEF books, effects, network
<1>1. ASSUME NEW p \in Proposals, NEW c \in BOOLEAN, NEW b \in BOOLEAN,
             AppendToolProposal(p, c, b)
      PROVE  Simulation
  BY <1>1, ProposeSimulated DEF Simulation, Promise!Next
<1>2. CASE WaitForToolConfirmation
  <2>1. Fates' = Fates
    BY <1>2, FatesKept DEF WaitForToolConfirmation, ReceiptLinks
  <2>2. PhaseOf = "open" /\ PhaseOf' = "open"
    BY <1>2, AdvanceEffect DEF WaitForToolConfirmation, PhaseOf
  <2>3. QED BY <2>1, <2>2 DEF Simulation
<1>3. ASSUME NEW r, SendConfirm(r) PROVE Simulation
  BY <1>3, FatesKept DEF SendConfirm, Simulation, PhaseOf, ReceiptLinks
<1>4. ASSUME NEW r \in sent, DecideToolProposals(r) PROVE Simulation
  <2>1. /\ r.ids # {} /\ r.ids \subseteq Pending
        /\ r.verdict \in {"approved", "rejected", "expired"}
    BY <1>4 DEF DecideToolProposals, Planning, RequestsNameProposals, Inv, TypeOK, Request
  <2>2. \E v \in {"approved", "refused"} : Promise!Decide(r.ids, v)
    BY <1>4, <2>1, DecideSimulated DEF DecideToolProposals
  <2>3. r.ids \in SUBSET Proposals
    BY <2>1 DEF Pending, Inv, TypeOK
  <2>4. QED BY <2>2, <2>3 DEF Simulation, Promise!Next
<1>5. CASE ExpireToolProposals
  <2>1. Due # {} /\ Due \subseteq Pending
    BY <1>5 DEF ExpireToolProposals, Due
  <2>2. \E v \in {"approved", "refused"} : Promise!Decide(Due, v)
    BY <1>5, <2>1, DecideSimulated DEF ExpireToolProposals
  <2>3. Due \in SUBSET Proposals
    BY <2>1 DEF Pending, Inv, TypeOK
  <2>4. QED BY <2>2, <2>3 DEF Simulation, Promise!Next
<1>6. ASSUME NEW p \in Proposals, ExecuteCommand(p) PROVE Simulation
  <2>1. PhaseOf = "open"
    BY <1>6, PhaseOpen DEF ExecuteCommand, Terminal
  <2>2. PhaseOf' = "open"
    BY <1>6, AdvanceEffect DEF ExecuteCommand, PhaseOf, MechanicsState
  <2>3. Promise!Run(p)
    BY <1>6, <2>1, <2>2, RunSimulated DEF ExecuteCommand, Executable, ReceiptLinks
  <2>4. QED BY <2>3 DEF Simulation, Promise!Next
<1>7. ASSUME NEW p \in Proposals, ExecuteDomainAction(p) PROVE Simulation
  <2>1. turn.state \notin Terminal \cup {"narrating"}
    BY <1>7, NothingExecutesLate DEF ExecuteDomainAction, Inv
  <2>2. PhaseOf = "open" /\ PhaseOf' = "open"
    BY <1>7, <2>1 DEF ExecuteDomainAction, PhaseOf, Terminal
  <2>3. ReceiptLinks' = ReceiptLinks \cup {p}
    BY <1>7 DEF ExecuteDomainAction, ReceiptLinks
  <2>4. Promise!Run(p)
    BY <1>7, <2>2, <2>3, RunSimulated DEF ExecuteDomainAction, Executable
  <2>5. QED BY <2>4 DEF Simulation, Promise!Next
<1>8. ASSUME NEW p \in Proposals, ReplanAgentProposal(p) PROVE Simulation
  <2>1. PhaseOf = "open"
    BY <1>8, NothingExecutesLate, PhaseOpen DEF ReplanAgentProposal, Inv
  <2>2. PhaseOf' = "open"
    BY <1>8, AdvanceEffect DEF ReplanAgentProposal, PhaseOf
  <2>3. Promise!Drop(p)
    BY <1>8, <2>1, <2>2, DropSimulated DEF ReplanAgentProposal, Executable
  <2>4. QED BY <2>3 DEF Simulation, Promise!Next
<1>9. ASSUME NEW p \in Proposals, ExecuteUnlinked(p) PROVE Simulation
  <2>1. PhaseOf = "open" /\ PhaseOf' = "open"
    BY <1>9 DEF ExecuteUnlinked, PhaseOf
  <2>2. p \in proposed /\ ReceiptLinks' = ReceiptLinks \cup {p}
    BY <1>9 DEF ExecuteUnlinked, ReceiptLinks, Inv, TypeOK
  <2>3. Promise!Run(p)
    BY <1>9, <2>1, <2>2, RunSimulated DEF ExecuteUnlinked
  <2>4. QED BY <2>3 DEF Simulation, Promise!Next
<1>10. ASSUME NEW S, LinkMechanics(S) PROVE Simulation
  <2>1. Fates' = Fates
    BY <1>10, FatesKept DEF LinkMechanics, ReceiptLinks
  <2>2. PhaseOf = "open" /\ PhaseOf' = "open"
    BY <1>10, AdvanceEffect DEF LinkMechanics, PhaseOf, MechanicsState
  <2>3. QED BY <2>1, <2>2 DEF Simulation
<1>11. CASE StartNarration
  <2>1. Fates' = Fates
    BY <1>11, FatesKept DEF StartNarration, ReceiptLinks
  <2>2. turn.state \notin Terminal \cup {"narrating"}
    <3>1. phys.state \notin Terminal
      BY <1>11, AdvanceEffect DEF StartNarration
    <3>2. turn.state \notin Terminal
      BY <3>1 DEF Inv, Coordination, RowFollowsEvent
    <3>3. turn.state # "narrating"
      BY <1>11 DEF StartNarration, EffectiveState
    <3>4. QED BY <3>2, <3>3
  <2>3. PhaseOf = "open" /\ PhaseOf' = "narrating"
    BY <1>11, <2>2, AdvanceEffect, PhaseOpen DEF StartNarration, PhaseOf
  <2>4. Promise!Narrate
    BY <1>11, <2>1, <2>3, NarrateSimulated DEF StartNarration, StreamNarrates, HasEvidence
  <2>5. QED BY <2>4 DEF Simulation, Promise!Next
<1>12. CASE CompleteNarration
  <2>1. Fates' = Fates
    BY <1>12, FatesKept DEF CompleteNarration, ReceiptLinks
  <2>2. PhaseOf = "narrating" /\ PhaseOf' = "completed"
    BY <1>12, AdvanceEffect DEF CompleteNarration, PhaseOf
  <2>3. QED BY <2>1, <2>2 DEF Simulation, Promise!Next, Promise!Complete, Fates
<1>13. CASE CancelTurn
  <2>1. Fates' = Fates
    BY <1>13, FatesKept DEF CancelTurn, ReceiptLinks
  <2>2. PhaseOf \in {"open", "narrating"} /\ PhaseOf' = "abandoned"
    BY <1>13, AdvanceEffect DEF CancelTurn, PhaseOf, Terminal
  <2>3. QED BY <2>1, <2>2 DEF Simulation, Promise!Next, Promise!Abandon, Fates
<1>14. CASE FailTurn
  <2>1. Fates' = Fates
    BY <1>14, FatesKept DEF FailTurn, ReceiptLinks
  <2>2. PhaseOf \in {"open", "narrating"} /\ PhaseOf' = "abandoned"
    BY <1>14, AdvanceEffect DEF FailTurn, PhaseOf, Terminal
  <2>3. QED BY <2>1, <2>2 DEF Simulation, Promise!Next, Promise!Abandon, Fates
<1>15. ASSUME NEW c \in Calls, RecordProviderCallStart(c) PROVE Simulation
  <2>1. Fates' = Fates
    BY <1>15, FatesKept DEF RecordProviderCallStart, ReceiptLinks
  <2>2. CASE /\ turn.state = "mechanics-committed"
             /\ Advance("narrating", "narrating", "in-progress")
    <3>1. PhaseOf = "open" /\ PhaseOf' = "narrating"
      BY <2>2, AdvanceEffect DEF PhaseOf
    <3>2. Approved # {} /\ Approved = link /\ phys.state = "mechanics-committed"
      BY <2>2 DEF Inv, Coordination, MechanicsCommittedMeansLinked, RowFollowsEvent
    <3>3. replan = {}
      BY <3>2 DEF Inv, Consent, ReplannedNeverRuns, LinksAreCommitted,
                  Planning, ReplannedWereApproved
    <3>4. Pending = {} /\ HasDurableMechanics
      BY <3>2, <3>3 DEF Planning, CommittedRowWaitsAfterReplan, HasDurableMechanics
    <3>5. QED BY <2>1, <3>1, <3>4, NarrateSimulated DEF Simulation, Promise!Next
  <2>3. CASE /\ turn.state = "narrating"
             /\ Advance("narrating", "narrating", "in-progress")
    <3>1. PhaseOf' = PhaseOf
      BY <2>3, AdvanceEffect DEF PhaseOf
    <3>2. QED BY <2>1, <3>1 DEF Simulation
  <2>4. CASE Advance(phys.state, turn.state, turn.narration)
    <3>1. PhaseOf' = PhaseOf
      BY <2>4, AdvanceEffect DEF PhaseOf
    <3>2. QED BY <2>1, <3>1 DEF Simulation
  <2>5. QED BY <1>15, <2>2, <2>3, <2>4 DEF RecordProviderCallStart
<1>16. ASSUME NEW c \in Calls, NEW o \in {"succeeded", "failed"},
              RecordProviderCallOutcome(c, o)
       PROVE  Simulation
  <2>1. Fates' = Fates
    BY <1>16, FatesKept DEF RecordProviderCallOutcome, ReceiptLinks
  <2>2. turn'.state = turn.state
    BY <1>16, AdvanceEffect DEF RecordProviderCallOutcome
  <2>3. PhaseOf' = PhaseOf
    BY <2>2 DEF PhaseOf
  <2>4. QED BY <2>1, <2>3 DEF Simulation
<1>17. CASE OutsideCommand \/ Tick \/ UNCHANGED vars
  BY <1>17, FatesKept DEF OutsideCommand, Tick, vars, Simulation, PhaseOf, ReceiptLinks
<1>18. QED
  BY <1>1, <1>2, <1>3, <1>4, <1>5, <1>6, <1>7, <1>8, <1>9, <1>10, <1>11, <1>12,
     <1>13, <1>14, <1>15, <1>16, <1>17
     DEF Next, LinkFinalMechanicsReceipt, ReconcileAdventureTurnMechanics

LEMMA InitSimulated == Init => Promise!Init
BY DEF Init, Promise!Init, PhaseOf, FateOf, ReceiptLinks, Approved, Pending

\* The coordinated turn implements the promise: whatever is planned, replayed,
\* expired, replanned or recovered, consent comes before mechanics, mechanics
\* before narration, and every proposal is decided and run at most once.
THEOREM PromiseIsKept == Spec => KeepsPromise
<1>1. Spec => [](Inv /\ Planning)
  <2>1. Inv /\ Planning /\ [Next]_vars => Planning'
    BY PlanningStep
  <2>2. QED BY PlanningInit, InvHolds, <2>1, PTL DEF Spec
<1>2. Spec => [](Inv /\ Planning /\ FateTable)
  BY <1>1, FatesTabulated, PTL
<1>3. (Inv /\ Planning /\ FateTable) /\ (Inv /\ Planning /\ FateTable)' /\ [Next]_vars
        => [Promise!Next]_(Promise!vars)
  BY StepSimulated DEF Simulation, Promise!vars, Fates
<1>4. QED BY <1>2, <1>3, InitSimulated, PTL DEF Spec, KeepsPromise, Promise!Spec

=============================================================================
