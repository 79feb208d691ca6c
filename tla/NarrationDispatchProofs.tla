----------------------- MODULE NarrationDispatchProofs -----------------------
(***************************************************************************)
(* The safety of NarrationDispatch for every set of streams and workers,   *)
(* every lease and every number of crashes and disconnections.             *)
(*                                                                         *)
(* The inductive invariant Inv has three parts besides the types: who      *)
(* holds the dispatch (Claims), what the turn's stored commands say of its *)
(* state (Ends) and where the texts come from (Honest).  One lemma per     *)
(* part, with one step per action, and the theorems last.                  *)
(***************************************************************************)
EXTENDS NarrationDispatch, TLAPS

-----------------------------------------------------------------------------
(* The inductive invariant.                                                *)

\* Where a stream has claimed the dispatch and not yet seen it settle.
Owning == {"start", "call", "settle", "denied", "reclaim"}

\* Whoever is on the way to the provider owns the one claim, and has prepared
\* its prompt from a context no older than the claim's.
Claims ==
    /\ requests <= 1
    /\ dispatch.status = "none" => requests = 0
    /\ dispatch.frozen <= context
    /\ dispatch.status = "claimed" => dispatch.text = None
    /\ Settled => dispatch.text \in Text
    /\ \A s \in Streams :
         /\ seen[s] <= context
         /\ pc[s] = "finalize" => Settled
         /\ pc[s] = "start" => requests = 0
         /\ pc[s] \in Owning => dispatch.owner = s
         /\ pc[s] \in Owning \cup {"poll"} =>
              dispatch.status # "none" /\ dispatch.frozen <= seen[s]

\* The stored commands and the turn agree on how far the turn has come.
Ends ==
    /\ turn.state # "ready" => began # None
    /\ call = "none" <=> started = None
    /\ turn.state = "completed" <=> finished # None
    /\ stored = IF finished = None THEN None ELSE finished.text
    /\ \A s \in Streams :
         /\ pc[s] \notin {"idle", "open", "error"} => began # None
         /\ pc[s] = "done" => turn.state = "completed"
         /\ pc[s] = "complete" /\ held[s].state = "completed" => turn.state = "completed"
         /\ pc[s] \in {"narrate", "prepare"} => held[s].state = "narrating"

\* The text of the settled dispatch or, before it settles, the only text it can
\* still settle on once its owner has given up.
FromDispatch(x) == x = IF Settled THEN dispatch.text ELSE Located(dispatch.frozen)

\* The stored narration of an unclaimed dispatch is bare fallback prose; over an
\* unmoved context any other is that of the dispatch.
HonestStored ==
    /\ dispatch.status = "none" => stored \in {None, Bare}
    /\ dispatch.status # "none" /\ context = dispatch.frozen =>
         stored \in {None, Bare} \/ FromDispatch(stored)

\* The same holds of the text a stream is about to store or tell; before the
\* dispatch settles only its owner may have another text than bare prose.
HonestStream(s) ==
    /\ pc[s] = "complete" =>
         /\ dispatch.status = "none" => text[s] = Bare /\ held[s].state # "completed"
         /\ dispatch.status # "none" /\ context = dispatch.frozen =>
              \/ text[s] = Bare /\ held[s].state # "completed"
              \/ FromDispatch(text[s])
         /\ dispatch.status = "claimed" /\ text[s] # Bare => dispatch.owner = s
    /\ pc[s] = "denied" => text[s] = Located(seen[s])
    /\ pc[s] = "done" => told[s] = stored \/ stored = Bare \/ context # dispatch.frozen

Honest == HonestStored /\ \A s \in Streams : HonestStream(s)

Inv == TypeOK /\ Claims /\ Ends /\ Honest

-----------------------------------------------------------------------------
(* Lemmas about the operators.                                             *)

\* The texts are apart from each other and from the absent one.
LEMMA Texts ==
    /\ Bare \in Text /\ ProviderText \in Text /\ Bare # ProviderText
    /\ \A v \in Nat : Located(v) \in Text /\ Located(v) # Bare /\ Located(v) # ProviderText
    /\ None \notin Text
BY DispatchAssumption DEF Text, Bare, ProviderText, Located

\* A stream that ends, ends there or falls silent; only its own entries change.
LEMMA FinishEffect ==
    ASSUME TypeOK, NEW s \in Streams, NEW stage \in Stage,
           NEW narration \in Text \cup {None}, Finish(s, stage, narration)
    PROVE  /\ pc' \in [Streams -> Stage]
           /\ \A t \in Streams : t # s => pc'[t] = pc[t] /\ told'[t] = told[t]
           /\ \/ pc'[s] = stage /\ told'[s] = narration
              \/ pc'[s] = "idle"
           /\ told' \in [Streams -> Text \cup {None}]
           /\ gone' \subseteq Streams /\ reserved' \subseteq Workers
BY DEF Finish, Goto, TypeOK, Stage

\* Settling the dispatch keeps its owner, its lease and the context it froze.
LEMMA ResolveEffect ==
    ASSUME TypeOK, NEW t \in Text, Resolve(t)
    PROVE  /\ dispatch' \in Dispatch
           /\ dispatch'.status = "settled" /\ dispatch'.text = t
           /\ dispatch'.owner = dispatch.owner /\ dispatch'.frozen = dispatch.frozen
BY DEF Resolve, Dispatch, TypeOK

-----------------------------------------------------------------------------
(* Types.                                                                  *)

\* The initial state is typed.
LEMMA TypeInit == Init => TypeOK
BY Texts DEF Init, TypeOK, Stage, Snapshot, Dispatch

\* Claims keeps the texts that are read from the dispatch typed.
LEMMA TypeStep == TypeOK /\ Claims /\ [Next]_vars => TypeOK'
<1> SUFFICES ASSUME TypeOK, Claims, [Next]_vars PROVE TypeOK'
  OBVIOUS
<1> USE DEF row, local, bounds
<1>0. Lease \in Nat /\ \A v \in Nat : v + 1 \in Nat /\ v + Lease \in Nat
  BY DispatchAssumption
<1>1. ASSUME NEW s \in Streams, Open(s) PROVE TypeOK'
  <2>1. /\ pc' \in [Streams -> Stage]
        /\ told' \in [Streams -> Text \cup {None}]
        /\ gone' \subseteq Streams /\ reserved' \subseteq Workers
    BY <1>1, FinishEffect DEF Open, Goto, TypeOK, Stage
  <2>2. held' \in [Streams -> Snapshot]
    BY <1>1 DEF Open, Read, Snapshot, TypeOK
  <2>3. QED BY <1>1, <2>1, <2>2 DEF Open, TypeOK
<1>2. ASSUME NEW s \in Streams, Begin(s) PROVE TypeOK'
  <2>1. /\ pc' \in [Streams -> Stage]
        /\ told' \in [Streams -> Text \cup {None}]
        /\ gone' \subseteq Streams /\ reserved' \subseteq Workers
    BY <1>2, FinishEffect DEF Begin, Goto, TypeOK, Stage
  <2>2. /\ turn' \in [state : {"ready", "narrating", "completed"}, revision : Nat,
                      narration : {"none", "in-progress", "failed", "completed"}]
        /\ began' \in Nat \cup {None}
    BY <1>0, <1>2 DEF Begin, TypeOK
  <2>3. held' \in [Streams -> Snapshot]
    BY <1>0, <1>2, <2>2 DEF Begin, Read, Snapshot, TypeOK
  <2>4. QED BY <1>2, <2>1, <2>2, <2>3 DEF Begin, TypeOK
<1>3. ASSUME NEW s \in Streams, Recover(s) PROVE TypeOK'
  BY <1>3 DEF Recover, Goto, TypeOK, Stage
<1>4. ASSUME NEW s \in Streams, FallBack(s) PROVE TypeOK'
  BY <1>4, Texts DEF FallBack, Goto, TypeOK, Stage
<1>5. ASSUME NEW s \in Streams, Claim(s) PROVE TypeOK'
  <2>1. /\ pc' \in [Streams -> Stage]
        /\ told' \in [Streams -> Text \cup {None}]
        /\ gone' \subseteq Streams /\ reserved' \subseteq Workers
    BY <1>5, FinishEffect DEF Claim, Goto, TypeOK, Stage
  <2>2. dispatch' \in Dispatch
    <3>1. seen' \in [Streams -> Nat] /\ Located(context) \in Text
      BY <1>5, Texts DEF Claim, TypeOK
    <3>2. CASE dispatch' = [status |-> "claimed", owner |-> s, lease |-> now + Lease,
                            frozen |-> context, text |-> None]
      BY <1>0, <3>2 DEF Dispatch, TypeOK
    <3>3. CASE Resolve(Located(context))
      BY <3>1, <3>3, ResolveEffect
    <3>4. CASE UNCHANGED dispatch
      BY <3>4 DEF TypeOK
    <3>5. QED BY <1>5, <3>2, <3>3, <3>4, ZenonT(40) DEF Claim
  <2>3. QED BY <1>5, <2>1, <2>2 DEF Claim, TypeOK
<1>6. ASSUME NEW s \in Streams, Poll(s) PROVE TypeOK'
  <2>1. dispatch' \in Dispatch
    BY <1>6, Texts, ResolveEffect DEF Poll, SealExpired, TypeOK
  <2>2. QED BY <1>6, <2>1 DEF Poll, Goto, TypeOK, Stage
<1>7. ASSUME NEW s \in Streams, Start(s) PROVE TypeOK'
  <2>1. turn' \in [state : {"ready", "narrating", "completed"}, revision : Nat,
                   narration : {"none", "in-progress", "failed", "completed"}]
    BY <1>0, <1>7 DEF Start, TypeOK
  <2>2. held' \in [Streams -> Snapshot]
    BY <1>0, <1>7 DEF Start, Snapshot, TypeOK
  <2>3. reserved' \subseteq Workers
    <3>1. reserved' = reserved \cup {home[s]} \/ reserved' = reserved
      BY <1>7 DEF Start
    <3>2. home[s] \in Workers
      BY DispatchAssumption
    <3>3. QED BY <3>1, <3>2 DEF TypeOK
  <2>4. pc' \in [Streams -> Stage] /\ text' \in [Streams -> Text] /\ requests' \in Nat
    BY <1>7, <1>0, Texts DEF Start, Goto, TypeOK, Stage
  <2>5. call' \in {"none", "started", "succeeded", "failed"} /\ started' \in Nat \cup {None}
    BY <1>7 DEF Start, TypeOK
  <2>6. QED BY <1>7, <2>1, <2>2, <2>3, <2>4, <2>5 DEF Start, TypeOK
<1>8. ASSUME NEW s \in Streams, StartRefused(s) PROVE TypeOK'
  BY <1>8, Texts DEF StartRefused, Goto, TypeOK, Stage
<1>9. ASSUME NEW s \in Streams, NEW ok \in BOOLEAN, Answer(s, ok) PROVE TypeOK'
  <2>1. /\ pc' \in [Streams -> Stage]
        /\ told' \in [Streams -> Text \cup {None}]
        /\ gone' \subseteq Streams /\ reserved' \subseteq Workers
    BY <1>9, FinishEffect DEF Answer, Goto, TypeOK, Stage
  <2>2. text' \in [Streams -> Text]
    BY <1>9, Texts DEF Answer, TypeOK
  <2>3. QED BY <1>9, <2>1, <2>2 DEF Answer, TypeOK
<1>10. ASSUME NEW s \in Streams, Settle(s) PROVE TypeOK'
  <2>1. dispatch' \in Dispatch
    BY <1>10, ResolveEffect DEF Settle, TypeOK
  <2>2. held' \in [Streams -> Snapshot] /\ text' = text
    BY <1>10 DEF Settle, Read, Snapshot, TypeOK
  <2>3. pc' \in [Streams -> Stage]
    BY <1>10 DEF Settle, Goto, TypeOK, Stage
  <2>4. QED BY <1>10, <2>1, <2>2, <2>3 DEF Settle, TypeOK
<1>11. ASSUME NEW s \in Streams, Reclaim(s) PROVE TypeOK'
  <2>1. dispatch' \in Dispatch
    BY <1>11, Texts, ResolveEffect DEF Reclaim, SealExpired, TypeOK
  <2>2. held' \in [Streams -> Snapshot]
    BY <1>11 DEF Reclaim, Read, Snapshot, TypeOK
  <2>3. text' \in [Streams -> Text] /\ pc' \in [Streams -> Stage]
    BY <1>11, Texts DEF Reclaim, Goto, TypeOK, Stage
  <2>4. QED BY <1>11, <2>1, <2>2, <2>3 DEF Reclaim, TypeOK
<1>12. ASSUME NEW s \in Streams, Finalize(s) PROVE TypeOK'
  <2>1. dispatch.text \in Text
    BY <1>12 DEF Finalize, Claims
  <2>2. text' \in [Streams -> Text] /\ pc' \in [Streams -> Stage]
    BY <1>12, <2>1, Texts DEF Finalize, Goto, TypeOK, Stage
  <2>3. /\ turn' \in [state : {"ready", "narrating", "completed"}, revision : Nat,
                      narration : {"none", "in-progress", "failed", "completed"}]
        /\ call' \in {"none", "started", "succeeded", "failed"}
    <3>1. CASE UNCHANGED <<turn, call>>
      BY <3>1 DEF TypeOK
    <3>2. CASE /\ call' = Outcome(s)
               /\ turn' = [turn EXCEPT !.revision = @ + 1,
                             !.narration = IF Outcome(s) = "failed" THEN "failed" ELSE @]
      BY <1>0, <3>2 DEF Outcome, TypeOK
    <3>3. QED BY <1>12, <3>1, <3>2 DEF Finalize
  <2>4. held' \in [Streams -> Snapshot]
    BY <1>12, <2>3 DEF Finalize, Read, Snapshot, TypeOK
  <2>5. UNCHANGED <<stored, began, started, finished, dispatch, context, now,
                    reserved, requests, hooks, seen, told, gone, bounds>>
    BY <1>12 DEF Finalize
  <2>6. QED BY <2>2, <2>3, <2>4, <2>5, SMTT(20) DEF TypeOK
<1>13. ASSUME NEW s \in Streams, CompleteTurn(s) PROVE TypeOK'
  <2>1. /\ pc' \in [Streams -> Stage]
        /\ told' \in [Streams -> Text \cup {None}]
        /\ gone' \subseteq Streams /\ reserved' \subseteq Workers
    BY <1>13, FinishEffect DEF CompleteTurn, TypeOK, Stage
  <2>2. turn' \in [state : {"ready", "narrating", "completed"}, revision : Nat,
                   narration : {"none", "in-progress", "failed", "completed"}]
    BY <1>0, <1>13 DEF CompleteTurn, TypeOK
  <2>3. stored' \in Text /\ finished' \in CompletionRequest /\ hooks' \in Nat
    BY <1>13 DEF CompleteTurn, Completion, CompletionRequest, TypeOK, Snapshot
  <2>4. QED BY <1>13, <2>1, <2>2, <2>3 DEF CompleteTurn, TypeOK
<1>14. ASSUME NEW s \in Streams, ReplayCompletion(s) PROVE TypeOK'
  <2>1. text[s] \in Text \cup {None} /\ "done" \in Stage
    BY DEF TypeOK, Stage
  <2>2. QED BY <1>14, <2>1, FinishEffect DEF ReplayCompletion, TypeOK
<1>15. ASSUME NEW s \in Streams, LoseCompletion(s) PROVE TypeOK'
  <2>1. stored \in Text \cup {None} /\ "done" \in Stage /\ "error" \in Stage
    BY DEF TypeOK, Stage
  <2>2. QED BY <1>15, <2>1, FinishEffect DEF LoseCompletion, StoredText, TypeOK
<1>16. ASSUME NEW s \in Streams, TellCompleted(s) PROVE TypeOK'
  <2>1. text[s] \in Text \cup {None} /\ "done" \in Stage
    BY DEF TypeOK, Stage
  <2>2. QED BY <1>16, <2>1, FinishEffect DEF TellCompleted, TypeOK
<1>17. ASSUME NEW s \in Streams, Disconnect(s) PROVE TypeOK'
  BY <1>17 DEF Disconnect, Goto, TypeOK, Stage
<1>18. ASSUME NEW w \in Workers, Crash(w) PROVE TypeOK'
  BY <1>18 DEF Crash, TypeOK, Stage
<1>19. CASE OtherCommand
  BY <1>19 DEF OtherCommand, TypeOK
<1>20. CASE ContextMoves
  BY <1>20 DEF ContextMoves, TypeOK
<1>21. CASE Tick
  BY <1>21 DEF Tick, TypeOK
<1>22. CASE UNCHANGED vars
  BY <1>22 DEF vars, TypeOK
<1>23. QED
  BY <1>1, <1>2, <1>3, <1>4, <1>5, <1>6, <1>7, <1>8, <1>9, <1>10, <1>11, <1>12, <1>13,
     <1>14, <1>15, <1>16, <1>17, <1>18, <1>19, <1>20, <1>21, <1>22 DEF Next, Proceed

-----------------------------------------------------------------------------
(* Who holds the dispatch.                                                 *)

LEMMA ClaimsInit == Init => Claims
BY DEF Init, Claims, Owning, Settled

\* A step of one stream that sends no request and claims nothing keeps Claims, if
\* it leaves the dispatch as it is or settles it.
LEMMA ClaimsMove ==
    ASSUME TypeOK, Claims, NEW s \in Streams,
           UNCHANGED <<requests, context, seen>>,
           \A t \in Streams : t # s => pc'[t] = pc[t],
           \/ dispatch' = dispatch
           \/ /\ dispatch'.status = "settled" /\ dispatch'.text \in Text
              /\ dispatch.status = "claimed"
              /\ dispatch'.owner = dispatch.owner /\ dispatch'.frozen = dispatch.frozen,
           pc'[s] \notin {"start", "poll"},
           pc'[s] = "finalize" => dispatch'.status = "settled",
           pc'[s] \in Owning => pc[s] \in Owning
    PROVE  Claims'
<1>1. /\ requests' <= 1
      /\ dispatch'.status = "none" => requests' = 0
      /\ dispatch'.frozen <= context'
      /\ dispatch'.status = "claimed" => dispatch'.text = None
      /\ Settled' => dispatch'.text \in Text
  BY DEF Claims, Settled
<1>2. ASSUME NEW t \in Streams
      PROVE  /\ seen'[t] <= context'
             /\ pc'[t] = "finalize" => Settled'
             /\ pc'[t] = "start" => requests' = 0
             /\ pc'[t] \in Owning => dispatch'.owner = t
             /\ pc'[t] \in Owning \cup {"poll"} =>
                  dispatch'.status # "none" /\ dispatch'.frozen <= seen'[t]
  <2>1. CASE t = s BY <2>1 DEF Claims, Settled, Owning
  <2>2. CASE t # s BY <2>2 DEF Claims, Settled, Owning
  <2>3. QED BY <2>1, <2>2
<1>3. QED BY <1>1, <1>2 DEF Claims

LEMMA ClaimsStep == TypeOK /\ Claims /\ [Next]_vars => Claims'
<1> SUFFICES ASSUME TypeOK, Claims, [Next]_vars PROVE Claims'
  OBVIOUS
<1> USE DEF row, local, bounds
<1>f. ASSUME NEW s \in Streams, NEW stage \in {"done", "error"},
             NEW n \in Text \cup {None}, Finish(s, stage, n)
      PROVE  /\ \A t \in Streams : t # s => pc'[t] = pc[t]
             /\ pc'[s] \in {"done", "error", "idle"}
  BY <1>f, FinishEffect DEF Stage
<1>1. ASSUME NEW s \in Streams, Open(s) PROVE Claims'
  <2>1. /\ \A t \in Streams : t # s => pc'[t] = pc[t]
        /\ pc'[s] \in {"open", "narrate", "done", "error", "idle"}
    <3>1. CASE Finish(s, "done", stored)
      <4>1. stored \in Text \cup {None}
        BY DEF TypeOK
      <4>2. QED BY <1>f, <3>1, <4>1
    <3>2. CASE Goto(s, "open") \/ Goto(s, "narrate")
      BY <3>2 DEF Goto, TypeOK
    <3>3. QED BY <1>1, <3>1, <3>2 DEF Open
  <2>2. QED BY <1>1, <2>1, ClaimsMove DEF Open, Owning
<1>2. ASSUME NEW s \in Streams, Begin(s) PROVE Claims'
  <2>1. /\ \A t \in Streams : t # s => pc'[t] = pc[t]
        /\ pc'[s] \in {"narrate", "error", "idle", "done"}
    BY <1>2, <1>f DEF Begin, Goto, TypeOK
  <2>2. QED BY <1>2, <2>1, ClaimsMove DEF Begin, Owning
<1>3. ASSUME NEW s \in Streams, Recover(s) PROVE Claims'
  BY <1>3, ClaimsMove DEF Recover, Goto, TypeOK, Owning, Settled
<1>4. ASSUME NEW s \in Streams, FallBack(s) PROVE Claims'
  BY <1>4, ClaimsMove DEF FallBack, Goto, TypeOK, Owning
<1>5. ASSUME NEW s \in Streams, Claim(s) PROVE Claims'
  <2>0. /\ requests' = requests /\ context' = context /\ context \in Nat
        /\ seen' = [seen EXCEPT ![s] = context] /\ seen \in [Streams -> Nat]
        /\ seen'[s] = context /\ \A t \in Streams : t # s => seen'[t] = seen[t]
        /\ dispatch.frozen \in Nat
    BY <1>5 DEF Claim, TypeOK, Dispatch
  <2>1. CASE /\ CanClaim
             /\ dispatch' = [status |-> "claimed", owner |-> s, lease |-> now + Lease,
                             frozen |-> context, text |-> None]
             /\ Goto(s, "start")
    <3>1. /\ dispatch'.status = "claimed" /\ dispatch'.owner = s
          /\ dispatch'.frozen = context /\ dispatch'.text = None /\ requests = 0
          /\ dispatch.status = "none"
      BY <2>1 DEF CanClaim, Claims
    <3>2. pc'[s] = "start" /\ \A t \in Streams : t # s => pc'[t] = pc[t]
      BY <2>1 DEF Goto, TypeOK
    <3>3. QED BY <2>0, <3>1, <3>2 DEF Claims, Owning, Settled
  <2>2. ASSUME \A t \in Streams : t # s => pc'[t] = pc[t],
               pc'[s] \in {"finalize", "poll", "done", "error", "idle"},
               \/ dispatch' = dispatch
               \/ /\ dispatch'.status = "settled" /\ dispatch'.text \in Text
                  /\ dispatch.status = "claimed"
                  /\ dispatch'.owner = dispatch.owner /\ dispatch'.frozen = dispatch.frozen,
               pc'[s] = "finalize" => dispatch'.status = "settled",
               pc'[s] = "poll" => dispatch'.status # "none"
        PROVE  Claims'
    BY <2>0, <2>2 DEF Claims, Owning, Settled
  <2>3. CASE CanClaim /\ Finish(s, "error", None) /\ UNCHANGED dispatch
    BY <1>f, <2>2, <2>3
  <2>4. CASE Live /\ Goto(s, "poll") /\ UNCHANGED dispatch
    BY <2>2, <2>4 DEF Goto, Live, TypeOK
  <2>5. CASE Live /\ Finish(s, "error", None) /\ UNCHANGED dispatch
    BY <1>f, <2>2, <2>5
  <2>6. CASE Expired /\ Resolve(Located(context)) /\ Goto(s, "finalize")
    <3>1. dispatch.status = "claimed"
      BY <2>6 DEF Expired
    <3>2. /\ dispatch'.status = "settled" /\ dispatch'.text \in Text
          /\ dispatch'.owner = dispatch.owner /\ dispatch'.frozen = dispatch.frozen
      BY <2>0, <2>6, ResolveEffect, Texts
    <3>3. pc'[s] = "finalize" /\ \A t \in Streams : t # s => pc'[t] = pc[t]
      BY <2>6 DEF Goto, TypeOK
    <3>4. QED BY <2>2, <3>1, <3>2, <3>3
  <2>7. CASE Settled /\ Goto(s, "finalize") /\ UNCHANGED dispatch
    BY <2>2, <2>7 DEF Goto, Settled, TypeOK
  <2>8. QED BY <1>5, <2>1, <2>3, <2>4, <2>5, <2>6, <2>7 DEF Claim
<1>6. ASSUME NEW s \in Streams, Poll(s) PROVE Claims'
  <2>1. /\ UNCHANGED <<requests, context, seen>> /\ Located(seen[s]) \in Text
        /\ pc'[s] = "finalize" /\ \A t \in Streams : t # s => pc'[t] = pc[t]
    BY <1>6, Texts DEF Poll, Goto, TypeOK
  <2>2. CASE Settled /\ UNCHANGED dispatch
    BY <2>1, <2>2, ClaimsMove DEF Owning, Settled
  <2>3. CASE SealExpired(s)
    BY <2>1, <2>3, ResolveEffect, ClaimsMove DEF SealExpired, Expired, Owning
  <2>4. QED BY <1>6, <2>2, <2>3 DEF Poll
<1>7. ASSUME NEW s \in Streams, Start(s) PROVE Claims'
  <2>1. /\ UNCHANGED <<dispatch, context, seen>> /\ pc[s] = "start"
        /\ \A t \in Streams : t # s => pc'[t] = pc[t]
        /\ pc'[s] \in {"call", "denied"}
        /\ requests' = requests + 1 \/ requests' = requests
    BY <1>7 DEF Start, Goto, TypeOK
  <2>2. requests = 0 /\ dispatch.owner = s /\ dispatch.status # "none"
    BY <2>1 DEF Claims, Owning
  <2>3. \A t \in Streams : pc'[t] # "start"
    BY <2>1, <2>2 DEF Claims, Owning
  <2>4. QED BY <2>1, <2>2, <2>3 DEF Claims, Owning, Settled
<1>8. ASSUME NEW s \in Streams, StartRefused(s) PROVE Claims'
  BY <1>8, ClaimsMove DEF StartRefused, Goto, TypeOK, Owning
<1>9. ASSUME NEW s \in Streams, NEW ok \in BOOLEAN, Answer(s, ok) PROVE Claims'
  <2>1. /\ \A t \in Streams : t # s => pc'[t] = pc[t]
        /\ pc'[s] \in {"settle", "error", "idle", "done"} /\ pc[s] = "call"
    BY <1>9, <1>f DEF Answer, Goto, TypeOK
  <2>2. QED BY <1>9, <2>1, ClaimsMove DEF Answer, Owning
<1>10. ASSUME NEW s \in Streams, Settle(s) PROVE Claims'
  <2>1. /\ UNCHANGED <<requests, context, seen>> /\ text[s] \in Text
        /\ pc'[s] \in {"finalize", "reclaim", "complete"}
        /\ pc[s] \in Owning /\ \A t \in Streams : t # s => pc'[t] = pc[t]
    BY <1>10 DEF Settle, Goto, TypeOK, Owning
  <2>2. CASE Accepts(s) /\ Resolve(text[s])
    BY <2>1, <2>2, ResolveEffect, ClaimsMove DEF Accepts, Live
  <2>3. CASE UNCHANGED dispatch /\ pc'[s] = "finalize" /\ Settled
    BY <2>1, <2>3, ClaimsMove DEF Settled
  <2>4. CASE UNCHANGED dispatch /\ pc'[s] # "finalize"
    BY <2>1, <2>4, ClaimsMove
  <2>5. QED BY <1>10, <2>2, <2>3, <2>4 DEF Settle, Goto, TypeOK
<1>11. ASSUME NEW s \in Streams, Reclaim(s) PROVE Claims'
  <2>1. /\ UNCHANGED <<requests, context, seen>> /\ Located(seen[s]) \in Text
        /\ pc'[s] \in {"finalize", "complete"}
        /\ pc[s] \in Owning /\ \A t \in Streams : t # s => pc'[t] = pc[t]
    BY <1>11, Texts DEF Reclaim, Goto, TypeOK, Owning
  <2>2. CASE SealExpired(s)
    BY <2>1, <2>2, ResolveEffect, ClaimsMove DEF SealExpired, Expired
  <2>3. CASE UNCHANGED dispatch /\ Settled
    BY <2>1, <2>3, ClaimsMove DEF Settled
  <2>4. CASE UNCHANGED dispatch /\ Goto(s, "complete")
    BY <2>1, <2>4, ClaimsMove DEF Goto, TypeOK, Owning
  <2>5. QED BY <1>11, <2>2, <2>3, <2>4 DEF Reclaim
<1>12. ASSUME NEW s \in Streams, Finalize(s) PROVE Claims'
  BY <1>12, ClaimsMove DEF Finalize, Goto, TypeOK, Owning
<1>13. ASSUME NEW s \in Streams, CompleteTurn(s) PROVE Claims'
  <2>1. Finish(s, "done", text[s]) /\ text[s] \in Text \cup {None}
    BY <1>13 DEF CompleteTurn, TypeOK
  <2>2. QED BY <1>13, <1>f, <2>1, ClaimsMove DEF CompleteTurn, Owning
<1>14. ASSUME NEW s \in Streams, ReplayCompletion(s) PROVE Claims'
  <2>1. Finish(s, "done", text[s]) /\ text[s] \in Text \cup {None}
    BY <1>14 DEF ReplayCompletion, TypeOK
  <2>2. QED BY <1>14, <1>f, <2>1, ClaimsMove DEF ReplayCompletion, Owning
<1>15. ASSUME NEW s \in Streams, LoseCompletion(s) PROVE Claims'
  <2>1. /\ Finish(s, "done", stored) \/ Finish(s, "error", None)
        /\ stored \in Text \cup {None}
    BY <1>15 DEF LoseCompletion, StoredText, TypeOK
  <2>2. QED BY <1>15, <1>f, <2>1, ClaimsMove DEF LoseCompletion, Owning
<1>16. ASSUME NEW s \in Streams, TellCompleted(s) PROVE Claims'
  <2>1. Finish(s, "done", text[s]) /\ text[s] \in Text \cup {None}
    BY <1>16 DEF TellCompleted, TypeOK
  <2>2. QED BY <1>16, <1>f, <2>1, ClaimsMove DEF TellCompleted, Owning
<1>17. ASSUME NEW s \in Streams, Disconnect(s) PROVE Claims'
  <2>1. pc' = [pc EXCEPT ![s] = "idle"] \/ pc' = pc
    BY <1>17 DEF Disconnect, Goto
  <2>2. QED BY <1>17, <2>1 DEF Disconnect, Claims, Owning, Settled, TypeOK
<1>18. ASSUME NEW w \in Workers, Crash(w) PROVE Claims'
  <2>1. \A t \in Streams : pc'[t] = "idle" \/ pc'[t] = pc[t]
    BY <1>18 DEF Crash
  <2>2. QED BY <1>18, <2>1 DEF Crash, Claims, Owning, Settled
<1>19. CASE OtherCommand
  BY <1>19 DEF OtherCommand, Claims, Owning, Settled
<1>20. CASE ContextMoves
  <2>1. context \in Nat /\ context' = context + 1 /\ dispatch.frozen \in Nat
        /\ \A t \in Streams : seen[t] \in Nat
    BY <1>20 DEF ContextMoves, TypeOK, Dispatch
  <2>2. QED BY <1>20, <2>1 DEF ContextMoves, Claims, Owning, Settled
<1>21. CASE Tick
  BY <1>21 DEF Tick, Claims, Owning, Settled
<1>22. CASE UNCHANGED vars
  BY <1>22 DEF vars, Claims, Owning, Settled
<1>23. QED
  BY <1>1, <1>2, <1>3, <1>4, <1>5, <1>6, <1>7, <1>8, <1>9, <1>10, <1>11, <1>12, <1>13,
     <1>14, <1>15, <1>16, <1>17, <1>18, <1>19, <1>20, <1>21, <1>22 DEF Next, Proceed

-----------------------------------------------------------------------------
(* What the stored commands say of the turn.                               *)

LEMMA EndsInit == Init => Ends
BY DEF Init, Ends

\* A step of one stream that writes no command keeps Ends, if the stream ends only
\* with a completed turn and does not forget what it has in hand.
LEMMA EndsMove ==
    ASSUME Ends, NEW s \in Streams,
           UNCHANGED row,
           \A t \in Streams : t # s => pc'[t] = pc[t] /\ held'[t] = held[t],
           pc'[s] \in {"idle", "open", "error"} \/ began # None,
           pc'[s] = "done" => turn.state = "completed",
           pc'[s] = "complete" /\ held'[s].state = "completed" => turn.state = "completed",
           pc'[s] \in {"narrate", "prepare"} => held'[s].state = "narrating"
    PROVE  Ends'
<1>1. ASSUME NEW t \in Streams
      PROVE  /\ pc'[t] \notin {"idle", "open", "error"} => began' # None
             /\ pc'[t] = "done" => turn'.state = "completed"
             /\ pc'[t] = "complete" /\ held'[t].state = "completed" => turn'.state = "completed"
             /\ pc'[t] \in {"narrate", "prepare"} => held'[t].state = "narrating"
  <2>1. CASE t = s BY <2>1 DEF Ends, row
  <2>2. CASE t # s BY <2>2 DEF Ends, row
  <2>3. QED BY <2>1, <2>2
<1>2. QED BY <1>1 DEF Ends, row

LEMMA EndsStep == TypeOK /\ Ends /\ [Next]_vars => Ends'
<1> SUFFICES ASSUME TypeOK, Ends, [Next]_vars PROVE Ends'
  OBVIOUS
<1> USE DEF row, local, bounds
<1>f. ASSUME NEW s \in Streams, NEW stage \in {"done", "error"},
             NEW n \in Text \cup {None}, Finish(s, stage, n)
      PROVE  /\ \A t \in Streams : t # s => pc'[t] = pc[t]
             /\ pc'[s] \in {stage, "idle"}
  BY <1>f, FinishEffect DEF Stage
<1>t. /\ stored \in Text \cup {None}
      /\ \A s \in Streams : text[s] \in Text \cup {None}
  BY DEF TypeOK
<1>1. ASSUME NEW s \in Streams, Open(s) PROVE Ends'
  <2>1. /\ UNCHANGED row /\ held' = [held EXCEPT ![s] = [state |-> turn.state,
                                                      revision |-> turn.revision]]
    BY <1>1 DEF Open, Read
  <2>2. /\ held'[s].state = turn.state
        /\ \A t \in Streams : t # s => held'[t] = held[t]
    BY <2>1 DEF TypeOK
  <2>3. CASE turn.state = "completed" /\ Finish(s, "done", stored)
    <3>1. /\ \A t \in Streams : t # s => pc'[t] = pc[t]
          /\ pc'[s] \in {"done", "idle"}
      BY <1>f, <1>t, <2>3
    <3>2. began # None
      BY <2>3 DEF Ends
    <3>3. QED BY <2>1, <2>2, <2>3, <3>1, <3>2, EndsMove
  <2>4. CASE turn.state = "ready" /\ Goto(s, "open")
    BY <2>1, <2>2, <2>4, EndsMove DEF Goto, TypeOK
  <2>5. CASE turn.state = "narrating" /\ Goto(s, "narrate")
    <3>1. began # None
      BY <2>5 DEF Ends
    <3>2. QED BY <2>1, <2>2, <2>5, <3>1, EndsMove DEF Goto, TypeOK
  <2>6. QED BY <1>1, <2>3, <2>4, <2>5 DEF Open, TypeOK
<1>2. ASSUME NEW s \in Streams, Begin(s) PROVE Ends'
  <2>1. CASE /\ began = None /\ began' = turn.revision /\ Goto(s, "narrate") /\ Read(s)
             /\ turn' = [state |-> "narrating", narration |-> "in-progress",
                         revision |-> turn.revision + 1]
    <3>1. began' # None
      BY <2>1, DispatchAssumption DEF TypeOK
    <3>2. turn.state = "ready" /\ turn'.state = "narrating"
      BY <2>1 DEF Ends, TypeOK
    <3>3. /\ held'[s].state = "narrating" /\ pc'[s] = "narrate"
          /\ \A t \in Streams : t # s => held'[t] = held[t] /\ pc'[t] = pc[t]
      BY <2>1 DEF Read, Goto, TypeOK
    <3>4. QED BY <1>2, <3>1, <3>2, <3>3 DEF Begin, Ends
  <2>2. CASE /\ began = held[s].revision /\ UNCHANGED <<turn, began>> /\ Goto(s, "narrate")
             /\ held' = [held EXCEPT ![s] = [state |-> "narrating",
                                             revision |-> began + 1]]
    <3>1. began # None
      BY <2>2, DispatchAssumption DEF TypeOK, Snapshot
    <3>2. /\ held'[s].state = "narrating" /\ pc'[s] = "narrate"
          /\ \A t \in Streams : t # s => held'[t] = held[t] /\ pc'[t] = pc[t]
      BY <2>2 DEF Goto, TypeOK
    <3>3. QED BY <1>2, <2>2, <3>1, <3>2, EndsMove DEF Begin
  <2>3. CASE Finish(s, "error", None) /\ UNCHANGED <<turn, began, held>>
    BY <1>2, <1>f, <2>3, EndsMove DEF Begin
  <2>4. QED BY <1>2, <2>1, <2>2, <2>3 DEF Begin
<1>3. ASSUME NEW s \in Streams, Recover(s) PROVE Ends'
  BY <1>3, EndsMove DEF Recover, Goto, TypeOK, Ends
<1>4. ASSUME NEW s \in Streams, FallBack(s) PROVE Ends'
  BY <1>4, EndsMove DEF FallBack, Goto, TypeOK, Ends
<1>5. ASSUME NEW s \in Streams, Claim(s) PROVE Ends'
  <2>1. UNCHANGED <<row, held>> /\ began # None
    BY <1>5 DEF Claim, Ends
  <2>2. /\ \A t \in Streams : t # s => pc'[t] = pc[t]
        /\ pc'[s] \in {"start", "poll", "finalize", "error", "idle"}
    BY <1>5, <1>f DEF Claim, Goto, TypeOK
  <2>3. QED BY <2>1, <2>2, EndsMove
<1>6. ASSUME NEW s \in Streams, Poll(s) PROVE Ends'
  BY <1>6, EndsMove DEF Poll, Goto, TypeOK, Ends
<1>7. ASSUME NEW s \in Streams, Start(s) PROVE Ends'
  <2>1. /\ UNCHANGED <<stored, began, finished>> /\ turn'.state = turn.state
        /\ \A t \in Streams : t # s => pc'[t] = pc[t] /\ held'[t] = held[t]
        /\ pc'[s] \in {"call", "denied"} /\ pc[s] = "start"
    BY <1>7 DEF Start, Goto, TypeOK
  <2>2. call' = "none" <=> started' = None
    <3>1. CASE call = "none"
      BY <1>7, <3>1, DispatchAssumption DEF Start, TypeOK
    <3>2. CASE call # "none"
      BY <1>7, <3>2 DEF Start, Ends
    <3>3. QED BY <3>1, <3>2
  <2>3. QED BY <2>1, <2>2 DEF Ends
<1>8. ASSUME NEW s \in Streams, StartRefused(s) PROVE Ends'
  BY <1>8, EndsMove DEF StartRefused, Goto, TypeOK, Ends
<1>9. ASSUME NEW s \in Streams, NEW ok \in BOOLEAN, Answer(s, ok) PROVE Ends'
  <2>1. UNCHANGED <<row, held>> /\ began # None
    BY <1>9 DEF Answer, Ends
  <2>2. /\ \A t \in Streams : t # s => pc'[t] = pc[t]
        /\ pc'[s] \in {"settle", "error", "idle"}
    BY <1>9, <1>f DEF Answer, Goto, TypeOK
  <2>3. QED BY <2>1, <2>2, EndsMove
<1>10. ASSUME NEW s \in Streams, Settle(s) PROVE Ends'
  <2>1. /\ UNCHANGED row /\ began # None
        /\ \A t \in Streams : t # s => pc'[t] = pc[t] /\ held'[t] = held[t]
        /\ pc'[s] \in {"finalize", "reclaim", "complete"}
    BY <1>10 DEF Settle, Goto, Read, TypeOK, Ends
  <2>2. pc'[s] = "complete" => held'[s].state = turn.state
    BY <1>10 DEF Settle, Goto, Read, TypeOK
  <2>3. QED BY <2>1, <2>2, EndsMove
<1>11. ASSUME NEW s \in Streams, Reclaim(s) PROVE Ends'
  <2>1. /\ UNCHANGED row /\ began # None
        /\ \A t \in Streams : t # s => pc'[t] = pc[t] /\ held'[t] = held[t]
        /\ pc'[s] \in {"finalize", "complete"}
    BY <1>11 DEF Reclaim, Goto, Read, TypeOK, Ends
  <2>2. pc'[s] = "complete" => held'[s].state = turn.state
    BY <1>11 DEF Reclaim, Goto, Read, TypeOK
  <2>3. QED BY <2>1, <2>2, EndsMove
<1>12. ASSUME NEW s \in Streams, Finalize(s) PROVE Ends'
  <2>1. /\ UNCHANGED <<stored, began, started, finished>> /\ turn'.state = turn.state
        /\ call' = "none" <=> call = "none"
        /\ pc[s] = "finalize" /\ pc'[s] = "complete"
    BY <1>12 DEF Finalize, Outcome, Goto, TypeOK
  <2>2. /\ \A t \in Streams : t # s => pc'[t] = pc[t] /\ held'[t] = held[t]
        /\ held'[s].state = turn'.state
    BY <1>12 DEF Finalize, Goto, Read, TypeOK
  <2>3. QED BY <2>1, <2>2 DEF Ends
<1>13. ASSUME NEW s \in Streams, CompleteTurn(s) PROVE Ends'
  <2>1. /\ turn'.state = "completed" /\ UNCHANGED <<began, started, call, held>>
        /\ stored' = text[s] /\ finished' = Completion(s) /\ began # None
    BY <1>13 DEF CompleteTurn, Ends
  <2>2. finished' # None /\ stored' = finished'.text
    <3>1. Completion(s) \in CompletionRequest
      BY DEF Completion, CompletionRequest, TypeOK, Snapshot
    <3>2. QED BY <2>1, <3>1, DispatchAssumption DEF Completion
  <2>3. /\ \A t \in Streams : t # s => pc'[t] = pc[t]
        /\ pc'[s] \in {"done", "idle"}
    BY <1>13, <1>f, <1>t DEF CompleteTurn
  <2>4. QED BY <2>1, <2>2, <2>3 DEF Ends
<1>14. ASSUME NEW s \in Streams, ReplayCompletion(s) PROVE Ends'
  <2>1. /\ UNCHANGED <<row, held>> /\ began # None
        /\ \A t \in Streams : t # s => pc'[t] = pc[t]
        /\ pc'[s] \in {"done", "idle"}
    BY <1>14, <1>f, <1>t DEF ReplayCompletion, Ends
  <2>2. finished # None
    <3>1. Completion(s) \in CompletionRequest
      BY DEF Completion, CompletionRequest, TypeOK, Snapshot
    <3>2. QED BY <1>14, <3>1, DispatchAssumption DEF ReplayCompletion
  <2>3. turn.state = "completed"
    BY <2>2 DEF Ends
  <2>4. QED BY <2>1, <2>3, EndsMove
<1>15. ASSUME NEW s \in Streams, LoseCompletion(s) PROVE Ends'
  <2>1. UNCHANGED <<row, held>> /\ began # None
    BY <1>15 DEF LoseCompletion, Ends
  <2>2. CASE turn.state = "completed" /\ Finish(s, "done", stored)
    BY <1>f, <1>t, <2>1, <2>2, EndsMove
  <2>3. CASE Finish(s, "error", None)
    BY <1>f, <2>1, <2>3, EndsMove
  <2>4. QED BY <1>15, <2>2, <2>3 DEF LoseCompletion, StoredText
<1>16. ASSUME NEW s \in Streams, TellCompleted(s) PROVE Ends'
  <2>1. UNCHANGED <<row, held>> /\ began # None /\ turn.state = "completed"
    BY <1>16 DEF TellCompleted, Ends
  <2>2. /\ \A t \in Streams : t # s => pc'[t] = pc[t]
        /\ pc'[s] \in {"done", "idle"}
    BY <1>16, <1>f, <1>t DEF TellCompleted
  <2>3. QED BY <2>1, <2>2, EndsMove
<1>17. ASSUME NEW s \in Streams, Disconnect(s) PROVE Ends'
  <2>1. \A t \in Streams : pc'[t] = "idle" \/ pc'[t] = pc[t]
    BY <1>17 DEF Disconnect, Goto, TypeOK
  <2>2. QED BY <1>17, <2>1 DEF Disconnect, Ends
<1>18. ASSUME NEW w \in Workers, Crash(w) PROVE Ends'
  <2>1. \A t \in Streams : pc'[t] = "idle" \/ pc'[t] = pc[t]
    BY <1>18 DEF Crash
  <2>2. QED BY <1>18, <2>1 DEF Crash, Ends
<1>19. CASE OtherCommand
  <2>1. turn'.state = turn.state /\ UNCHANGED <<stored, began, started, finished, call, local>>
    BY <1>19 DEF OtherCommand, TypeOK
  <2>2. QED BY <2>1 DEF Ends
<1>20. CASE ContextMoves
  BY <1>20 DEF ContextMoves, Ends
<1>21. CASE Tick
  BY <1>21 DEF Tick, Ends
<1>22. CASE UNCHANGED vars
  BY <1>22 DEF vars, Ends
<1>23. QED
  BY <1>1, <1>2, <1>3, <1>4, <1>5, <1>6, <1>7, <1>8, <1>9, <1>10, <1>11, <1>12, <1>13,
     <1>14, <1>15, <1>16, <1>17, <1>18, <1>19, <1>20, <1>21, <1>22 DEF Next, Proceed

-----------------------------------------------------------------------------
(* Where the texts come from.                                              *)

LEMMA HonestInit == Init => Honest
BY DEF Init, Honest, HonestStored, HonestStream

\* A stream that has gone no further than its own entries need only be honest
\* itself.
LEMMA HonestMove ==
    ASSUME Honest, NEW s \in Streams,
           UNCHANGED <<dispatch, context, stored>>,
           \A t \in Streams : t # s => /\ pc'[t] = pc[t] /\ held'[t] = held[t]
                                       /\ text'[t] = text[t] /\ told'[t] = told[t]
                                       /\ seen'[t] = seen[t],
           HonestStream(s)'
    PROVE  Honest'
<1>1. HonestStored'
  BY DEF Honest, HonestStored, FromDispatch, Settled
<1>2. ASSUME NEW t \in Streams, t # s PROVE HonestStream(t)'
  BY <1>2 DEF Honest, HonestStream, FromDispatch, Settled
<1>3. QED BY <1>1, <1>2 DEF Honest

\* Settling is honest when the text is the one the others expect or when the owner
\* settles before the turn completes.
LEMMA HonestSettle ==
    ASSUME TypeOK, Ends, Honest, NEW s \in Streams, NEW x \in Text,
           dispatch.status = "claimed", Resolve(x),
           UNCHANGED <<context, stored>>,
           pc'[s] = "finalize",
           \A t \in Streams : t # s => /\ pc'[t] = pc[t] /\ held'[t] = held[t]
                                       /\ text'[t] = text[t] /\ told'[t] = told[t]
                                       /\ seen'[t] = seen[t],
           \/ context = dispatch.frozen => x = Located(dispatch.frozen)
           \/ dispatch.owner = s /\ turn.state # "completed"
    PROVE  Honest'
<1>1. /\ dispatch'.status = "settled" /\ dispatch'.text = x
      /\ dispatch'.frozen = dispatch.frozen /\ dispatch.frozen \in Nat
  BY ResolveEffect DEF TypeOK, Dispatch
<1>2. HonestStored'
  <2>1. CASE context = dispatch.frozen => x = Located(dispatch.frozen)
    BY <1>1, <2>1 DEF Honest, HonestStored, FromDispatch, Settled
  <2>2. CASE turn.state # "completed"
    BY <1>1, <2>2 DEF Ends, HonestStored
  <2>3. QED BY <2>1, <2>2
<1>3. ASSUME NEW t \in Streams, t # s PROVE HonestStream(t)'
  <2>1. CASE context = dispatch.frozen => x = Located(dispatch.frozen)
    BY <1>1, <1>3, <2>1 DEF Honest, HonestStream, FromDispatch, Settled
  <2>2. CASE dispatch.owner = s
    <3>1. pc[t] = "complete" => text[t] = Bare
      BY <1>3, <2>2 DEF Honest, HonestStream
    <3>2. pc[t] = "complete" /\ context = dispatch.frozen => held[t].state # "completed"
      BY <1>1, <3>1, Texts DEF Honest, HonestStream, FromDispatch, Settled
    <3>3. QED BY <1>1, <1>3, <3>1, <3>2 DEF Honest, HonestStream
  <2>3. QED BY <2>1, <2>2
<1>4. HonestStream(s)'
  BY DEF HonestStream
<1>5. QED BY <1>2, <1>3, <1>4 DEF Honest

LEMMA HonestStep == Inv /\ [Next]_vars => Honest'
<1> SUFFICES ASSUME TypeOK, Claims, Ends, Honest, [Next]_vars PROVE Honest'
  BY DEF Inv
<1> USE DEF row, local, bounds
<1>f. ASSUME NEW s \in Streams, NEW stage \in {"done", "error"},
             NEW n \in Text \cup {None}, Finish(s, stage, n)
      PROVE  /\ \A t \in Streams : t # s => pc'[t] = pc[t] /\ told'[t] = told[t]
             /\ (pc'[s] = stage /\ told'[s] = n) \/ pc'[s] = "idle"
  BY <1>f, FinishEffect DEF Stage
<1>t. /\ stored \in Text \cup {None} /\ context \in Nat /\ dispatch.frozen \in Nat
      /\ \A s \in Streams : /\ text[s] \in Text /\ seen[s] \in Nat
                            /\ Located(seen[s]) \in Text
                            /\ text[s] \in Text \cup {None}
  BY Texts DEF TypeOK, Dispatch
<1>a. ASSUME NEW s \in Streams, pc[s] \in Owning \cup {"poll"}, context = dispatch.frozen
      PROVE  seen[s] = dispatch.frozen
  BY <1>a, <1>t DEF Claims
<1>1. ASSUME NEW s \in Streams, Open(s) PROVE Honest'
  <2>1. /\ UNCHANGED <<dispatch, context, stored, text, seen>>
        /\ \A t \in Streams : t # s => held'[t] = held[t]
    BY <1>1 DEF Open, Read, TypeOK
  <2>2. /\ \A t \in Streams : t # s => pc'[t] = pc[t] /\ told'[t] = told[t]
        /\ \/ pc'[s] \in {"open", "narrate", "idle"}
           \/ pc'[s] = "done" /\ told'[s] = stored
    BY <1>1, <1>f, <1>t DEF Open, Goto, TypeOK
  <2>3. HonestStream(s)'
    BY <2>1, <2>2 DEF HonestStream
  <2>4. QED BY <2>1, <2>2, <2>3, HonestMove
<1>2. ASSUME NEW s \in Streams, Begin(s) PROVE Honest'
  <2>1. /\ UNCHANGED <<dispatch, context, stored, text, seen>>
        /\ \A t \in Streams : t # s => held'[t] = held[t]
    BY <1>2 DEF Begin, Read, TypeOK
  <2>2. /\ \A t \in Streams : t # s => pc'[t] = pc[t] /\ told'[t] = told[t]
        /\ pc'[s] \in {"narrate", "error", "idle"}
    BY <1>2, <1>f DEF Begin, Goto, TypeOK
  <2>3. HonestStream(s)'
    BY <2>2 DEF HonestStream
  <2>4. QED BY <2>1, <2>2, <2>3, HonestMove
<1>3. ASSUME NEW s \in Streams, Recover(s) PROVE Honest'
  <2>1. /\ UNCHANGED <<dispatch, context, stored, text, seen, held, told>>
        /\ \A t \in Streams : t # s => pc'[t] = pc[t]
        /\ pc'[s] \in {"finalize", "prepare"}
    BY <1>3 DEF Recover, Goto, TypeOK
  <2>2. QED BY <2>1, HonestMove DEF HonestStream
<1>4. ASSUME NEW s \in Streams, FallBack(s) PROVE Honest'
  <2>1. /\ UNCHANGED <<dispatch, context, stored, seen, held, told>>
        /\ \A t \in Streams : t # s => pc'[t] = pc[t] /\ text'[t] = text[t]
        /\ pc'[s] = "complete" /\ text'[s] = Bare /\ pc[s] \in {"narrate", "prepare"}
    BY <1>4, Texts DEF FallBack, Goto, TypeOK
  <2>2. held[s].state = "narrating"
    BY <2>1 DEF Ends
  <2>3. HonestStream(s)'
    BY <2>1, <2>2 DEF HonestStream
  <2>4. QED BY <2>1, <2>3, HonestMove
<1>5. ASSUME NEW s \in Streams, Claim(s) PROVE Honest'
  <2>0. /\ UNCHANGED <<context, stored, text, held>>
        /\ \A t \in Streams : t # s => seen'[t] = seen[t]
    BY <1>5 DEF Claim, TypeOK
  <2>1. CASE /\ CanClaim /\ turn.state = "narrating" /\ UNCHANGED told
             /\ dispatch' = [status |-> "claimed", owner |-> s, lease |-> now + Lease,
                             frozen |-> context, text |-> None]
             /\ Goto(s, "start")
    <3>1. /\ dispatch'.status = "claimed" /\ dispatch.status = "none"
          /\ pc'[s] = "start" /\ \A t \in Streams : t # s => pc'[t] = pc[t]
      BY <2>1 DEF CanClaim, Goto, TypeOK
    <3>2. HonestStored'
      BY <2>0, <3>1 DEF Honest, HonestStored
    <3>3. ASSUME NEW t \in Streams, t # s PROVE HonestStream(t)'
      <4>1. pc[t] # "denied" /\ pc[t] # "done"
        BY <2>1, <3>1 DEF Claims, Owning, Ends
      <4>2. QED BY <2>0, <3>1, <3>3, <4>1 DEF Honest, HonestStream
    <3>4. HonestStream(s)'
      BY <3>1 DEF HonestStream
    <3>5. QED BY <3>2, <3>3, <3>4 DEF Honest
  <2>2. CASE Expired /\ Resolve(Located(context)) /\ Goto(s, "finalize") /\ UNCHANGED told
    <3>1. /\ dispatch.status = "claimed" /\ Located(context) \in Text
          /\ pc'[s] = "finalize" /\ \A t \in Streams : t # s => pc'[t] = pc[t]
      BY <1>t, <2>2, Texts DEF Expired, Goto, TypeOK
    <3>2. QED BY <2>0, <2>2, <3>1, HonestSettle
  <2>3. CASE UNCHANGED dispatch
    <3>1. /\ \A t \in Streams : t # s => pc'[t] = pc[t] /\ told'[t] = told[t]
          /\ pc'[s] \in {"start", "poll", "finalize", "error", "idle"}
      BY <1>5, <1>f DEF Claim, Goto, TypeOK
    <3>2. HonestStream(s)'
      BY <3>1 DEF HonestStream
    <3>3. QED BY <2>0, <2>3, <3>1, <3>2, HonestMove
  <2>4. QED BY <1>5, <2>1, <2>2, <2>3 DEF Claim
<1>6. ASSUME NEW s \in Streams, Poll(s) PROVE Honest'
  <2>1. /\ UNCHANGED <<context, stored, text, seen, held, told>> /\ pc[s] = "poll"
        /\ pc'[s] = "finalize" /\ \A t \in Streams : t # s => pc'[t] = pc[t]
    BY <1>6 DEF Poll, Goto, TypeOK
  <2>2. CASE UNCHANGED dispatch
    BY <2>1, <2>2, HonestMove DEF HonestStream
  <2>3. CASE SealExpired(s)
    <3>1. context = dispatch.frozen => Located(seen[s]) = Located(dispatch.frozen)
      BY <1>a, <2>1
    <3>2. QED BY <1>t, <2>1, <2>3, <3>1, HonestSettle DEF SealExpired, Expired
  <2>4. QED BY <1>6, <2>2, <2>3 DEF Poll
<1>7. ASSUME NEW s \in Streams, Start(s) PROVE Honest'
  <2>1. /\ UNCHANGED <<dispatch, context, stored, seen, told>>
        /\ \A t \in Streams : t # s => /\ pc'[t] = pc[t] /\ held'[t] = held[t]
                                       /\ text'[t] = text[t]
        /\ \/ pc'[s] = "call"
           \/ pc'[s] = "denied" /\ text'[s] = Located(seen[s])
    BY <1>7 DEF Start, Goto, TypeOK
  <2>2. HonestStream(s)'
    BY <2>1 DEF HonestStream
  <2>3. QED BY <2>1, <2>2, HonestMove
<1>8. ASSUME NEW s \in Streams, StartRefused(s) PROVE Honest'
  <2>1. /\ UNCHANGED <<dispatch, context, stored, seen, held, told>>
        /\ \A t \in Streams : t # s => pc'[t] = pc[t] /\ text'[t] = text[t]
        /\ pc'[s] = "settle"
    BY <1>8 DEF StartRefused, Goto, TypeOK
  <2>2. QED BY <2>1, HonestMove DEF HonestStream
<1>9. ASSUME NEW s \in Streams, NEW ok \in BOOLEAN, Answer(s, ok) PROVE Honest'
  <2>1. /\ UNCHANGED <<dispatch, context, stored, seen, held>>
        /\ \A t \in Streams : t # s => text'[t] = text[t]
    BY <1>9 DEF Answer, TypeOK
  <2>2. /\ \A t \in Streams : t # s => pc'[t] = pc[t] /\ told'[t] = told[t]
        /\ pc'[s] \in {"settle", "error", "idle"}
    BY <1>9, <1>f DEF Answer, Goto, TypeOK
  <2>3. HonestStream(s)'
    BY <2>2 DEF HonestStream
  <2>4. QED BY <2>1, <2>2, <2>3, HonestMove
<1>10. ASSUME NEW s \in Streams, Settle(s) PROVE Honest'
  <2>1. /\ UNCHANGED <<context, stored, seen, text, told>> /\ pc[s] \in {"settle", "denied"}
        /\ \A t \in Streams : t # s => pc'[t] = pc[t] /\ held'[t] = held[t]
    BY <1>10 DEF Settle, Goto, Read, TypeOK
  <2>2. CASE Accepts(s) /\ Resolve(text[s]) /\ Goto(s, "finalize")
    <3>1. /\ dispatch.status = "claimed" /\ dispatch.owner = s /\ turn.state # "completed"
          /\ pc'[s] = "finalize"
      BY <2>2 DEF Accepts, Live, Goto, TypeOK
    <3>2. QED BY <1>t, <2>1, <2>2, <3>1, HonestSettle
  <2>3. CASE UNCHANGED dispatch /\ (Goto(s, "finalize") \/ Goto(s, "reclaim"))
    <3>1. pc'[s] \in {"finalize", "reclaim"}
      BY <2>3 DEF Goto, TypeOK
    <3>2. HonestStream(s)'
      BY <3>1 DEF HonestStream
    <3>3. QED BY <2>1, <2>3, <3>2, HonestMove
  <2>4. CASE ~ Settled /\ pc[s] = "denied" /\ UNCHANGED dispatch /\ Goto(s, "complete")
    <3>1. /\ dispatch.status = "claimed" /\ dispatch.owner = s
          /\ text[s] = Located(seen[s]) /\ pc'[s] = "complete"
      BY <2>4 DEF Claims, Owning, Honest, HonestStream, Settled, Goto, TypeOK, Dispatch
    <3>2. context = dispatch.frozen => text[s] = Located(dispatch.frozen)
      BY <1>a, <2>4, <3>1 DEF Owning
    <3>3. HonestStream(s)'
      BY <2>1, <2>4, <3>1, <3>2 DEF HonestStream, FromDispatch, Settled
    <3>4. QED BY <2>1, <2>4, <3>3, HonestMove
  <2>5. QED BY <1>10, <2>2, <2>3, <2>4 DEF Settle
<1>11. ASSUME NEW s \in Streams, Reclaim(s) PROVE Honest'
  <2>1. /\ UNCHANGED <<context, stored, seen, told>> /\ pc[s] = "reclaim"
        /\ \A t \in Streams : t # s => /\ pc'[t] = pc[t] /\ held'[t] = held[t]
                                       /\ text'[t] = text[t]
    BY <1>11 DEF Reclaim, Goto, Read, TypeOK
  <2>2. CASE SealExpired(s) /\ Goto(s, "finalize")
    <3>1. context = dispatch.frozen => Located(seen[s]) = Located(dispatch.frozen)
      BY <1>a, <2>1 DEF Owning
    <3>2. pc'[s] = "finalize"
      BY <2>2 DEF Goto, TypeOK
    <3>3. QED BY <1>t, <2>1, <2>2, <3>1, <3>2, HonestSettle DEF SealExpired, Expired
  <2>3. CASE UNCHANGED dispatch /\ Goto(s, "finalize")
    <3>1. HonestStream(s)'
      BY <2>3 DEF HonestStream, Goto, TypeOK
    <3>2. QED BY <2>1, <2>3, <3>1, HonestMove
  <2>4. CASE /\ Live /\ text' = [text EXCEPT ![s] = Located(seen[s])]
             /\ Goto(s, "complete") /\ UNCHANGED dispatch
    <3>1. /\ dispatch.status = "claimed" /\ dispatch.owner = s
          /\ text'[s] = Located(seen[s]) /\ pc'[s] = "complete"
      BY <2>1, <2>4 DEF Claims, Owning, Live, Goto, TypeOK
    <3>2. context = dispatch.frozen => text'[s] = Located(dispatch.frozen)
      BY <1>a, <2>1, <3>1 DEF Owning
    <3>3. HonestStream(s)'
      BY <2>1, <2>4, <3>1, <3>2 DEF HonestStream, FromDispatch, Settled
    <3>4. QED BY <2>1, <2>4, <3>3, HonestMove
  <2>5. QED BY <1>11, <2>2, <2>3, <2>4 DEF Reclaim
<1>12. ASSUME NEW s \in Streams, Finalize(s) PROVE Honest'
  <2>1. /\ UNCHANGED <<dispatch, context, stored, seen, told>> /\ Settled
        /\ \A t \in Streams : t # s => /\ pc'[t] = pc[t] /\ held'[t] = held[t]
                                       /\ text'[t] = text[t]
        /\ pc'[s] = "complete"
    BY <1>12 DEF Finalize, Goto, Read, TypeOK, Claims
  <2>2. context = dispatch.frozen => text'[s] = dispatch.text
    BY <1>12 DEF Finalize, TypeOK
  <2>3. HonestStream(s)'
    BY <2>1, <2>2 DEF HonestStream, FromDispatch, Settled
  <2>4. QED BY <2>1, <2>3, HonestMove
<1>13. ASSUME NEW s \in Streams, CompleteTurn(s) PROVE Honest'
  <2>1. /\ UNCHANGED <<dispatch, context, held, seen, text>> /\ stored' = text[s]
        /\ pc[s] = "complete" /\ Finish(s, "done", text[s]) /\ finished = None
    BY <1>13 DEF CompleteTurn, Completes
  <2>2. /\ \A t \in Streams : t # s => pc'[t] = pc[t] /\ told'[t] = told[t]
        /\ (pc'[s] = "done" /\ told'[s] = text[s]) \/ pc'[s] = "idle"
    BY <1>f, <1>t, <2>1
  <2>3. HonestStored'
    BY <2>1 DEF Honest, HonestStored, HonestStream, FromDispatch, Settled
  <2>4. \A t \in Streams : pc[t] # "done"
    BY <2>1 DEF Ends
  <2>5. ASSUME NEW t \in Streams, t # s PROVE HonestStream(t)'
    BY <2>1, <2>2, <2>4, <2>5 DEF Honest, HonestStream, FromDispatch, Settled
  <2>6. HonestStream(s)'
    BY <2>1, <2>2 DEF HonestStream
  <2>7. QED BY <2>3, <2>5, <2>6 DEF Honest
<1>14. ASSUME NEW s \in Streams, ReplayCompletion(s) PROVE Honest'
  <2>1. /\ UNCHANGED <<dispatch, context, stored, held, seen, text>>
        /\ Finish(s, "done", text[s]) /\ finished = Completion(s)
    BY <1>14 DEF ReplayCompletion
  <2>2. finished # None
    <3>1. Completion(s) \in CompletionRequest
      BY DEF Completion, CompletionRequest, TypeOK, Snapshot
    <3>2. QED BY <2>1, <3>1, DispatchAssumption
  <2>3. stored = text[s]
    BY <2>1, <2>2 DEF Ends, Completion
  <2>4. /\ \A t \in Streams : t # s => pc'[t] = pc[t] /\ told'[t] = told[t]
        /\ (pc'[s] = "done" /\ told'[s] = text[s]) \/ pc'[s] = "idle"
    BY <1>f, <1>t, <2>1
  <2>5. HonestStream(s)'
    BY <2>1, <2>3, <2>4 DEF HonestStream
  <2>6. QED BY <2>1, <2>4, <2>5, HonestMove
<1>15. ASSUME NEW s \in Streams, LoseCompletion(s) PROVE Honest'
  <2>1. UNCHANGED <<dispatch, context, stored, held, seen, text>>
    BY <1>15 DEF LoseCompletion
  <2>2. /\ \A t \in Streams : t # s => pc'[t] = pc[t] /\ told'[t] = told[t]
        /\ \/ pc'[s] = "done" /\ told'[s] = stored
           \/ pc'[s] \in {"error", "idle"}
    BY <1>15, <1>f, <1>t DEF LoseCompletion, StoredText
  <2>3. HonestStream(s)'
    BY <2>1, <2>2 DEF HonestStream
  <2>4. QED BY <2>1, <2>2, <2>3, HonestMove
<1>16. ASSUME NEW s \in Streams, TellCompleted(s) PROVE Honest'
  <2>1. /\ UNCHANGED <<dispatch, context, stored, held, seen, text>>
        /\ pc[s] = "complete" /\ held[s].state = "completed"
    BY <1>16 DEF TellCompleted
  <2>2. /\ \A t \in Streams : t # s => pc'[t] = pc[t] /\ told'[t] = told[t]
        /\ (pc'[s] = "done" /\ told'[s] = text[s]) \/ pc'[s] = "idle"
    BY <1>16, <1>f, <1>t DEF TellCompleted
  <2>3. stored # None
    <3>1. turn.state = "completed" /\ finished # None /\ stored = finished.text
      BY <2>1 DEF Ends
    <3>2. QED BY <3>1, Texts DEF TypeOK, CompletionRequest
  <2>4. text[s] = stored \/ stored = Bare \/ context # dispatch.frozen
    BY <2>1, <2>3 DEF Honest, HonestStored, HonestStream, FromDispatch
  <2>5. HonestStream(s)'
    BY <2>1, <2>2, <2>4 DEF HonestStream
  <2>6. QED BY <2>1, <2>2, <2>5, HonestMove
<1>17. ASSUME NEW s \in Streams, Disconnect(s) PROVE Honest'
  <2>1. /\ UNCHANGED <<dispatch, context, stored, held, seen, text, told>>
        /\ \A t \in Streams : pc'[t] = "idle" \/ pc'[t] = pc[t]
    BY <1>17 DEF Disconnect, Goto, TypeOK
  <2>2. QED BY <2>1 DEF Honest, HonestStored, HonestStream, FromDispatch, Settled
<1>18. ASSUME NEW w \in Workers, Crash(w) PROVE Honest'
  <2>1. /\ UNCHANGED <<dispatch, context, stored, held, seen, text, told>>
        /\ \A t \in Streams : pc'[t] = "idle" \/ pc'[t] = pc[t]
    BY <1>18 DEF Crash
  <2>2. QED BY <2>1 DEF Honest, HonestStored, HonestStream, FromDispatch, Settled
<1>19. CASE OtherCommand
  BY <1>19 DEF OtherCommand, Honest, HonestStored, HonestStream, FromDispatch, Settled
<1>20. CASE ContextMoves
  <2>1. UNCHANGED <<dispatch, stored, pc, held, seen, text, told>> /\ context' = context + 1
    BY <1>20 DEF ContextMoves
  <2>2. context' # dispatch'.frozen
    BY <1>t, <2>1 DEF Claims
  <2>3. QED BY <2>1, <2>2 DEF Honest, HonestStored, HonestStream
<1>21. CASE Tick
  BY <1>21 DEF Tick, Honest, HonestStored, HonestStream, FromDispatch, Settled
<1>22. CASE UNCHANGED vars
  BY <1>22 DEF vars, Honest, HonestStored, HonestStream, FromDispatch, Settled
<1>23. QED
  BY <1>1, <1>2, <1>3, <1>4, <1>5, <1>6, <1>7, <1>8, <1>9, <1>10, <1>11, <1>12, <1>13,
     <1>14, <1>15, <1>16, <1>17, <1>18, <1>19, <1>20, <1>21, <1>22 DEF Next, Proceed

-----------------------------------------------------------------------------
(* The invariant holds.                                                    *)

\* All four parts of Inv hold in every state of the specification.
LEMMA Invariance == Spec => []Inv
<1>1. Init => Inv
  BY TypeInit, ClaimsInit, EndsInit, HonestInit DEF Inv
<1>2. Inv /\ [Next]_vars => Inv'
  BY TypeStep, ClaimsStep, EndsStep, HonestStep DEF Inv
<1>3. QED BY <1>1, <1>2, PTL DEF Spec

-----------------------------------------------------------------------------
(* What a step may do to the dispatch, the call and a completed turn.      *)

\* A step leaves the dispatch alone, claims it fresh, or settles a claim; over an
\* expired claim only the fallback can settle it.
LEMMA DispatchStep ==
    Inv /\ [Next]_vars =>
        \/ dispatch' = dispatch
        \/ dispatch.status = "none"
        \/ /\ dispatch.status = "claimed" /\ dispatch'.owner = dispatch.owner
           /\ Expired => dispatch'.text # ProviderText
<1> SUFFICES ASSUME Inv, [Next]_vars, dispatch' # dispatch, dispatch.status # "none"
             PROVE  /\ dispatch.status = "claimed" /\ dispatch'.owner = dispatch.owner
                    /\ Expired => dispatch'.text # ProviderText
  OBVIOUS
<1> USE DEF row, local, bounds
<1>r. ASSUME NEW v \in Nat, Expired, Resolve(Located(v))
      PROVE  /\ dispatch.status = "claimed" /\ dispatch'.owner = dispatch.owner
             /\ dispatch'.text # ProviderText
  BY <1>r, ResolveEffect, Texts DEF Expired, Inv
<1>1. ASSUME NEW s \in Streams, Claim(s)
      PROVE  /\ dispatch.status = "claimed" /\ dispatch'.owner = dispatch.owner
             /\ Expired => dispatch'.text # ProviderText
  <2>1. Expired /\ Resolve(Located(context)) /\ context \in Nat
    BY <1>1 DEF Claim, CanClaim, Inv, TypeOK
  <2>2. QED BY <1>r, <2>1
<1>2. ASSUME NEW s \in Streams, Poll(s) \/ Reclaim(s)
      PROVE  /\ dispatch.status = "claimed" /\ dispatch'.owner = dispatch.owner
             /\ Expired => dispatch'.text # ProviderText
  <2>1. Expired /\ Resolve(Located(seen[s])) /\ seen[s] \in Nat
    BY <1>2 DEF Poll, Reclaim, SealExpired, Inv, TypeOK
  <2>2. QED BY <1>r, <2>1
<1>3. ASSUME NEW s \in Streams, Settle(s)
      PROVE  /\ dispatch.status = "claimed" /\ dispatch'.owner = dispatch.owner
             /\ Expired => dispatch'.text # ProviderText
  <2>1. Live /\ Resolve(text[s]) /\ text[s] \in Text
    BY <1>3 DEF Settle, Accepts, Inv, TypeOK
  <2>2. ~ Expired
    BY <2>1 DEF Live, Expired, Inv, TypeOK, Dispatch
  <2>3. QED BY <2>1, <2>2, ResolveEffect DEF Live, Inv
<1>4. ASSUME NEW s \in Streams, Proceed(s)
      PROVE  Claim(s) \/ Poll(s) \/ Reclaim(s) \/ Settle(s)
  BY <1>4 DEF Proceed, Begin, Recover, FallBack, Start, StartRefused, Finalize,
              CompleteTurn, ReplayCompletion, LoseCompletion, TellCompleted
<1>5. \E s \in Streams : Proceed(s)
  BY DEF Next, Open, Answer, Disconnect, Crash, OtherCommand, ContextMoves, Tick, vars
<1>6. QED BY <1>1, <1>2, <1>3, <1>4, <1>5

\* A step leaves the call alone, starts it, or records the settled dispatch.
LEMMA CallStep ==
    Inv /\ [Next]_vars =>
        \/ call' = call
        \/ call' = "started"
        \/ /\ Settled /\ dispatch' = dispatch
           /\ call' = IF dispatch.text = ProviderText THEN "succeeded" ELSE "failed"
<1> SUFFICES ASSUME Inv, [Next]_vars, call' # call, call' # "started"
             PROVE  /\ Settled /\ dispatch' = dispatch
                    /\ call' = IF dispatch.text = ProviderText THEN "succeeded" ELSE "failed"
  OBVIOUS
<1> USE DEF row, local, bounds
<1>1. ASSUME NEW s \in Streams, Finalize(s)
      PROVE  /\ Settled /\ dispatch' = dispatch
             /\ call' = IF dispatch.text = ProviderText THEN "succeeded" ELSE "failed"
  <2>1. Settled
    BY <1>1 DEF Finalize, Inv, Claims
  <2>2. dispatch' = dispatch /\ call' = Outcome(s)
    BY <1>1 DEF Finalize
  <2>3. QED BY <2>1, <2>2 DEF Outcome
<1>2. QED
  BY <1>1
  DEF Next, Proceed, Open, Begin, Recover, FallBack, Claim, Poll, Start, StartRefused,
      Answer, Settle, Reclaim, CompleteTurn, ReplayCompletion, LoseCompletion,
      TellCompleted, Disconnect, Crash, OtherCommand, ContextMoves, Tick, vars

\* No command of any stream is still accepted by a completed turn.
LEMMA CompletedStep ==
    Inv /\ [Next]_vars /\ turn.state = "completed" => UNCHANGED <<turn, stored, call>>
<1> SUFFICES ASSUME Inv, [Next]_vars, turn.state = "completed"
             PROVE  UNCHANGED <<turn, stored, call>>
  OBVIOUS
<1> USE DEF row, local, bounds
<1>1. began # None /\ finished # None /\ (call = "none" <=> started = None)
  BY DEF Inv, Ends
<1>2. ASSUME NEW s \in Streams, Begin(s) PROVE UNCHANGED <<turn, stored, call>>
  BY <1>1, <1>2 DEF Begin
<1>3. ASSUME NEW s \in Streams, Start(s) PROVE UNCHANGED <<turn, stored, call>>
  <2>1. call # "none"
    <3>1. ASSUME call = "none" PROVE FALSE
      <4>1. started = held[s].revision
        BY <1>3, <3>1 DEF Start, StartAccepted
      <4>2. held[s].revision # None
        BY DispatchAssumption DEF Inv, TypeOK, Snapshot
      <4>3. QED BY <1>1, <3>1, <4>1, <4>2
    <3>2. QED BY <3>1
  <2>2. QED BY <1>3, <2>1 DEF Start
<1>4. ASSUME NEW s \in Streams, Finalize(s) PROVE UNCHANGED <<turn, stored, call>>
  BY <1>4 DEF Finalize
<1>5. ASSUME NEW s \in Streams, CompleteTurn(s) PROVE FALSE
  BY <1>1, <1>5 DEF CompleteTurn, Completes
<1>6. QED
  BY <1>2, <1>3, <1>4, <1>5
  DEF Next, Proceed, Open, Recover, FallBack, Claim, Poll, StartRefused,
      Answer, Settle, Reclaim, ReplayCompletion, LoseCompletion,
      TellCompleted, Disconnect, Crash, OtherCommand, ContextMoves, Tick, vars

-----------------------------------------------------------------------------
(* The theorems.                                                           *)

\* The variables keep their types.
THEOREM TypeCorrect == Spec => []TypeOK
BY Invariance, PTL DEF Inv

\* recordProviderCallStart is passed by at most one request to the provider,
\* whatever streams, workers, leases and restarts do.
THEOREM AtMostOneRequest == Spec => []OneRequest
<1>1. Inv => OneRequest
  BY DEF Inv, Claims, OneRequest
<1>2. QED BY <1>1, Invariance, PTL

\* The row of adventure_narration_dispatches_v60 keeps its owner from the claim on
\* and is not written again once it has settled.
THEOREM DispatchIsALock == Spec => DispatchSettlesOnce
<1>1. Inv /\ [Next]_vars =>
        [/\ dispatch.status # "none" => dispatch'.owner = dispatch.owner
         /\ Settled => UNCHANGED dispatch]_vars
  BY DispatchStep DEF Settled
<1>2. QED BY <1>1, Invariance, PTL DEF Spec, DispatchSettlesOnce

\* After its lease a claim settles on fallback prose, never on the model's answer.
THEOREM LateAnswersAlwaysLose == Spec => LateAnswersLose
<1>1. Inv /\ [Next]_vars => [Expired => dispatch'.text # ProviderText]_vars
  <2> SUFFICES ASSUME Inv, [Next]_vars, Expired PROVE dispatch'.text # ProviderText
    OBVIOUS
  <2>1. dispatch.status = "claimed" /\ dispatch.text # ProviderText
    BY Texts DEF Expired, Inv, Claims
  <2>2. QED BY <2>1, DispatchStep
<1>2. QED BY <1>1, Invariance, PTL DEF Spec, LateAnswersLose

\* The call's recorded outcome is that of the settled dispatch: recordProviderOutcome
\* is written after the settlement, whoever writes it.
THEOREM OutcomeIsTheDispatchs == Spec => []OutcomeMatchesDispatch
<1>1. Init => OutcomeMatchesDispatch
  BY DEF Init, OutcomeMatchesDispatch
<1>2. Inv /\ OutcomeMatchesDispatch /\ [Next]_vars => OutcomeMatchesDispatch'
  <2> SUFFICES ASSUME Inv, OutcomeMatchesDispatch, [Next]_vars,
                      call' \in {"succeeded", "failed"}
               PROVE  /\ Settled'
                      /\ (call' = "succeeded") <=> (dispatch'.text = ProviderText)
    BY DEF OutcomeMatchesDispatch
  <2>1. CASE call' = call
    BY <2>1, DispatchStep DEF OutcomeMatchesDispatch, Settled
  <2>2. CASE call' # call
    BY <2>2, CallStep DEF Settled
  <2>3. QED BY <2>1, <2>2
<1>3. QED BY <1>1, <1>2, Invariance, PTL DEF Spec

\* A completed turn is closed: neither it, its narration nor its call changes.
THEOREM NarrationStaysFinal == Spec => NarrationIsFinal
<1>1. Inv /\ [Next]_vars =>
        [turn.state = "completed" => UNCHANGED <<turn, stored, call>>]_vars
  BY CompletedStep
<1>2. QED BY <1>1, Invariance, PTL DEF Spec, NarrationIsFinal

\* Every finished stream told its client the durable narration, unless that is bare
\* fallback prose or the public context has moved since the claim.
THEOREM ClientsHearTheNarration == Spec => []ToldIsStored
<1>1. Inv => ToldIsStored
  BY DEF Inv, Honest, HonestStream, ToldIsStored
<1>2. QED BY <1>1, Invariance, PTL

=============================================================================
