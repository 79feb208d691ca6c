--------------------------- MODULE NarrationDispatch ---------------------------
(***************************************************************************)
(* The narration of one turn, told by several streams of several workers,  *)
(* translated from                                                         *)
(*   server/src/routes/rpg/v1/adventureTurns.ts (stream, performNarration, *)
(*     finalizeNarrationDispatch),                                         *)
(*   server/src/repo/adventureTurn/agentResponseProvenance.ts (claim,      *)
(*     settle and get of the dispatch row),                                *)
(*   server/src/repo/adventureTurn/write.ts (narration commands).          *)
(*                                                                         *)
(* A turn may ask a language model for its narration once.  The row of     *)
(* adventure_narration_dispatches_v60 is the lock: its claim has a lease,  *)
(* and it settles once, on the model's text or on a fallback.  Each action *)
(* is one transaction of a stream, so streams of different workers         *)
(* interleave between any two of them.  Enters after AdventureTurn: the    *)
(* turn has its evidence and only narration is left to do.                 *)
(***************************************************************************)
EXTENDS Naturals, FiniteSets

CONSTANTS
    Streams,      \* client connections, each may be reopened
    Workers,      \* server processes on one database
    home,         \* the worker that serves a stream
    None,         \* nothing stored
    Lease,        \* leaseMs of a dispatch claim
    MaxTime,      \* horizon of the clock
    MaxMoves,     \* bound on changes of the public context
    MaxOther,     \* bound on commands that advance the turn before it narrates
    MaxCrashes,   \* bound on worker crashes
    MaxDrops      \* bound on disconnecting clients

Text == {"provider", "bare", "located"} \X Nat    \* a narration, by its source
CompletionRequest == [expected : Nat, text : Text]

ASSUME DispatchAssumption ==
    /\ home \in [Streams -> Workers]
    /\ Lease \in Nat \ {0}
    /\ MaxTime \in Nat /\ MaxMoves \in Nat /\ MaxOther \in Nat
    /\ MaxCrashes \in Nat /\ MaxDrops \in Nat
    /\ None \notin Nat /\ None \notin Text /\ None \notin CompletionRequest

VARIABLES
    turn,         \* newest turn event: state, narration and revision
    stored,       \* narration of the completed turn, as getAdventureTurnNarration
    began,        \* expected revision stored under the key "http-narrating"
    started,      \* expected revision stored under the key "narration-provider-start"
    finished,     \* request stored under the key "http-narrated"
    call,         \* provider_call_metadata of the narration call
    dispatch,     \* the row of adventure_narration_dispatches_v60
    context,      \* version of the public narration context
    now,          \* the clock
    reserved,     \* workers whose token budget holds the call's reservation
    requests,     \* requests sent to the provider
    hooks,        \* times the post-narration hook fired
    pc,           \* where each stream is
    held,         \* the turn each stream has in hand: state and revision
    seen,         \* public context each stream prepared its prompt from
    text,         \* narration each stream is about to store or tell
    told,         \* narration each finished stream told its client
    gone,         \* streams whose client disconnected while they kept running
    crashes, drops, others

row     == <<turn, stored, began, started, finished, call>>
local   == <<pc, held, seen, text, told, gone>>
bounds  == <<crashes, drops, others>>
vars == <<row, dispatch, context, now, reserved, requests, hooks, local, bounds>>

-----------------------------------------------------------------------------
(* Types.                                                                  *)

ProviderText == <<"provider", 0>>     \* the model's narration, source provider-assisted
Bare         == <<"bare", 0>>         \* fallback prose without the location
Located(v)   == <<"located", v>>      \* fallback prose over a public context

Stage == {"idle", "open", "narrate", "prepare", "poll", "start", "call",
          "settle", "denied", "reclaim", "finalize", "complete", "done", "error"}
Snapshot == [state : {"ready", "narrating", "completed"}, revision : Nat]
Dispatch == [status : {"none", "claimed", "settled"}, owner : Streams \cup {None},
             lease : Nat, frozen : Nat, text : Text \cup {None}]

\* Type invariant.
TypeOK ==
    /\ turn \in [state : {"ready", "narrating", "completed"}, revision : Nat,
                 narration : {"none", "in-progress", "failed", "completed"}]
    /\ stored \in Text \cup {None}
    /\ began \in Nat \cup {None} /\ started \in Nat \cup {None}
    /\ finished \in CompletionRequest \cup {None}
    /\ call \in {"none", "started", "succeeded", "failed"}
    /\ dispatch \in Dispatch
    /\ context \in Nat /\ now \in Nat
    /\ reserved \subseteq Workers
    /\ requests \in Nat /\ hooks \in Nat
    /\ pc \in [Streams -> Stage]
    /\ held \in [Streams -> Snapshot]
    /\ seen \in [Streams -> Nat]
    /\ text \in [Streams -> Text] /\ told \in [Streams -> Text \cup {None}]
    /\ gone \subseteq Streams
    /\ crashes \in Nat /\ drops \in Nat /\ others \in Nat

Init ==
    /\ turn = [state |-> "ready", narration |-> "none", revision |-> 0]
    /\ stored = None /\ began = None /\ started = None /\ finished = None
    /\ call = "none"
    /\ dispatch = [status |-> "none", owner |-> None, lease |-> 0,
                   frozen |-> 0, text |-> None]
    /\ context = 0 /\ now = 0
    /\ reserved = {} /\ requests = 0 /\ hooks = 0
    /\ pc = [s \in Streams |-> "idle"]
    /\ held = [s \in Streams |-> [state |-> "ready", revision |-> 0]]
    /\ seen = [s \in Streams |-> 0]
    /\ text = [s \in Streams |-> Bare]
    /\ told = [s \in Streams |-> None]
    /\ gone = {}
    /\ crashes = 0 /\ drops = 0 /\ others = 0

-----------------------------------------------------------------------------
(* The dispatch row.                                                       *)

Live == dispatch.status = "claimed" /\ now < dispatch.lease
Expired == dispatch.status = "claimed" /\ now >= dispatch.lease
Settled == dispatch.status = "settled"

\* Mutant: an expired claim is claimed again.
CanClaimExpired == dispatch.status = "none" \/ Expired

\* A turn's narration is claimed once; the row is never deleted.
CanClaim == dispatch.status = "none"

\* Mutant: the settlement forgets the narration.
ResolveWithoutText(t) == dispatch' = [dispatch EXCEPT !.status = "settled"]

Resolve(t) == dispatch' = [dispatch EXCEPT !.status = "settled", !.text = t]

\* Mutant: only the owner of the claim may seal it.
SealOwn(s) == dispatch.owner = s /\ Expired /\ Resolve(Located(seen[s]))

\* claimNarrationProviderDispatch over an expired claim: the fallback, for good.
SealExpired(s) == Expired /\ Resolve(Located(seen[s]))

\* Mutant: the settlement does not look at the lease.
AcceptsLate(s) == /\ dispatch.owner = s /\ dispatch.status = "claimed"
                  /\ turn.state # "completed"

\* Mutant: the settlement does not look at the row it overwrites.
AcceptsAgain(s) == dispatch.owner = s /\ turn.state # "completed"

\* settleNarrationProviderDispatch takes a text within the lease of an open turn.
Accepts(s) == dispatch.owner = s /\ Live /\ turn.state # "completed"

-----------------------------------------------------------------------------
(* Streams.                                                                *)

Goto(s, stage) == pc' = [pc EXCEPT ![s] = stage]
Read(s) == held' = [held EXCEPT ![s] = [state |-> turn'.state,
                                        revision |-> turn'.revision]]

\* The terminal event and the finally block: whoever ends a stream with its
\* client still there clears the turn's token budget in its worker.
Finish(s, stage, narration) ==
    \/ /\ s \notin gone
       /\ Goto(s, stage)
       /\ told' = [told EXCEPT ![s] = narration]
       /\ reserved' = reserved \ {home[s]}
       /\ UNCHANGED gone
    \/ /\ s \in gone
       /\ Goto(s, "idle")
       /\ gone' = gone \ {s}
       /\ UNCHANGED <<told, reserved>>

\* A request of the client finds the turn ready, narrating or completed.
Open(s) ==
    /\ pc[s] \in {"idle", "error"}
    /\ \/ /\ turn.state = "completed"
          /\ Finish(s, "done", stored)
       \/ /\ turn.state # "completed"
          /\ Goto(s, IF turn.state = "ready" THEN "open" ELSE "narrate")
          /\ UNCHANGED <<told, gone, reserved>>
    /\ UNCHANGED <<row, dispatch, context, now, requests, hooks, seen, text, bounds>>
    /\ Read(s)

\* updateAdventureTurnNarration "in-progress" under the turn's one key: first
\* the replay of the stored command, then the revision.
Begin(s) ==
    /\ pc[s] = "open"
    /\ \/ /\ began = None /\ held[s].revision = turn.revision
          /\ began' = turn.revision
          /\ turn' = [state |-> "narrating", narration |-> "in-progress",
                      revision |-> turn.revision + 1]
          /\ Read(s)
          /\ Goto(s, "narrate")
          /\ UNCHANGED <<told, gone, reserved>>
       \/ /\ began = held[s].revision
          /\ held' = [held EXCEPT ![s] = [state |-> "narrating",
                                          revision |-> began + 1]]
          /\ Goto(s, "narrate")
          /\ UNCHANGED <<turn, began, told, gone, reserved>>
       \/ /\ IF began = None THEN held[s].revision # turn.revision
                             ELSE began # held[s].revision
          /\ Finish(s, "error", None)
          /\ UNCHANGED <<turn, began, held>>
    /\ UNCHANGED <<stored, started, finished, call, dispatch, context, now,
                   requests, hooks, seen, text, bounds>>

\* A settled dispatch is taken over; otherwise the settings are read.
Recover(s) ==
    /\ pc[s] = "narrate"
    /\ Goto(s, IF Settled THEN "finalize" ELSE "prepare")
    /\ UNCHANGED <<row, dispatch, context, now, reserved, requests, hooks, held,
                   seen, text, told, gone, bounds>>

\* A deliberate hold, or settings, transcript or context that cannot be read:
\* the stream tells fallback prose of its own and leaves the dispatch alone.
FallBack(s) ==
    /\ pc[s] \in {"narrate", "prepare"}
    /\ text' = [text EXCEPT ![s] = Bare]
    /\ Goto(s, "complete")
    /\ UNCHANGED <<row, dispatch, context, now, reserved, requests, hooks, held,
                   seen, told, gone, bounds>>

\* The prompt is built and the dispatch claimed in one synchronous block.
Claim(s) ==
    /\ pc[s] = "prepare"
    /\ seen' = [seen EXCEPT ![s] = context]
    /\ \/ /\ CanClaim
          /\ turn.state = "narrating" /\ turn.narration = "in-progress"
          /\ dispatch' = [status |-> "claimed", owner |-> s, lease |-> now + Lease,
                          frozen |-> context, text |-> None]
          /\ Goto(s, "start")
          /\ UNCHANGED <<told, gone, reserved>>
       \/ /\ CanClaim /\ turn.state = "completed"
          /\ Finish(s, "error", None)
          /\ UNCHANGED dispatch
       \/ /\ Live /\ s \notin gone
          /\ Goto(s, "poll")
          /\ UNCHANGED <<dispatch, told, gone, reserved>>
       \/ /\ Live /\ s \in gone
          /\ Finish(s, "error", None)
          /\ UNCHANGED dispatch
       \/ /\ Expired
          /\ Resolve(Located(context))
          /\ Goto(s, "finalize")
          /\ UNCHANGED <<told, gone, reserved>>
       \/ /\ Settled
          /\ Goto(s, "finalize")
          /\ UNCHANGED <<dispatch, told, gone, reserved>>
    /\ UNCHANGED <<row, context, now, requests, hooks, held, text, bounds>>

\* The loop of a stream that does not own the dispatch.
Poll(s) ==
    /\ pc[s] = "poll"
    /\ \/ Settled /\ UNCHANGED dispatch
       \/ SealExpired(s)
    /\ Goto(s, "finalize")
    /\ UNCHANGED <<row, context, now, reserved, requests, hooks, held, seen,
                   text, told, gone, bounds>>

\* recordProviderCallStart under the turn's one key, fresh or replayed.
StartAccepted(s) ==
    \/ call = "none" /\ turn.state = "narrating" /\ held[s].revision = turn.revision
    \/ started = held[s].revision

\* The start is recorded; then the budget is asked, and then the provider.
Start(s) ==
    /\ pc[s] = "start"
    /\ StartAccepted(s)
    /\ IF call = "none"
         THEN /\ call' = "started"
              /\ started' = turn.revision
              /\ turn' = [turn EXCEPT !.narration = "in-progress", !.revision = @ + 1]
         ELSE UNCHANGED <<call, started, turn>>
    /\ held' = [held EXCEPT ![s] = [state |-> "narrating",
                                    revision |-> held[s].revision + 1]]
    /\ \/ /\ home[s] \notin reserved
          /\ reserved' = reserved \cup {home[s]}
          /\ requests' = requests + 1
          /\ Goto(s, "call")
          /\ UNCHANGED text
       \/ /\ text' = [text EXCEPT ![s] = Located(seen[s])]
          /\ Goto(s, "denied")
          /\ UNCHANGED <<reserved, requests>>
    /\ UNCHANGED <<stored, began, finished, dispatch, context, now, hooks, seen,
                   told, gone, bounds>>

\* The start was refused: stale revision, finished turn, or the limit on calls.
StartRefused(s) ==
    /\ pc[s] = "start"
    /\ text' = [text EXCEPT ![s] = Located(seen[s])]
    /\ Goto(s, "settle")
    /\ UNCHANGED <<row, dispatch, context, now, reserved, requests, hooks, held,
                   seen, told, gone, bounds>>

\* The provider answered, failed, or was aborted.  One dispatch is one settlement:
\* the transport's second try without thinking, and the repair of an ungrounded
\* text, are further HTTP requests within it, under the same claim.  The text counts only over the
\* context the prompt was built from.  A reservation another stream cleared makes
\* the settlement of the budget throw, twice, out of the whole stream.
Answer(s, ok) ==
    /\ pc[s] = "call"
    /\ \/ /\ home[s] \in reserved
          /\ reserved' = reserved \ {home[s]}
          /\ text' = [text EXCEPT ![s] = IF ok /\ context = seen[s]
                                           THEN ProviderText ELSE Located(seen[s])]
          /\ Goto(s, "settle")
          /\ UNCHANGED <<told, gone>>
       \/ /\ home[s] \notin reserved
          /\ Finish(s, "error", None)
          /\ UNCHANGED text
    /\ UNCHANGED <<row, dispatch, context, now, requests, hooks, held, seen, bounds>>

\* settleNarrationProviderDispatch by the owner of the claim.
Settle(s) ==
    /\ pc[s] \in {"settle", "denied"}
    /\ UNCHANGED <<row, context, now, reserved, requests, hooks, seen, told,
                   gone, bounds>>
    /\ \/ /\ Accepts(s)
          /\ Resolve(text[s])
          /\ Goto(s, "finalize")
          /\ UNCHANGED <<held, text>>
       \/ /\ ~ Accepts(s) /\ Settled
          /\ Goto(s, "finalize")
          /\ UNCHANGED <<dispatch, held, text>>
       \/ /\ ~ Accepts(s) /\ ~ Settled /\ pc[s] = "settle"
          /\ Goto(s, "reclaim")
          /\ UNCHANGED <<dispatch, held, text>>
       \/ /\ ~ Accepts(s) /\ ~ Settled /\ pc[s] = "denied"
          /\ Goto(s, "complete")
          /\ Read(s)
          /\ UNCHANGED <<dispatch, text>>

\* The owner asks again after its settlement was refused.
Reclaim(s) ==
    /\ pc[s] = "reclaim"
    /\ UNCHANGED <<row, context, now, reserved, requests, hooks, seen, told,
                   gone, bounds>>
    /\ \/ /\ SealExpired(s)
          /\ Goto(s, "finalize")
          /\ UNCHANGED <<held, text>>
       \/ /\ Settled
          /\ Goto(s, "finalize")
          /\ UNCHANGED <<dispatch, held, text>>
       \/ /\ Live
          /\ text' = [text EXCEPT ![s] = Located(seen[s])]
          /\ Goto(s, "complete")
          /\ Read(s)
          /\ UNCHANGED dispatch

\* Mutant: the outcome is that of the stream's own request.
OwnOutcome(s) == IF text[s] = ProviderText THEN "succeeded" ELSE "failed"

\* The outcome of the call is the outcome of the dispatch.
Outcome(s) == IF dispatch.text = ProviderText THEN "succeeded" ELSE "failed"

\* finalizeNarrationDispatch: over another context the text is not told, and the
\* call's outcome is not recorded; otherwise it is recorded once, while the turn
\* is open.
Finalize(s) ==
    /\ pc[s] = "finalize"
    /\ \/ /\ dispatch.frozen # context
          /\ text' = [text EXCEPT ![s] = Bare]
          /\ UNCHANGED <<turn, call>>
       \/ /\ dispatch.frozen = context
          /\ text' = [text EXCEPT ![s] = dispatch.text]
          /\ \/ /\ call = "started" /\ turn.state = "narrating"
                /\ call' = Outcome(s)
                /\ turn' = [turn EXCEPT !.revision = @ + 1,
                              !.narration = IF Outcome(s) = "failed" THEN "failed" ELSE @]
             \/ /\ ~ (call = "started" /\ turn.state = "narrating")
                /\ UNCHANGED <<turn, call>>
    /\ Read(s)
    /\ Goto(s, "complete")
    /\ UNCHANGED <<stored, began, started, finished, dispatch, context, now,
                   reserved, requests, hooks, seen, told, gone, bounds>>

Completion(s) == [expected |-> held[s].revision, text |-> text[s]]

\* Mutant: a completion is neither replayed nor compared with the revision.
CompletesAnyway(s) == TRUE

Completes(s) == finished = None /\ held[s].revision = turn.revision

\* updateAdventureTurnNarration "completed" under the turn's one key.
CompleteTurn(s) ==
    /\ pc[s] = "complete" /\ held[s].state # "completed"
    /\ Completes(s)
    /\ turn' = [state |-> "completed", narration |-> "completed",
                revision |-> turn.revision + 1]
    /\ stored' = text[s] /\ finished' = Completion(s)
    /\ hooks' = hooks + 1
    /\ Finish(s, "done", text[s])
    /\ UNCHANGED <<began, started, call, dispatch, context, now, requests, held,
                   seen, text, bounds>>

\* The same request again replays its stored receipt, like a first success.
ReplayCompletion(s) ==
    /\ pc[s] = "complete" /\ held[s].state # "completed"
    /\ finished = Completion(s)
    /\ hooks' = hooks + 1
    /\ Finish(s, "done", text[s])
    /\ UNCHANGED <<row, dispatch, context, now, requests, held, seen, text, bounds>>

\* Mutant: the loser of the race tells what it meant to store.
OwnText(s) == text[s]

\* The loser of the race tells what the turn's narration has become.
StoredText(s) == stored

\* Conflict or stale revision: a completed turn is told as it is stored, an open
\* one ends the stream with an error.
LoseCompletion(s) ==
    /\ pc[s] = "complete" /\ held[s].state # "completed"
    /\ IF finished = None THEN held[s].revision # turn.revision
                          ELSE finished # Completion(s)
    /\ \/ turn.state = "completed" /\ Finish(s, "done", StoredText(s))
       \/ turn.state # "completed" /\ Finish(s, "error", None)
    /\ UNCHANGED <<row, dispatch, context, now, requests, hooks, held, seen, text, bounds>>

\* The stream came back with a turn that was already completed.
TellCompleted(s) ==
    /\ pc[s] = "complete" /\ held[s].state = "completed"
    /\ Finish(s, "done", text[s])
    /\ UNCHANGED <<row, dispatch, context, now, requests, hooks, held, seen, text, bounds>>

-----------------------------------------------------------------------------
(* The environment.                                                        *)

\* A closed connection stops a stream where it looks, and aborts the provider's
\* request; elsewhere the stream runs on without a client.
Disconnect(s) ==
    /\ drops < MaxDrops
    /\ s \notin gone /\ pc[s] \notin {"idle", "done", "error"}
    /\ drops' = drops + 1
    /\ \/ /\ pc[s] \in {"open", "poll"}
          /\ Goto(s, "idle")
          /\ UNCHANGED gone
       \/ /\ pc[s] \notin {"open", "poll"}
          /\ gone' = gone \cup {s}
          /\ UNCHANGED pc
    /\ UNCHANGED <<row, dispatch, context, now, reserved, requests, hooks, held,
                   seen, text, told, crashes, others>>

\* A worker restarts: its streams and its budgets are lost, the rows stay.
Crash(w) ==
    /\ crashes < MaxCrashes
    /\ crashes' = crashes + 1
    /\ pc' = [s \in Streams |-> IF home[s] = w THEN "idle" ELSE pc[s]]
    /\ gone' = {s \in gone : home[s] # w}
    /\ reserved' = reserved \ {w}
    /\ UNCHANGED <<row, dispatch, context, now, requests, hooks, held, seen,
                   text, told, drops, others>>

\* Linking and reconciliation advance the turn until it narrates.
OtherCommand ==
    /\ others < MaxOther
    /\ turn.state = "ready"
    /\ others' = others + 1
    /\ turn' = [turn EXCEPT !.revision = @ + 1]
    /\ UNCHANGED <<stored, began, started, finished, call, dispatch, context, now,
                   reserved, requests, hooks, local, crashes, drops>>

\* Another turn or a director changes what the public may know.
ContextMoves ==
    /\ context < MaxMoves
    /\ context' = context + 1
    /\ UNCHANGED <<row, dispatch, now, reserved, requests, hooks, local, bounds>>

Tick ==
    /\ now < MaxTime \/ Live
    /\ now' = now + 1
    /\ UNCHANGED <<row, dispatch, context, reserved, requests, hooks, local, bounds>>

-----------------------------------------------------------------------------

\* What a stream does by itself, the provider's answer left aside.
Proceed(s) ==
    \/ Begin(s) \/ Recover(s) \/ FallBack(s) \/ Claim(s) \/ Poll(s)
    \/ Start(s) \/ StartRefused(s) \/ Settle(s) \/ Reclaim(s) \/ Finalize(s)
    \/ CompleteTurn(s) \/ ReplayCompletion(s) \/ LoseCompletion(s) \/ TellCompleted(s)

Next ==
    \/ \E s \in Streams : Open(s)
    \/ \E s \in Streams : Proceed(s)
    \/ \E s \in Streams, ok \in BOOLEAN : Answer(s, ok)
    \/ \E s \in Streams : Disconnect(s)
    \/ \E w \in Workers : Crash(w)
    \/ OtherCommand
    \/ ContextMoves
    \/ Tick

Spec == Init /\ [][Next]_vars

\* Streams run on, clients come back, time passes; a provider may stay silent.
FairSpec ==
    /\ Spec
    /\ WF_vars(Tick)
    /\ \A s \in Streams : WF_vars(Open(s)) /\ WF_vars(Proceed(s))

-----------------------------------------------------------------------------
(* Safety.                                                                 *)

\* The provider is asked at most once for a turn's narration, whatever streams,
\* workers, leases and restarts do.
OneRequest == requests <= 1

\* The dispatch is claimed once and settles once, whoever settles it.
DispatchSettlesOnce ==
    [][/\ dispatch.status # "none" => dispatch'.owner = dispatch.owner
       /\ Settled => UNCHANGED dispatch]_vars

\* An answer that comes after the lease loses to the fallback, even when nobody
\* has sealed the claim yet.
LateAnswersLose == [][Expired => dispatch'.text # ProviderText]_vars

\* The call's recorded outcome is that of the settled dispatch, though any stream
\* may be the one that records it.
OutcomeMatchesDispatch ==
    call \in {"succeeded", "failed"} =>
        /\ Settled
        /\ (call = "succeeded") <=> (dispatch.text = ProviderText)

\* The narration of a completed turn never changes, nor does its call.
NarrationIsFinal ==
    [][turn.state = "completed" => UNCHANGED <<turn, stored, call>>]_vars

\* Every client that is told the end of the turn hears the durable narration, as
\* long as that came from the dispatch and the public context did not move.
ToldIsStored ==
    \A s \in Streams : pc[s] = "done" =>
        \/ told[s] = stored
        \/ stored = Bare
        \/ context # dispatch.frozen

\* The hook runs for the one stream that durably completed the narration.
HookFiresOnce == hooks <= 1

-----------------------------------------------------------------------------
(* Liveness.                                                               *)

\* A narrating turn completes though its provider stays silent, its owner
\* crashes, or another stream of the owner's worker drops the reservation.
NarrationCompletes == turn.state = "narrating" ~> turn.state = "completed"

=============================================================================
