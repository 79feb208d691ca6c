--------------------------- MODULE GenerationJob ---------------------------
(***************************************************************************)
(* Paid generation of campaign content: the durable jobs, attempts, drafts *)
(* and accepted artifacts of server/src/repo/campaignGenerationRepo.ts,    *)
(* the lease of campaignGenerationRecovery.ts and the requests that drive  *)
(* them, server/src/routes/rpg/v1/campaignContentGeneration.ts and         *)
(* campaignRegionPack.ts.                                                  *)
(*                                                                         *)
(* A request reads the accepted canon, takes the job of its idempotency    *)
(* key, sends one paid provider call and stages the answer as a draft; a   *)
(* region pack is applied as it is staged, other drafts when their owner   *)
(* selects artifacts of them.  A job that nobody finishes is given up when *)
(* its lease has run out and somebody asks for it; a further attempt needs *)
(* a client that acknowledges the failed one by its number.  Requests may  *)
(* belong to several processes over the database.                          *)
(*                                                                         *)
(* A candidate is a function from its artifact keys to the visibility and  *)
(* the references of each; what an artifact creates in the world is left   *)
(* out, and so are the members' roles.                                     *)
(***************************************************************************)
EXTENDS Integers, Sequences, FiniteSets

CONSTANTS
    Requests,       \* HTTP requests under way at once
    Keys,           \* idempotency keys of one campaign
    Packs,          \* the keys that ask for a region pack
    Artifacts,      \* artifact keys
    Candidates,     \* what a provider may answer
    MaxAttempts,    \* attempts of a job: 32 in the code
    MaxChanges,     \* bound on changes of the campaign's administration
    MaxCrashes      \* bound on crashes

Described == [public : BOOLEAN, refs : SUBSET Artifacts]

ASSUME CandidatesAssumption ==
    /\ Keys # {} /\ Packs \subseteq Keys
    /\ MaxChanges \in Nat /\ MaxCrashes \in Nat
    /\ Candidates \subseteq UNION {[S -> Described] : S \in SUBSET Artifacts}
    /\ MaxAttempts \in Nat \ {0}

VARIABLES
    job,        \* campaign_generation_jobs_v52
    attempts,   \* campaign_generation_attempts_v52: outcome of each attempt
    expired,    \* running jobs whose lease has run out
    draft,      \* generation_drafts with its candidate rows, per key
    accepted,   \* campaign_generation_accepted_artifacts_v52
    content,    \* campaign_content_commands_v42: applied keys, in order
    admin,      \* the campaign's administration revision
    request,    \* where each request stands
    crashes,
    calls,      \* history: provider calls sent for an attempt
    granted     \* history: failed attempts a client has acknowledged

vars == <<job, attempts, expired, draft, accepted, content, admin, request,
          crashes, calls, granted>>

-----------------------------------------------------------------------------

Attempt == 1..MaxAttempts
Empty == [a \in {} |-> [public |-> TRUE, refs |-> {}]]
NoDraft == [state |-> "none", candidate |-> Empty, base |-> 0, admin |-> 0]
Idle == [pc |-> "idle", key |-> CHOOSE k \in Keys : TRUE, attempt |-> 0,
         base |-> 0, admin |-> 0, canon |-> Empty]

Canon == UNION {[S -> Described] : S \in SUBSET Artifacts}

\* Type invariant.
TypeOK ==
    /\ job \in [Keys -> [state : {"none", "running", "succeeded", "failed"},
                         attempt : 0..MaxAttempts]]
    /\ attempts \in [Keys -> [Attempt ->
                        {"none", "open", "ok", "failed", "uncertain"}]]
    /\ expired \subseteq Keys
    /\ draft \in [Keys -> [state : {"none", "staged", "applied"},
                           candidate : Canon, base : Nat, admin : Nat]]
    /\ accepted \in Canon
    /\ content \in Seq(Keys)
    /\ admin \in 0..MaxChanges
    /\ request \in [Requests ->
           [pc : {"idle", "read", "calling", "waiting", "applying"}, key : Keys,
            attempt : 0..MaxAttempts, base : Nat, admin : Nat, canon : Canon]]
    /\ crashes \in 0..MaxCrashes
    /\ calls \in [Keys -> [Attempt -> Nat]]
    /\ granted \in [Keys -> SUBSET Attempt]

Init ==
    /\ job = [k \in Keys |-> [state |-> "none", attempt |-> 0]]
    /\ attempts = [k \in Keys |-> [n \in Attempt |-> "none"]]
    /\ expired = {}
    /\ draft = [k \in Keys |-> NoDraft]
    /\ accepted = Empty
    /\ content = <<>>
    /\ admin = 0
    /\ request = [r \in Requests |-> Idle]
    /\ crashes = 0
    /\ calls = [k \in Keys |-> [n \in Attempt |-> 0]]
    /\ granted = [k \in Keys |-> {}]

-----------------------------------------------------------------------------
(* The job.  Every access to it first gives up an attempt whose lease has  *)
(* run out (recoverExpiredCampaignGeneration).                             *)

\* Mutant: only a first attempt is ever given up.
OverdueFirst(k) == job[k].state = "running" /\ k \in expired /\ job[k].attempt = 1

Overdue(k) == job[k].state = "running" /\ k \in expired

\* The job's state once an overdue attempt is given up.
StateAfterRecovery(k) == IF Overdue(k) THEN "failed" ELSE job[k].state

\* The attempt that job k is at ends with this outcome, the job in this state.
Close(k, state, outcome) ==
    /\ job' = [job EXCEPT ![k].state = state]
    /\ attempts' = [attempts EXCEPT ![k][job[k].attempt] = outcome]
    /\ expired' = expired \ {k}

Recover(k) ==
    IF Overdue(k) THEN Close(k, "failed", "uncertain")
                  ELSE UNCHANGED <<job, attempts, expired>>

\* Mutants: a settled attempt is closed again; whatever attempt runs is closed.
FinishSettled(k, n, state, outcome) ==
    IF job[k].attempt = n THEN Close(k, state, outcome)
                          ELSE UNCHANGED <<job, attempts, expired>>

FinishAny(k, n, state, outcome) ==
    IF Overdue(k) THEN Recover(k)
    ELSE IF job[k].state = "running" THEN Close(k, state, outcome)
         ELSE UNCHANGED <<job, attempts, expired>>

\* finishCampaignGenerationCall: only the attempt that still runs is closed.
Finish(k, n, state, outcome) ==
    IF Overdue(k) THEN Recover(k)
    ELSE IF job[k].state = "running" /\ job[k].attempt = n
         THEN Close(k, state, outcome)
         ELSE UNCHANGED <<job, attempts, expired>>

LeaseRunsOut(k) ==
    /\ job[k].state = "running" /\ k \notin expired
    /\ expired' = expired \cup {k}
    /\ UNCHANGED <<job, attempts, draft, accepted, content, admin, request,
                   crashes, calls, granted>>

\* POST .../reconcile, or any read of the call.
Reconcile(k) ==
    /\ job[k].state # "none"
    /\ Recover(k)
    /\ UNCHANGED <<draft, accepted, content, admin, request, crashes, calls,
                   granted>>

-----------------------------------------------------------------------------
(* The owner applies a draft.                                              *)

\* Mutant: references close over the candidate, not over the selection.
ResolvedInCandidate(S, candidate) ==
    \A a \in S : candidate[a].refs \subseteq DOMAIN candidate \cup DOMAIN accepted

Resolved(S, candidate) ==
    \A a \in S : candidate[a].refs \subseteq S \cup DOMAIN accepted

\* A public artifact refers to public ones, candidate or accepted.
PublicRefs(S, candidate) ==
    \A a \in S : candidate[a].public =>
        \A b \in candidate[a].refs :
            IF b \in DOMAIN candidate THEN candidate[b].public
                                      ELSE accepted[b].public

\* Mutant: the canon may have moved since the draft was generated.
CurrentAnyway(k) == draft[k].base <= Len(content)

Current(k) == draft[k].base = Len(content)

\* Mutant: a key that is accepted already may be selected.
ApplicableOver(k, S) ==
    /\ draft[k].state = "staged" /\ Current(k) /\ draft[k].admin = admin
    /\ S \subseteq DOMAIN draft[k].candidate
    /\ Resolved(S, draft[k].candidate) /\ PublicRefs(S, draft[k].candidate)

Applicable(k, S) ==
    /\ draft[k].state = "staged"
    /\ Current(k)
    /\ draft[k].admin = admin
    /\ S \subseteq DOMAIN draft[k].candidate /\ S \cap DOMAIN accepted = {}
    /\ Resolved(S, draft[k].candidate)
    /\ PublicRefs(S, draft[k].candidate)

Accept(k, S) ==
    /\ draft' = [draft EXCEPT ![k].state = "applied"]
    /\ content' = Append(content, k)
    /\ accepted' = [a \in DOMAIN accepted \cup S |->
                       IF a \in S THEN draft[k].candidate[a] ELSE accepted[a]]

\* POST /campaign-content-drafts/:draftId/apply
Apply(k, S) ==
    /\ S # {}
    /\ Applicable(k, S)
    /\ Accept(k, S)
    /\ UNCHANGED <<job, attempts, expired, admin, request, crashes, calls,
                   granted>>

-----------------------------------------------------------------------------
(* A request.                                                              *)

At(pc, k) == IF pc = "idle" THEN Idle ELSE [Idle EXCEPT !.pc = pc, !.key = k]

Stand(r, pc) == request' = [request EXCEPT ![r] = At(pc, @.key)]

\* What a request does with a draft that is there already.
Reply(k) == At(IF k \in Packs THEN "applying" ELSE "idle", k)

Answer(r, k) == request' = [request EXCEPT ![r] = Reply(k)]

\* A request finds no draft of its key and reads the canon it names: the
\* provider's settings are awaited before the job is asked for.
ReadContext(r, k, named) ==
    /\ request[r].pc = "idle"
    /\ request' = [request EXCEPT ![r] =
          IF draft[k].state # "none" THEN Reply(k)
          ELSE [pc |-> "read", key |-> k, attempt |-> 0, base |-> Len(content),
                admin |-> admin, canon |-> [a \in named |-> accepted[a]]]]
    /\ UNCHANGED <<job, attempts, expired, draft, accepted, content, admin,
                   crashes, calls, granted>>

Startable(k) == job[k].state = "none"

\* Mutants: an older acknowledgement serves again; a job that succeeded
\* meanwhile is run again; attempts are not limited.
RetryableStale(k, acknowledged) ==
    /\ StateAfterRecovery(k) = "failed" /\ k \notin Packs
    /\ job[k].attempt < MaxAttempts /\ acknowledged <= job[k].attempt

RetryableDone(k, acknowledged) ==
    /\ StateAfterRecovery(k) # "running" /\ k \notin Packs
    /\ job[k].attempt < MaxAttempts /\ acknowledged = job[k].attempt

RetryableForEver(k, acknowledged) ==
    /\ StateAfterRecovery(k) = "failed" /\ k \notin Packs
    /\ acknowledged = job[k].attempt

\* The client names the failed attempt it accepts to pay for again.
Retryable(k, acknowledged) ==
    /\ StateAfterRecovery(k) = "failed" /\ k \notin Packs
    /\ job[k].attempt < MaxAttempts
    /\ acknowledged = job[k].attempt

\* beginCampaignGenerationCall takes the job for one more attempt, whose call
\* is sent at once.
Take(r, k) ==
    LET n == job[k].attempt + 1
    IN /\ job' = [job EXCEPT ![k] = [state |-> "running", attempt |-> n]]
       /\ attempts' = [attempts EXCEPT ![k] = [m \in Attempt |->
             IF m = n THEN "open"
             ELSE IF Overdue(k) /\ m = job[k].attempt THEN "uncertain" ELSE @[m]]]
       /\ expired' = expired \ {k}
       /\ calls' = [calls EXCEPT ![k][n] = @ + 1]
       /\ request' = [request EXCEPT ![r].pc = "calling", ![r].attempt = n]

BeginFirst(r) ==
    LET k == request[r].key
    IN /\ request[r].pc = "read" /\ Startable(k)
       /\ Take(r, k)
       /\ UNCHANGED <<draft, accepted, content, admin, crashes, granted>>

BeginRetry(r, acknowledged) ==
    LET k == request[r].key
    IN /\ request[r].pc = "read" /\ Retryable(k, acknowledged)
       /\ Take(r, k)
       /\ granted' = [granted EXCEPT ![k] = @ \cup {acknowledged}]
       /\ UNCHANGED <<draft, accepted, content, admin, crashes>>

\* The job is another's, done, or failed without an acknowledgement.
BeginOther(r) ==
    LET k == request[r].key
    IN /\ request[r].pc = "read" /\ ~Startable(k)
       /\ Recover(k)
       /\ CASE StateAfterRecovery(k) = "running" -> Stand(r, "waiting")
            [] StateAfterRecovery(k) = "succeeded" -> Answer(r, k)
            [] OTHER -> Stand(r, "idle")
       /\ UNCHANGED <<draft, accepted, content, admin, crashes, calls, granted>>

\* The acknowledgement is stale or the last attempt is spent: the transaction
\* is rolled back.
BeginRefused(r) ==
    LET k == request[r].key
    IN /\ request[r].pc = "read"
       /\ k \notin Packs /\ StateAfterRecovery(k) = "failed"
       /\ Stand(r, "idle")
       /\ UNCHANGED <<job, attempts, expired, draft, accepted, content, admin,
                      crashes, calls, granted>>

\* One of forty looks at a job that another request runs.
Poll(r) ==
    LET k == request[r].key
    IN /\ request[r].pc = "waiting"
       /\ Recover(k)
       /\ CASE StateAfterRecovery(k) = "succeeded" -> Answer(r, k)
            [] StateAfterRecovery(k) = "failed" -> Stand(r, "idle")
            [] OTHER -> \E pc \in {"waiting", "idle"} : Stand(r, pc)
       /\ UNCHANGED <<draft, accepted, content, admin, crashes, calls, granted>>

\* validateContent: new keys, whose references the request knows.
Valid(candidate, canon) ==
    /\ DOMAIN candidate # {}
    /\ DOMAIN candidate \cap DOMAIN canon = {}
    /\ \A a \in DOMAIN candidate : \A b \in candidate[a].refs :
          /\ b \in DOMAIN candidate \cup DOMAIN canon
          /\ candidate[a].public =>
                IF b \in DOMAIN candidate THEN candidate[b].public
                                          ELSE canon[b].public

Owns(k, n) ==
    /\ job[k].state = "running" /\ k \notin expired
    /\ job[k].attempt = n

\* stageCampaignGenerationAtomically
Stage(r, candidate) ==
    LET k == request[r].key
    IN /\ request[r].pc = "calling"
       /\ Valid(candidate, request[r].canon)
       /\ Owns(k, request[r].attempt) /\ request[r].admin = admin
       /\ draft' = [draft EXCEPT ![k] = [state |-> "staged",
             candidate |-> candidate, base |-> request[r].base,
             admin |-> request[r].admin]]
       /\ Close(k, "succeeded", "ok")
       /\ Answer(r, k)
       /\ UNCHANGED <<accepted, content, admin, crashes, calls, granted>>

\* The call failed, its answer is not valid, the client went away, or staging
\* was refused.
Fail(r) ==
    /\ request[r].pc = "calling"
    /\ Finish(request[r].key, request[r].attempt, "failed", "failed")
    /\ Stand(r, "idle")
    /\ UNCHANGED <<draft, accepted, content, admin, crashes, calls, granted>>

\* GenerationLeaseExpired: the request's own clock ends the call.
GiveUp(r) ==
    LET k == request[r].key
    IN /\ request[r].pc = "calling" /\ ~Owns(k, request[r].attempt)
       /\ Finish(k, request[r].attempt, "failed", "uncertain")
       /\ Stand(r, "idle")
       /\ UNCHANGED <<draft, accepted, content, admin, crashes, calls, granted>>

\* applyRegionPack: the whole candidate, in a transaction after the staging.
ApplyPack(r) ==
    LET k == request[r].key
        S == DOMAIN draft[k].candidate
    IN /\ request[r].pc = "applying"
       /\ IF Applicable(k, S) THEN Accept(k, S)
                              ELSE UNCHANGED <<draft, accepted, content>>
       /\ Stand(r, "idle")
       /\ UNCHANGED <<job, attempts, expired, admin, crashes, calls, granted>>

-----------------------------------------------------------------------------

ChangeAdministration ==
    /\ admin < MaxChanges
    /\ admin' = admin + 1
    /\ UNCHANGED <<job, attempts, expired, draft, accepted, content, request,
                   crashes, calls, granted>>

\* A process stops and with it some of the requests.
Crash(R) ==
    /\ crashes < MaxCrashes
    /\ crashes' = crashes + 1
    /\ request' = [r \in Requests |-> IF r \in R THEN Idle ELSE request[r]]
    /\ UNCHANGED <<job, attempts, expired, draft, accepted, content, admin,
                   calls, granted>>

Request(r) ==
    \/ \E k \in Keys, named \in SUBSET DOMAIN accepted : ReadContext(r, k, named)
    \/ BeginFirst(r) \/ BeginOther(r) \/ BeginRefused(r)
    \/ \E n \in Attempt : BeginRetry(r, n)
    \/ Poll(r) \/ Fail(r) \/ GiveUp(r) \/ ApplyPack(r)
    \/ \E c \in Candidates : Stage(r, c)

Next ==
    \/ \E r \in Requests : Request(r)
    \/ \E k \in Keys : LeaseRunsOut(k) \/ Reconcile(k)
    \/ \E k \in Keys, S \in SUBSET Artifacts : Apply(k, S)
    \/ ChangeAdministration
    \/ \E R \in (SUBSET Requests) \ {{}} : Crash(R)

Spec == Init /\ [][Next]_vars

\* Time passes, and clients ask what became of their calls.
Fairness == \A k \in Keys : WF_vars(LeaseRunsOut(k)) /\ WF_vars(Reconcile(k))

FairSpec == Spec /\ Fairness

-----------------------------------------------------------------------------
(* What the owner pays for.                                                *)

\* Each attempt sends one call, and an attempt after the first is sent only
\* when the one before it has ended and a client has acknowledged exactly that
\* one: two clients that retry one failure pay once, and a call whose outcome
\* is unknown is never repeated on its own (retryFailedAttempt).
PaidOnAcknowledgement ==
    \A k \in Keys, n \in Attempt :
        /\ calls[k][n] <= 1
        /\ (calls[k][n] > 0 /\ n > 1) =>
              /\ n - 1 \in granted[k]
              /\ attempts[k][n - 1] \notin {"none", "open"}

\* A draft is the answer of one attempt, the one that held the job to the end:
\* a job has a draft exactly when it succeeded, by its last attempt and by no
\* other, whatever answers arrived after a lease had run out.
DraftOfOneAttempt ==
    \A k \in Keys :
        /\ (draft[k].state # "none") <=> (job[k].state = "succeeded")
        /\ \A n \in Attempt : attempts[k][n] = "ok" <=>
              (job[k].state = "succeeded" /\ n = job[k].attempt)

\* What was recorded of an attempt is final: neither a late answer nor a late
\* failure, nor a further attempt, rewrites an outcome once it is recorded.
OutcomesAreFinal ==
    \A k \in Keys, n \in Attempt :
        attempts[k][n] \in {"ok", "failed", "uncertain"} =>
            attempts'[k][n] = attempts[k][n]

\* A request whose attempt was given up and taken over by another one does not
\* disturb the new attempt, whether it answers, fails or runs out of time.
LateRequestsDisturbNothing ==
    \A r \in Requests :
        (/\ request[r].pc = "calling" /\ request'[r] # request[r]
         /\ request[r].attempt < job[request[r].key].attempt
         /\ request[r].key \notin expired) =>
            UNCHANGED <<job, attempts, draft>>

\* The accepted canon stands on its own: what an accepted artifact refers to is
\* accepted too, though the owner selects part of a candidate and the keys of
\* several drafts overlap.
CanonIsClosed ==
    \A a \in DOMAIN accepted : accepted[a].refs \subseteq DOMAIN accepted

\* No two drafts that were generated from the same canon are both applied, and
\* none is applied twice: the second would contradict what the first added.
NoDraftOverAnother ==
    \A i, j \in 1..Len(content) :
        i # j => /\ content[i] # content[j]
                 /\ draft[content[i]].base # draft[content[j]].base

\* Accepted artifacts are never changed or withdrawn by a later draft.
CanonOnlyGrows ==
    /\ DOMAIN accepted \subseteq DOMAIN accepted'
    /\ \A a \in DOMAIN accepted : accepted'[a] = accepted[a]

\* A job whose request is gone does not hold its key for ever: once its lease
\* is out, the next look at it settles it.
KeyIsFreed ==
    \A k \in Keys : job[k].state = "running" ~> job[k].state # "running"

\* What is paid for, drafted and accepted: one call for each acknowledged
\* attempt, one attempt for each draft, one draft for each canon it was made
\* from, and a canon that stands on its own.
DraftsAreSound ==
    /\ TypeOK
    /\ PaidOnAcknowledgement /\ DraftOfOneAttempt
    /\ NoDraftOverAnother /\ CanonIsClosed

\* No step rewrites what was recorded: an outcome, the attempt that took over
\* from a late one, or an accepted artifact.
RecordsStand ==
    [][OutcomesAreFinal /\ LateRequestsDisturbNothing /\ CanonOnlyGrows]_vars
=============================================================================
