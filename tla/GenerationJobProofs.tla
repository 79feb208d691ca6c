------------------------- MODULE GenerationJobProofs -------------------------
(***************************************************************************)
(* The safety of GenerationJob for every set of requests, keys, artifacts  *)
(* and candidates, and any number of attempts, changes and crashes.        *)
(*                                                                         *)
(* The inductive invariant Inv has three parts besides the types: what the *)
(* rows of a job say of each attempt (Account), in which order drafts were *)
(* applied (InOrder), and that the canon is closed.  Nothing is assumed of *)
(* the requests under way: a late one is refused by what it finds in the   *)
(* rows, which is why a crash needs no case of its own.                    *)
(***************************************************************************)
EXTENDS GenerationJob, TLAPS

-----------------------------------------------------------------------------
(* The inductive invariant.                                                *)

Recorded == {"failed", "uncertain"}

\* The attempts of a job are made one after the other: those before the one it
\* is at have ended without a draft and were acknowledged, that one stands as
\* the job does, and those after it were not begun.
Account(k) ==
    /\ job[k].state = "none" <=> job[k].attempt = 0
    /\ draft[k].state # "none" <=> job[k].state = "succeeded"
    /\ \A n \in Attempt :
          /\ calls[k][n] <= 1
          /\ n > job[k].attempt => attempts[k][n] = "none" /\ calls[k][n] = 0
          /\ n < job[k].attempt => attempts[k][n] \in Recorded /\ n \in granted[k]
          /\ n = job[k].attempt =>
                /\ job[k].state = "running" => attempts[k][n] = "open"
                /\ job[k].state = "succeeded" => attempts[k][n] = "ok"
                /\ job[k].state = "failed" => attempts[k][n] \in Recorded

\* The i-th draft that was applied had been made when i - 1 were.
InOrder ==
    \A i \in 1..Len(content) :
        draft[content[i]].state = "applied" /\ draft[content[i]].base = i - 1

Inv == TypeOK /\ (\A k \in Keys : Account(k)) /\ InOrder /\ CanonIsClosed

\* What RecordsStand says of one step.
Stands == OutcomesAreFinal /\ LateRequestsDisturbNothing /\ CanonOnlyGrows

-----------------------------------------------------------------------------
(* The types of the operators.                                             *)

JobType == [state : {"none", "running", "succeeded", "failed"}, attempt : 0..MaxAttempts]
Outcomes == {"none", "open", "ok", "failed", "uncertain"}
DraftType == [state : {"none", "staged", "applied"}, candidate : Canon, base : Nat, admin : Nat]
PCs == {"idle", "read", "calling", "waiting", "applying"}
RequestType == [pc : PCs, key : Keys, attempt : 0..MaxAttempts, base : Nat, admin : Nat,
                canon : Canon]

LEMMA Typed ==
    TypeOK <=>
      /\ job \in [Keys -> JobType]
      /\ attempts \in [Keys -> [Attempt -> Outcomes]]
      /\ expired \subseteq Keys
      /\ draft \in [Keys -> DraftType]
      /\ accepted \in Canon
      /\ content \in Seq(Keys)
      /\ admin \in 0..MaxChanges
      /\ request \in [Requests -> RequestType]
      /\ crashes \in 0..MaxCrashes
      /\ calls \in [Keys -> [Attempt -> Nat]]
      /\ granted \in [Keys -> SUBSET Attempt]
BY DEF TypeOK, JobType, Outcomes, DraftType, PCs, RequestType

LEMMA EmptyTyped == Empty \in Canon
<1>1. Empty \in [{} -> Described] /\ {} \in SUBSET Artifacts
  BY DEF Empty
<1> QED BY <1>1 DEF Canon

LEMMA IdleTyped == Idle \in RequestType /\ Idle.pc = "idle"
<1>1. (CHOOSE k \in Keys : TRUE) \in Keys
  BY CandidatesAssumption
<1> QED BY <1>1, EmptyTyped, CandidatesAssumption DEF Idle, RequestType, PCs

LEMMA AtTyped ==
    ASSUME NEW pc \in PCs, NEW k \in Keys
    PROVE  At(pc, k) \in RequestType
<1>1. [Idle EXCEPT !.pc = pc, !.key = k] \in RequestType
  BY IdleTyped DEF RequestType
<1> QED BY <1>1, IdleTyped DEF At

\* A request stands somewhere; the others do not move.
Moves(r) ==
    /\ request' \in [Requests -> RequestType]
    /\ \A q \in Requests : q # r => request'[q] = request[q]

LEMMA MovesTo ==
    ASSUME TypeOK, NEW r \in Requests, NEW x \in RequestType,
           request' = [request EXCEPT ![r] = x]
    PROVE  Moves(r)
BY Typed DEF Moves

LEMMA KeyTyped ==
    ASSUME TypeOK, NEW r \in Requests
    PROVE  request[r].key \in Keys
BY DEF TypeOK

LEMMA StandMoves ==
    ASSUME TypeOK, NEW r \in Requests, NEW pc \in PCs, Stand(r, pc)
    PROVE  Moves(r)
<1>1. At(pc, request[r].key) \in RequestType
  BY KeyTyped, AtTyped
<1> QED BY <1>1, MovesTo DEF Stand

LEMMA ReplyTyped ==
    ASSUME NEW k \in Keys
    PROVE  Reply(k) \in RequestType
BY AtTyped DEF Reply, PCs

LEMMA AnswerMoves ==
    ASSUME TypeOK, NEW r \in Requests, NEW k \in Keys, Answer(r, k)
    PROVE  Moves(r)
BY ReplyTyped, MovesTo DEF Answer

-----------------------------------------------------------------------------
(* The rows of a job.                                                      *)

\* The rows have their types, each job's account is in order, and no outcome
\* that was recorded is rewritten.
JobsKept ==
    /\ job' \in [Keys -> JobType] /\ attempts' \in [Keys -> [Attempt -> Outcomes]]
    /\ expired' \subseteq Keys
    /\ calls' \in [Keys -> [Attempt -> Nat]] /\ granted' \in [Keys -> SUBSET Attempt]
    /\ \A k \in Keys : Account(k)'
    /\ OutcomesAreFinal

\* A step that leaves the rows alone; an applied draft is a draft still.
LEMMA JobsUntouched ==
    ASSUME Inv, UNCHANGED <<job, attempts, calls, granted>>, expired' \subseteq Keys,
           \A k \in Keys : draft'[k].state # "none" <=> draft[k].state # "none"
    PROVE  JobsKept
<1>1. /\ job' \in [Keys -> JobType] /\ attempts' \in [Keys -> [Attempt -> Outcomes]]
      /\ calls' \in [Keys -> [Attempt -> Nat]] /\ granted' \in [Keys -> SUBSET Attempt]
  BY Typed DEF Inv
<1>2. ASSUME NEW k \in Keys
      PROVE  Account(k)'
  BY DEF Inv, Account
<1>3. OutcomesAreFinal
  BY DEF OutcomesAreFinal
<1> QED BY <1>1, <1>2, <1>3 DEF JobsKept

\* The attempt a job is at, when the job runs.
LEMMA RunningSays ==
    ASSUME Inv, NEW k \in Keys, job[k].state = "running"
    PROVE  /\ job[k].attempt \in Attempt /\ attempts[k][job[k].attempt] = "open"
           /\ draft[k].state = "none"
<1>1. /\ job[k].attempt \in 0..MaxAttempts /\ Account(k)
      /\ draft[k].state \in {"none", "staged", "applied"}
  BY DEF Inv, TypeOK
<1>2. job[k].attempt # 0
  BY <1>1 DEF Account
<1>3. job[k].attempt \in Attempt
  BY <1>1, <1>2, CandidatesAssumption DEF Attempt
<1> QED BY <1>1, <1>3 DEF Account

\* The attempt of a running job ends, with a draft or without.
LEMMA CloseKeeps ==
    ASSUME Inv, NEW k \in Keys, job[k].state = "running",
           NEW state \in {"succeeded", "failed"}, NEW outcome \in {"ok"} \cup Recorded,
           state = "succeeded" <=> outcome = "ok",
           Close(k, state, outcome), UNCHANGED <<calls, granted>>,
           \A q \in Keys : q # k => draft'[q] = draft[q],
           draft'[k].state # "none" <=> state = "succeeded"
    PROVE  JobsKept
<1> DEFINE a == job[k].attempt
<1>1. /\ job \in [Keys -> JobType] /\ attempts \in [Keys -> [Attempt -> Outcomes]]
      /\ expired \subseteq Keys
      /\ calls \in [Keys -> [Attempt -> Nat]] /\ granted \in [Keys -> SUBSET Attempt]
  BY Typed DEF Inv
<1>2. a \in Attempt /\ attempts[k][a] = "open" /\ Account(k)
  BY RunningSays DEF Inv
<1>3. /\ job' \in [Keys -> JobType]
      /\ \A q \in Keys : q # k => job'[q] = job[q]
      /\ job'[k].state = state /\ job'[k].attempt = a
  <2>1. job[k] \in JobType
    BY <1>1
  <2>2. /\ [job[k] EXCEPT !.state = state] \in JobType
        /\ [job[k] EXCEPT !.state = state].state = state
        /\ [job[k] EXCEPT !.state = state].attempt = a
    BY <2>1 DEF JobType
  <2>3. job' = [job EXCEPT ![k] = [job[k] EXCEPT !.state = state]]
    BY <1>1 DEF Close
  <2> QED BY <1>1, <2>2, <2>3
<1>4. /\ attempts' \in [Keys -> [Attempt -> Outcomes]]
      /\ \A q \in Keys : q # k => attempts'[q] = attempts[q]
      /\ attempts'[k][a] = outcome
      /\ \A n \in Attempt : n # a => attempts'[k][n] = attempts[k][n]
  <2>1. outcome \in Outcomes
    BY DEF Outcomes, Recorded
  <2> QED BY <1>1, <1>2, <2>1 DEF Close
<1>5. expired' \subseteq Keys /\ calls' = calls /\ granted' = granted
  BY <1>1 DEF Close
<1> HIDE DEF a
<1>6. Account(k)'
  <2>1. a # 0 /\ a \in Nat /\ \A n \in Attempt : n \in Nat
    BY <1>2, CandidatesAssumption DEF Attempt
  <2>2. \A n \in Attempt :
          /\ calls[k][n] <= 1
          /\ n > a => attempts[k][n] = "none" /\ calls[k][n] = 0
          /\ n < a => attempts[k][n] \in Recorded /\ n \in granted[k]
    BY <1>2 DEF Account, a
  <2>3. \A n \in Attempt :
          /\ n > a => attempts'[k][n] = "none"
          /\ n < a => attempts'[k][n] \in Recorded
    BY <1>4, <2>1, <2>2
  <2> QED BY <1>3, <1>4, <1>5, <2>1, <2>2, <2>3 DEF Account, Recorded
<1>7. ASSUME NEW q \in Keys, q # k
      PROVE  Account(q)'
  <2>1. Account(q) /\ UNCHANGED <<job[q], attempts[q], calls[q], granted[q], draft[q]>>
    BY <1>3, <1>4, <1>5, <1>7 DEF Inv
  <2> QED BY <2>1 DEF Account
<1>8. OutcomesAreFinal
  BY <1>2, <1>4 DEF OutcomesAreFinal, a
<1>9. \A q \in Keys : Account(q)'
  BY <1>6, <1>7
<1> QED BY <1>1, <1>3, <1>4, <1>5, <1>8, <1>9 DEF JobsKept

\* An overdue attempt is given up; another job is left as it is.
LEMMA RecoverKeeps ==
    ASSUME Inv, NEW k \in Keys, Recover(k), UNCHANGED <<draft, calls, granted>>
    PROVE  JobsKept
<1>1. CASE Overdue(k)
  <2>1. Close(k, "failed", "uncertain") /\ job[k].state = "running"
    BY <1>1 DEF Recover, Overdue
  <2> QED BY <2>1, RunningSays, CloseKeeps DEF Recorded
<1>2. CASE ~Overdue(k)
  BY <1>2, JobsUntouched DEF Recover, Inv, TypeOK
<1> QED BY <1>1, <1>2

LEMMA FinishKeeps ==
    ASSUME Inv, NEW k \in Keys, NEW n, NEW outcome \in Recorded,
           Finish(k, n, "failed", outcome), UNCHANGED <<draft, calls, granted>>
    PROVE  JobsKept
<1>1. CASE Overdue(k)
  BY <1>1, RecoverKeeps DEF Finish
<1>2. CASE ~Overdue(k) /\ job[k].state = "running" /\ job[k].attempt = n
  <2>1. Close(k, "failed", outcome) /\ outcome # "ok"
    BY <1>2 DEF Finish, Recorded
  <2> QED BY <1>2, <2>1, RunningSays, CloseKeeps
<1>3. CASE ~Overdue(k) /\ ~(job[k].state = "running" /\ job[k].attempt = n)
  BY <1>3, JobsUntouched DEF Finish, Inv, TypeOK
<1> QED BY <1>1, <1>2, <1>3

\* A job is taken for the attempt after the one it is at: for its first, or
\* when that one has failed and is acknowledged.
LEMMA TakeKeeps ==
    ASSUME Inv, NEW r \in Requests, NEW k \in Keys, Take(r, k), UNCHANGED draft,
           \/ Startable(k) /\ granted' = granted
           \/ /\ StateAfterRecovery(k) = "failed" /\ job[k].attempt < MaxAttempts
              /\ granted' = [granted EXCEPT ![k] = @ \cup {job[k].attempt}]
    PROVE  JobsKept /\ Moves(r)
<1> DEFINE a == job[k].attempt
           b == a + 1
           ended == [m \in Attempt |->
                       IF m = b THEN "open"
                       ELSE IF Overdue(k) /\ m = a THEN "uncertain" ELSE attempts[k][m]]
<1>1. /\ job \in [Keys -> JobType] /\ attempts \in [Keys -> [Attempt -> Outcomes]]
      /\ expired \subseteq Keys
      /\ calls \in [Keys -> [Attempt -> Nat]] /\ granted \in [Keys -> SUBSET Attempt]
      /\ request \in [Requests -> RequestType]
  BY Typed DEF Inv
<1>2. /\ Account(k) /\ a \in 0..MaxAttempts /\ MaxAttempts \in Nat \ {0}
      /\ \A n \in Attempt : n \in Nat \ {0} /\ n <= MaxAttempts
  BY <1>1, CandidatesAssumption DEF Inv, JobType, Attempt
<1>3. /\ b \in Attempt /\ b \in 0..MaxAttempts
      /\ job[k].state # "succeeded"
      /\ a = 0 \/ a \in Attempt
  <2>1. CASE Startable(k)
    BY <1>2, <2>1 DEF Startable, Account, Attempt
  <2>2. CASE StateAfterRecovery(k) = "failed" /\ a < MaxAttempts
    BY <1>2, <2>2 DEF StateAfterRecovery, Overdue, Attempt
  <2> QED BY <2>1, <2>2
<1>4. \A n \in Attempt :
        /\ calls[k][n] <= 1
        /\ n > a => attempts[k][n] = "none" /\ calls[k][n] = 0
        /\ n < a => attempts[k][n] \in Recorded /\ n \in granted[k]
        /\ n = a /\ ~Overdue(k) => attempts[k][n] \in Recorded
        /\ n = a /\ Overdue(k) => attempts[k][n] = "open"
  <2>1. CASE Startable(k)
    <3>1. a = 0 /\ \A n \in Attempt : n # a
      BY <1>2, <2>1 DEF Startable, Account
    <3> QED BY <1>2, <3>1 DEF Account
  <2>2. CASE StateAfterRecovery(k) = "failed"
    BY <1>2, <2>2 DEF Account, StateAfterRecovery, Overdue
  <2> QED BY <2>1, <2>2
<1>5. \A n \in Attempt : n < b => n \in granted'[k]
  <2>1. CASE Startable(k) /\ granted' = granted
    BY <1>2, <2>1 DEF Startable, Account
  <2>2. CASE granted' = [granted EXCEPT ![k] = @ \cup {a}]
    <3>1. granted'[k] = granted[k] \cup {a}
      BY <1>1, <2>2
    <3>2. \A n \in Attempt : n < b => n < a \/ n = a
      BY <1>2
    <3> QED BY <1>4, <3>1, <3>2
  <2> QED BY <2>1, <2>2
<1>6. /\ granted' \in [Keys -> SUBSET Attempt]
      /\ \A q \in Keys : q # k => granted'[q] = granted[q]
  <2>1. CASE granted' = granted
    BY <1>1, <2>1
  <2>2. CASE StateAfterRecovery(k) = "failed" /\ granted' = [granted EXCEPT ![k] = @ \cup {a}]
    <3>1. a \in Attempt
      BY <1>2, <1>3, <2>2 DEF Account, StateAfterRecovery, Overdue
    <3> QED BY <1>1, <2>2, <3>1
  <2> QED BY <2>1, <2>2
<1>7. /\ job' = [job EXCEPT ![k] = [state |-> "running", attempt |-> b]]
      /\ attempts' = [attempts EXCEPT ![k] = ended]
      /\ expired' = expired \ {k}
      /\ calls' = [calls EXCEPT ![k][b] = @ + 1]
      /\ request' = [request EXCEPT ![r].pc = "calling", ![r].attempt = b]
  BY DEF Take
<1>8. /\ ended \in [Attempt -> Outcomes] /\ ended[b] = "open"
      /\ \A n \in Attempt : n > b => ended[n] = "none"
      /\ \A n \in Attempt : n < b => ended[n] \in Recorded
      /\ \A n \in Attempt : attempts[k][n] \in {"ok", "failed", "uncertain"} => ended[n] = attempts[k][n]
  <2>1. ended \in [Attempt -> Outcomes]
    BY <1>1 DEF Outcomes
  <2>2. \A n \in Attempt : (n > b => n > a /\ n # a /\ n # b) /\ (n < b => (n < a \/ n = a) /\ n # b)
    BY <1>2
  <2>3. b > a
    BY <1>2
  <2> QED BY <1>3, <1>4, <2>1, <2>2, <2>3 DEF Recorded
<1> HIDE DEF ended, b
<1>9. /\ job' \in [Keys -> JobType] /\ \A q \in Keys : q # k => job'[q] = job[q]
      /\ job'[k].state = "running" /\ job'[k].attempt = b
  <2>1. [state |-> "running", attempt |-> b] \in JobType
    BY <1>3 DEF JobType
  <2> QED BY <1>1, <1>7, <2>1
<1>10. /\ attempts' \in [Keys -> [Attempt -> Outcomes]]
       /\ \A q \in Keys : q # k => attempts'[q] = attempts[q]
       /\ attempts'[k] = ended
  BY <1>1, <1>7, <1>8
<1>11. /\ calls' \in [Keys -> [Attempt -> Nat]]
       /\ \A q \in Keys : q # k => calls'[q] = calls[q]
       /\ calls'[k][b] = calls[k][b] + 1
       /\ \A n \in Attempt : n # b => calls'[k][n] = calls[k][n]
  BY <1>1, <1>3, <1>7
<1>12. calls[k][b] = 0 /\ b # 0 /\ b \in Nat /\ b > a
  BY <1>2, <1>3, <1>4 DEF b
<1>13. Account(k)'
  <2>1. draft'[k].state = "none"
    <3>1. draft[k].state \in {"none", "staged", "applied"}
      BY DEF Inv, TypeOK
    <3> QED BY <1>2, <1>3, <3>1 DEF Account
  <2>2. \A n \in Attempt :
          /\ calls'[k][n] <= 1
          /\ n > b => calls'[k][n] = 0
    <3> TAKE n \in Attempt
    <3>1. CASE n = b
      BY <1>11, <1>12, <3>1
    <3>2. CASE n # b
      BY <1>2, <1>4, <1>11, <1>12, <3>2
    <3> QED BY <3>1, <3>2
  <2> QED BY <1>5, <1>8, <1>9, <1>10, <1>12, <2>1, <2>2 DEF Account
<1>14. ASSUME NEW q \in Keys, q # k
       PROVE  Account(q)'
  <2>1. Account(q) /\ UNCHANGED <<job[q], attempts[q], calls[q], granted[q], draft[q]>>
    BY <1>6, <1>9, <1>10, <1>11, <1>14 DEF Inv
  <2> QED BY <2>1 DEF Account
<1>15. OutcomesAreFinal
  BY <1>8, <1>10 DEF OutcomesAreFinal
<1>16. JobsKept
  <2>1. \A q \in Keys : Account(q)'
    BY <1>13, <1>14
  <2>2. expired' \subseteq Keys
    BY <1>1, <1>7
  <2> QED BY <1>6, <1>9, <1>10, <1>11, <1>15, <2>1, <2>2 DEF JobsKept
<1>17. Moves(r)
  <2>1. request[r] \in RequestType
    BY <1>1
  <2>2. [request[r] EXCEPT !.pc = "calling", !.attempt = b] \in RequestType
    BY <1>3, <2>1 DEF RequestType, PCs
  <2>3. request' = [request EXCEPT ![r] = [request[r] EXCEPT !.pc = "calling", !.attempt = b]]
    BY <1>1, <1>7
  <2> QED BY <2>2, <2>3, MovesTo DEF Inv
<1> QED BY <1>16, <1>17

-----------------------------------------------------------------------------
(* The canon.                                                              *)

\* The canon has its type, drafts were applied in order, and it is closed and
\* has only grown.
CanonKept ==
    /\ draft' \in [Keys -> DraftType] /\ accepted' \in Canon /\ content' \in Seq(Keys)
    /\ InOrder' /\ CanonIsClosed' /\ CanonOnlyGrows

\* A step that neither applies a draft nor touches one that is applied.
LEMMA CanonUntouched ==
    ASSUME Inv, UNCHANGED <<accepted, content>>, draft' \in [Keys -> DraftType],
           \A k \in Keys : draft[k].state = "applied" => draft'[k] = draft[k]
    PROVE  CanonKept
<1>1. accepted \in Canon /\ content \in Seq(Keys) /\ InOrder /\ CanonIsClosed
  BY DEF Inv, TypeOK
<1>2. InOrder'
  <2>1. ASSUME NEW i \in 1..Len(content)
        PROVE  draft'[content[i]].state = "applied" /\ draft'[content[i]].base = i - 1
    <3>1. content[i] \in Keys
      BY <1>1
    <3> QED BY <1>1, <3>1 DEF InOrder
  <2> QED BY <2>1 DEF InOrder
<1>3. CanonIsClosed' /\ CanonOnlyGrows
  BY <1>1 DEF CanonIsClosed, CanonOnlyGrows
<1> QED BY <1>1, <1>2, <1>3 DEF CanonKept

LEMMA CanonStays ==
    ASSUME Inv, UNCHANGED <<draft, accepted, content>>
    PROVE  CanonKept
<1>1. draft \in [Keys -> DraftType]
  BY Typed DEF Inv
<1> QED BY <1>1, CanonUntouched

\* What the canon is after part of a candidate is accepted.
LEMMA AcceptedTyped ==
    ASSUME TypeOK, NEW k \in Keys, NEW S, S \subseteq DOMAIN draft[k].candidate
    PROVE  /\ [a \in DOMAIN accepted \cup S |->
                 IF a \in S THEN draft[k].candidate[a] ELSE accepted[a]] \in Canon
           /\ DOMAIN accepted \subseteq Artifacts /\ S \subseteq Artifacts
<1>1. PICK A \in SUBSET Artifacts : accepted \in [A -> Described]
  BY DEF TypeOK, Canon
<1>2. draft[k].candidate \in Canon
  BY DEF TypeOK
<1>3. PICK C \in SUBSET Artifacts : draft[k].candidate \in [C -> Described]
  BY <1>2 DEF Canon
<1>4. A = DOMAIN accepted /\ S \subseteq C
  BY <1>1, <1>3
<1> DEFINE grown == [a \in A \cup S |-> IF a \in S THEN draft[k].candidate[a] ELSE accepted[a]]
<1>5. grown \in [A \cup S -> Described]
  BY <1>1, <1>3, <1>4
<1>6. A \cup S \in SUBSET Artifacts
  BY <1>3, <1>4
<1> HIDE DEF grown
<1>7. grown \in Canon
  BY <1>5, <1>6 DEF Canon
<1> QED BY <1>4, <1>6, <1>7 DEF grown

\* A draft whose references are accepted with it, or were before, and that was
\* made from this canon, is applied.
LEMMA AcceptKeeps ==
    ASSUME Inv, NEW k \in Keys, NEW S, Applicable(k, S), Accept(k, S)
    PROVE  CanonKept /\ \A q \in Keys : draft'[q].state # "none" <=> draft[q].state # "none"
<1>1. /\ draft \in [Keys -> DraftType] /\ content \in Seq(Keys) /\ accepted \in Canon
      /\ TypeOK /\ InOrder /\ CanonIsClosed
  BY Typed DEF Inv
<1>2. /\ draft[k].state = "staged" /\ draft[k].base = Len(content)
      /\ S \subseteq DOMAIN draft[k].candidate /\ S \cap DOMAIN accepted = {}
      /\ \A a \in S : draft[k].candidate[a].refs \subseteq S \cup DOMAIN accepted
  BY DEF Applicable, Current, Resolved
<1>3. /\ draft' \in [Keys -> DraftType]
      /\ \A q \in Keys : q # k => draft'[q] = draft[q]
      /\ draft'[k].state = "applied" /\ draft'[k].base = draft[k].base
  <2>1. draft[k] \in DraftType
    BY <1>1
  <2>2. /\ [draft[k] EXCEPT !.state = "applied"] \in DraftType
        /\ [draft[k] EXCEPT !.state = "applied"].state = "applied"
        /\ [draft[k] EXCEPT !.state = "applied"].base = draft[k].base
    BY <2>1 DEF DraftType
  <2>3. draft' = [draft EXCEPT ![k] = [draft[k] EXCEPT !.state = "applied"]]
    BY <1>1 DEF Accept
  <2> QED BY <1>1, <2>2, <2>3
<1>4. content' = Append(content, k)
  BY DEF Accept
<1>5. /\ content' \in Seq(Keys) /\ Len(content') = Len(content) + 1 /\ Len(content) \in Nat
      /\ content'[Len(content) + 1] = k
      /\ \A i \in 1..Len(content) : content'[i] = content[i] /\ content[i] \in Keys
  BY <1>1, <1>4
<1>6. InOrder'
  <2>1. ASSUME NEW i \in 1..Len(content')
        PROVE  draft'[content'[i]].state = "applied" /\ draft'[content'[i]].base = i - 1
    <3>1. CASE i \in 1..Len(content)
      <4>1. /\ content'[i] = content[i] /\ content[i] \in Keys
            /\ draft[content[i]].state = "applied" /\ draft[content[i]].base = i - 1
        BY <1>1, <1>5, <3>1 DEF InOrder
      <4>2. content[i] # k
        BY <1>2, <4>1
      <4> QED BY <1>3, <4>1, <4>2
    <3>2. CASE i = Len(content) + 1
      BY <1>2, <1>3, <1>5, <3>2
    <3> QED BY <1>5, <2>1, <3>1, <3>2
  <2> QED BY <2>1 DEF InOrder
<1> DEFINE D == DOMAIN accepted
<1>7. /\ accepted' = [a \in D \cup S |-> IF a \in S THEN draft[k].candidate[a] ELSE accepted[a]]
      /\ accepted' \in Canon
  BY <1>1, <1>2, AcceptedTyped DEF Accept
<1>8. /\ DOMAIN accepted' = D \cup S
      /\ \A a \in S : accepted'[a] = draft[k].candidate[a]
      /\ \A a \in D : accepted'[a] = accepted[a]
  BY <1>2, <1>7
<1>9. CanonIsClosed'
  BY <1>1, <1>2, <1>8 DEF CanonIsClosed
<1>10. CanonOnlyGrows
  BY <1>8 DEF CanonOnlyGrows
<1>11. \A q \in Keys : draft'[q].state # "none" <=> draft[q].state # "none"
  BY <1>2, <1>3
<1> QED BY <1>3, <1>5, <1>6, <1>7, <1>9, <1>10, <1>11 DEF CanonKept

-----------------------------------------------------------------------------
(* The steps.                                                              *)

\* The step of a request that is not in a call, which leaves the others where
\* they are, concerns no late answer.
LEMMA NoLateAnswer ==
    ASSUME NEW r \in Requests, request[r].pc # "calling", Moves(r)
    PROVE  LateRequestsDisturbNothing
BY DEF Moves, LateRequestsDisturbNothing

\* Nor does a step that leaves the rows alone, or the requests.
LEMMA NothingDisturbed ==
    ASSUME UNCHANGED <<job, attempts, draft>> \/ UNCHANGED request
    PROVE  LateRequestsDisturbNothing
BY DEF LateRequestsDisturbNothing

\* The parts of the invariant make the whole.
LEMMA Together ==
    ASSUME Inv, JobsKept, CanonKept, request' \in [Requests -> RequestType],
           admin' \in 0..MaxChanges, crashes' \in 0..MaxCrashes
    PROVE  Inv'
<1>1. TypeOK'
  BY DEF JobsKept, CanonKept, TypeOK, JobType, Outcomes, DraftType, PCs, RequestType
<1> QED BY <1>1 DEF Inv, JobsKept, CanonKept

\* A step of r that leaves the canon, the administration and the crash count.
LEMMA JobStep ==
    ASSUME Inv, NEW r \in Requests, JobsKept, CanonKept, Moves(r), UNCHANGED <<admin, crashes>>,
           request[r].pc # "calling" \/ LateRequestsDisturbNothing
    PROVE  Inv' /\ Stands
<1>1. Inv'
  BY Together DEF Moves, Inv, TypeOK
<1>2. LateRequestsDisturbNothing
  BY NoLateAnswer
<1> QED BY <1>1, <1>2 DEF Stands, JobsKept, CanonKept

\* The same of a step of no request.
LEMMA OtherStep ==
    ASSUME Inv, JobsKept, CanonKept, UNCHANGED request,
           admin' \in 0..MaxChanges, crashes' \in 0..MaxCrashes
    PROVE  Inv' /\ Stands
<1>1. request' \in [Requests -> RequestType]
  BY Typed DEF Inv
<1>2. Inv'
  BY <1>1, Together
<1>3. LateRequestsDisturbNothing
  BY NothingDisturbed
<1> QED BY <1>2, <1>3 DEF Stands, JobsKept, CanonKept

LEMMA ReadContextKeeps ==
    ASSUME Inv, NEW r \in Requests, NEW k \in Keys, NEW named \in SUBSET DOMAIN accepted,
           ReadContext(r, k, named)
    PROVE  Inv' /\ Stands
<1> DEFINE canon == [a \in named |-> accepted[a]]
           x == [pc |-> "read", key |-> k, attempt |-> 0, base |-> Len(content),
                 admin |-> admin, canon |-> canon]
<1>1. UNCHANGED <<job, attempts, expired, draft, accepted, content, admin, crashes, calls, granted>>
  BY DEF ReadContext
<1>2. accepted \in Canon /\ content \in Seq(Keys) /\ admin \in 0..MaxChanges /\ TypeOK
  BY DEF Inv, TypeOK
<1>3. canon \in Canon
  <2>1. PICK A \in SUBSET Artifacts : accepted \in [A -> Described]
    BY <1>2 DEF Canon
  <2>2. canon \in [named -> Described] /\ named \in SUBSET Artifacts
    BY <2>1
  <2> HIDE DEF canon
  <2> QED BY <2>2 DEF Canon
<1>4. x \in RequestType
  <2>1. Len(content) \in Nat /\ admin \in Nat /\ 0 \in 0..MaxAttempts
    BY <1>2, CandidatesAssumption
  <2> HIDE DEF canon
  <2> QED BY <1>3, <2>1 DEF RequestType, PCs
<1>5. \E y \in RequestType : request' = [request EXCEPT ![r] = y]
  <2>1. request' = [request EXCEPT ![r] = IF draft[k].state # "none" THEN Reply(k) ELSE x]
    BY DEF ReadContext
  <2> HIDE DEF x
  <2> QED BY <1>4, <2>1, ReplyTyped
<1>6. Moves(r)
  BY <1>2, <1>5, MovesTo
<1>7. JobsKept /\ CanonKept
  BY <1>1, JobsUntouched, CanonStays DEF Inv, TypeOK
<1>8. request[r].pc # "calling"
  BY DEF ReadContext
<1> QED BY <1>1, <1>6, <1>7, <1>8, JobStep

LEMMA BeginFirstKeeps ==
    ASSUME Inv, NEW r \in Requests, BeginFirst(r)
    PROVE  Inv' /\ Stands
<1> DEFINE k == request[r].key
<1>1. /\ request[r].pc = "read" /\ Startable(k) /\ Take(r, k) /\ k \in Keys
      /\ UNCHANGED <<draft, accepted, content, admin, crashes, granted>>
  BY KeyTyped DEF BeginFirst, Inv
<1>2. JobsKept /\ Moves(r) /\ CanonKept
  BY <1>1, TakeKeeps, CanonStays
<1> QED BY <1>1, <1>2, JobStep

LEMMA BeginRetryKeeps ==
    ASSUME Inv, NEW r \in Requests, NEW n, BeginRetry(r, n)
    PROVE  Inv' /\ Stands
<1> DEFINE k == request[r].key
<1>1. /\ request[r].pc = "read" /\ Take(r, k) /\ k \in Keys
      /\ StateAfterRecovery(k) = "failed" /\ job[k].attempt < MaxAttempts
      /\ granted' = [granted EXCEPT ![k] = @ \cup {job[k].attempt}]
      /\ UNCHANGED <<draft, accepted, content, admin, crashes>>
  BY KeyTyped DEF BeginRetry, Retryable, Inv
<1>2. JobsKept /\ Moves(r) /\ CanonKept
  BY <1>1, TakeKeeps, CanonStays
<1> QED BY <1>1, <1>2, JobStep

\* The looks at a job: a request that waits, or finds it another's.
LEMMA LooksKeeps ==
    ASSUME Inv, NEW r \in Requests, BeginOther(r) \/ Poll(r)
    PROVE  Inv' /\ Stands
<1> DEFINE k == request[r].key
<1>1. /\ request[r].pc # "calling" /\ Recover(k) /\ k \in Keys /\ TypeOK
      /\ UNCHANGED <<draft, accepted, content, admin, crashes, calls, granted>>
      /\ Answer(r, k) \/ \E pc \in PCs : Stand(r, pc)
  BY KeyTyped DEF BeginOther, Poll, PCs, Inv
<1>2. JobsKept /\ CanonKept
  BY <1>1, RecoverKeeps, CanonStays
<1>3. Moves(r)
  BY <1>1, AnswerMoves, StandMoves
<1> QED BY <1>1, <1>2, <1>3, JobStep

LEMMA BeginRefusedKeeps ==
    ASSUME Inv, NEW r \in Requests, BeginRefused(r)
    PROVE  Inv' /\ Stands
<1>1. /\ request[r].pc # "calling" /\ Stand(r, "idle") /\ "idle" \in PCs /\ TypeOK
      /\ UNCHANGED <<job, attempts, expired, draft, accepted, content, admin, crashes, calls, granted>>
  BY DEF BeginRefused, PCs, Inv
<1>2. JobsKept /\ CanonKept /\ Moves(r)
  BY <1>1, JobsUntouched, CanonStays, StandMoves DEF TypeOK
<1> QED BY <1>1, <1>2, JobStep

\* The answer of a call is staged: the attempt still holds the job.
LEMMA StageKeeps ==
    ASSUME Inv, NEW r \in Requests, NEW c \in Candidates, Stage(r, c)
    PROVE  Inv' /\ Stands
<1> DEFINE k == request[r].key
           d == [state |-> "staged", candidate |-> c, base |-> request[r].base,
                 admin |-> request[r].admin]
<1>1. /\ Owns(k, request[r].attempt) /\ k \in Keys /\ TypeOK
      /\ Close(k, "succeeded", "ok") /\ Answer(r, k)
      /\ draft' = [draft EXCEPT ![k] = d]
      /\ UNCHANGED <<accepted, content, admin, crashes, calls, granted>>
  BY KeyTyped DEF Stage, Inv
<1>2. d \in DraftType /\ d.state = "staged"
  <2>1. c \in Canon /\ request[r].base \in Nat /\ request[r].admin \in Nat
    BY <1>1, CandidatesAssumption DEF TypeOK, Canon
  <2> QED BY <2>1 DEF DraftType
<1> HIDE DEF d
<1>3. draft \in [Keys -> DraftType]
  BY <1>1, Typed
<1>4. /\ draft' \in [Keys -> DraftType] /\ draft'[k].state = "staged"
      /\ \A q \in Keys : q # k => draft'[q] = draft[q]
  BY <1>1, <1>2, <1>3
<1>5. job[k].state = "running" /\ draft[k].state = "none"
  BY <1>1, RunningSays DEF Owns
<1>6. JobsKept
  BY <1>1, <1>4, <1>5, CloseKeeps
<1>7. CanonKept
  BY <1>1, <1>4, <1>5, CanonUntouched
<1>8. Moves(r)
  BY <1>1, AnswerMoves
<1>9. LateRequestsDisturbNothing
  <2>1. job[k].attempt = request[r].attempt /\ job[k].attempt \in Nat
    BY <1>1 DEF Owns, TypeOK
  <2> QED BY <1>8, <2>1 DEF Moves, LateRequestsDisturbNothing
<1> QED BY <1>1, <1>6, <1>7, <1>8, <1>9, JobStep

\* A call ends without a draft.
LEMMA EndKeeps ==
    ASSUME Inv, NEW r \in Requests, Fail(r) \/ GiveUp(r)
    PROVE  Inv' /\ Stands
<1> DEFINE k == request[r].key
           n == request[r].attempt
<1>1. /\ k \in Keys /\ TypeOK /\ Stand(r, "idle") /\ "idle" \in PCs
      /\ \E outcome \in Recorded : Finish(k, n, "failed", outcome)
      /\ UNCHANGED <<draft, accepted, content, admin, crashes, calls, granted>>
  BY KeyTyped DEF Fail, GiveUp, Recorded, PCs, Inv
<1>2. JobsKept /\ CanonKept /\ Moves(r)
  BY <1>1, FinishKeeps, CanonStays, StandMoves
<1>3. LateRequestsDisturbNothing
  <2>1. n < job[k].attempt /\ k \notin expired => UNCHANGED <<job, attempts, draft>>
    <3>1. n \in Nat /\ job[k].attempt \in Nat
      BY <1>1 DEF TypeOK
    <3> QED BY <1>1, <3>1 DEF Finish, Overdue
  <2> QED BY <1>2, <2>1 DEF Moves, LateRequestsDisturbNothing
<1> QED BY <1>1, <1>2, <1>3, JobStep

LEMMA ApplyPackKeeps ==
    ASSUME Inv, NEW r \in Requests, ApplyPack(r)
    PROVE  Inv' /\ Stands
<1> DEFINE k == request[r].key
           S == DOMAIN draft[k].candidate
<1>1. /\ request[r].pc # "calling" /\ k \in Keys /\ TypeOK /\ Stand(r, "idle") /\ "idle" \in PCs
      /\ IF Applicable(k, S) THEN Accept(k, S) ELSE UNCHANGED <<draft, accepted, content>>
      /\ UNCHANGED <<job, attempts, expired, admin, crashes, calls, granted>>
  BY KeyTyped DEF ApplyPack, PCs, Inv
<1>2. Moves(r)
  BY <1>1, StandMoves
<1>3. CanonKept /\ \A q \in Keys : draft'[q].state # "none" <=> draft[q].state # "none"
  <2>1. CASE Applicable(k, S)
    BY <1>1, <2>1, AcceptKeeps
  <2>2. CASE ~Applicable(k, S)
    BY <1>1, <2>2, CanonStays
  <2> QED BY <2>1, <2>2
<1>4. JobsKept
  BY <1>1, <1>3, JobsUntouched DEF TypeOK
<1> QED BY <1>1, <1>2, <1>3, <1>4, JobStep

LEMMA RequestKeeps ==
    ASSUME Inv, NEW r \in Requests, Request(r)
    PROVE  Inv' /\ Stands
<1>1. CASE \E k \in Keys, named \in SUBSET DOMAIN accepted : ReadContext(r, k, named)
  BY <1>1, ReadContextKeeps
<1>2. CASE \E n \in Attempt : BeginRetry(r, n)
  BY <1>2, BeginRetryKeeps
<1>3. CASE \E c \in Candidates : Stage(r, c)
  BY <1>3, StageKeeps
<1> QED BY <1>1, <1>2, <1>3, BeginFirstKeeps, LooksKeeps, BeginRefusedKeeps, EndKeeps,
           ApplyPackKeeps DEF Request

\* Time, the owner, the campaign's administration and a stop of a process.
LEMMA OthersKeep ==
    ASSUME Inv,
           \/ \E k \in Keys : LeaseRunsOut(k) \/ Reconcile(k)
           \/ \E k \in Keys, S \in SUBSET Artifacts : Apply(k, S)
           \/ ChangeAdministration
           \/ UNCHANGED vars
    PROVE  Inv' /\ Stands
<1>1. /\ admin \in 0..MaxChanges /\ crashes \in 0..MaxCrashes /\ expired \subseteq Keys
  BY DEF Inv, TypeOK
<1>2. ASSUME NEW k \in Keys, LeaseRunsOut(k)
      PROVE  Inv' /\ Stands
  <2>1. JobsKept /\ CanonKept
    BY <1>1, <1>2, JobsUntouched, CanonStays DEF LeaseRunsOut
  <2> QED BY <1>1, <1>2, <2>1, OtherStep DEF LeaseRunsOut
<1>3. ASSUME NEW k \in Keys, Reconcile(k)
      PROVE  Inv' /\ Stands
  <2>1. JobsKept /\ CanonKept
    BY <1>3, RecoverKeeps, CanonStays DEF Reconcile
  <2> QED BY <1>1, <1>3, <2>1, OtherStep DEF Reconcile
<1>4. ASSUME NEW k \in Keys, NEW S \in SUBSET Artifacts, Apply(k, S)
      PROVE  Inv' /\ Stands
  <2>1. /\ Applicable(k, S) /\ Accept(k, S)
        /\ UNCHANGED <<job, attempts, expired, admin, request, crashes, calls, granted>>
    BY <1>4 DEF Apply
  <2>2. CanonKept /\ \A q \in Keys : draft'[q].state # "none" <=> draft[q].state # "none"
    BY <2>1, AcceptKeeps
  <2>3. JobsKept
    BY <1>1, <2>1, <2>2, JobsUntouched
  <2> QED BY <1>1, <2>1, <2>2, <2>3, OtherStep
<1>5. CASE ChangeAdministration
  <2>1. admin' \in 0..MaxChanges
    BY <1>1, <1>5, CandidatesAssumption DEF ChangeAdministration
  <2>2. JobsKept /\ CanonKept
    BY <1>1, <1>5, JobsUntouched, CanonStays DEF ChangeAdministration
  <2> QED BY <1>1, <1>5, <2>1, <2>2, OtherStep DEF ChangeAdministration
<1>6. CASE UNCHANGED vars
  <2>1. JobsKept /\ CanonKept
    BY <1>1, <1>6, JobsUntouched, CanonStays DEF vars
  <2> QED BY <1>1, <1>6, <2>1, OtherStep DEF vars
<1> QED BY <1>2, <1>3, <1>4, <1>5, <1>6

LEMMA CrashKeeps ==
    ASSUME Inv, NEW R, Crash(R)
    PROVE  Inv' /\ Stands
<1>1. /\ UNCHANGED <<job, attempts, expired, draft, accepted, content, admin, calls, granted>>
      /\ crashes' = crashes + 1 /\ crashes < MaxCrashes
      /\ request' = [r \in Requests |-> IF r \in R THEN Idle ELSE request[r]]
  BY DEF Crash
<1>2. request' \in [Requests -> RequestType]
  <2>1. request \in [Requests -> RequestType]
    BY Typed DEF Inv
  <2> QED BY <1>1, <2>1, IdleTyped
<1>3. JobsKept /\ CanonKept
  BY <1>1, JobsUntouched, CanonStays DEF Inv, TypeOK
<1>4. admin' \in 0..MaxChanges /\ crashes' \in 0..MaxCrashes
  BY <1>1, CandidatesAssumption DEF Inv, TypeOK
<1>5. Inv'
  BY <1>2, <1>3, <1>4, Together
<1>6. LateRequestsDisturbNothing
  BY <1>1, NothingDisturbed
<1> QED BY <1>3, <1>5, <1>6 DEF Stands, JobsKept, CanonKept

-----------------------------------------------------------------------------
(* The theorems.                                                           *)

LEMMA NextKeeps ==
    ASSUME Inv, [Next]_vars
    PROVE  Inv' /\ Stands
<1>1. CASE \E r \in Requests : Request(r)
  BY <1>1, RequestKeeps
<1>2. CASE \E R \in (SUBSET Requests) \ {{}} : Crash(R)
  BY <1>2, CrashKeeps
<1>3. CASE \/ \E k \in Keys : LeaseRunsOut(k) \/ Reconcile(k)
           \/ \E k \in Keys, S \in SUBSET Artifacts : Apply(k, S)
           \/ ChangeAdministration
           \/ UNCHANGED vars
  BY <1>3, OthersKeep
<1> QED BY <1>1, <1>2, <1>3 DEF Next

LEMMA InitInv == ASSUME Init PROVE Inv
<1> DEFINE none == [n \in Attempt |-> "none"]
           zero == [n \in Attempt |-> 0]
           fresh == [state |-> "none", attempt |-> 0]
<1>1. /\ job = [k \in Keys |-> fresh] /\ attempts = [k \in Keys |-> none] /\ expired = {}
      /\ draft = [k \in Keys |-> NoDraft] /\ accepted = Empty /\ content = <<>> /\ admin = 0
      /\ request = [r \in Requests |-> Idle] /\ crashes = 0
      /\ calls = [k \in Keys |-> zero] /\ granted = [k \in Keys |-> {}]
  BY DEF Init
<1>2. /\ fresh \in JobType /\ fresh.state = "none" /\ fresh.attempt = 0
      /\ none \in [Attempt -> Outcomes] /\ zero \in [Attempt -> Nat]
      /\ \A n \in Attempt : none[n] = "none" /\ zero[n] = 0
  BY CandidatesAssumption DEF JobType, Outcomes
<1>3. NoDraft \in DraftType /\ NoDraft.state = "none"
  BY EmptyTyped DEF NoDraft, DraftType
<1>4. 0 \in 0..MaxChanges /\ 0 \in 0..MaxCrashes
  BY CandidatesAssumption
<1> HIDE DEF none, zero, fresh
<1>5. TypeOK
  <2>1. /\ job \in [Keys -> JobType] /\ attempts \in [Keys -> [Attempt -> Outcomes]]
        /\ draft \in [Keys -> DraftType] /\ request \in [Requests -> RequestType]
        /\ calls \in [Keys -> [Attempt -> Nat]] /\ granted \in [Keys -> SUBSET Attempt]
    BY <1>1, <1>2, <1>3, IdleTyped
  <2>2. /\ expired \subseteq Keys /\ accepted \in Canon /\ content \in Seq(Keys)
        /\ admin \in 0..MaxChanges /\ crashes \in 0..MaxCrashes
    BY <1>1, <1>4, EmptyTyped
  <2> QED BY <2>1, <2>2, Typed
<1>6. \A k \in Keys : Account(k)
  <2> TAKE k \in Keys
  <2>1. job[k] = fresh /\ attempts[k] = none /\ calls[k] = zero /\ draft[k] = NoDraft
    BY <1>1
  <2>2. \A n \in Attempt : ~(n < 0) /\ n # 0
    BY CandidatesAssumption DEF Attempt
  <2> QED BY <1>2, <1>3, <2>1, <2>2 DEF Account
<1>7. InOrder /\ CanonIsClosed
  BY <1>1 DEF InOrder, CanonIsClosed, Empty
<1> QED BY <1>5, <1>6, <1>7 DEF Inv

LEMMA InvImplies ==
    ASSUME Inv
    PROVE  DraftsAreSound
<1>1. /\ TypeOK /\ CanonIsClosed /\ InOrder
      /\ \A k \in Keys : Account(k) /\ job[k].attempt \in 0..MaxAttempts
      /\ \A n \in Attempt : n \in Nat \ {0} /\ n <= MaxAttempts
  <2>1. TypeOK /\ CanonIsClosed /\ InOrder /\ \A k \in Keys : Account(k)
    BY DEF Inv
  <2>2. \A k \in Keys : job[k].attempt \in 0..MaxAttempts
    BY <2>1 DEF TypeOK
  <2>3. \A n \in Attempt : n \in Nat \ {0} /\ n <= MaxAttempts
    BY CandidatesAssumption DEF Attempt
  <2> QED BY <2>1, <2>2, <2>3
<1>2. PaidOnAcknowledgement
  <2>1. ASSUME NEW k \in Keys, NEW n \in Attempt, calls[k][n] > 0, n > 1
        PROVE  n - 1 \in granted[k] /\ attempts[k][n - 1] \notin {"none", "open"}
    <3>1. ~(n > job[k].attempt)
      BY <1>1, <2>1 DEF Account
    <3>2. n - 1 < job[k].attempt /\ n - 1 \in Attempt
      BY <1>1, <2>1, <3>1, CandidatesAssumption DEF Attempt
    <3> QED BY <1>1, <3>2 DEF Account, Recorded
  <2> QED BY <1>1, <2>1 DEF PaidOnAcknowledgement, Account
<1>3. DraftOfOneAttempt
  <2>1. ASSUME NEW k \in Keys, NEW n \in Attempt
        PROVE  attempts[k][n] = "ok" <=> job[k].state = "succeeded" /\ n = job[k].attempt
    <3>1. job[k].state \in {"none", "running", "succeeded", "failed"}
      BY <1>1 DEF TypeOK
    <3>2. n < job[k].attempt \/ n = job[k].attempt \/ n > job[k].attempt
      BY <1>1
    <3>3. job[k].state = "none" => n > job[k].attempt
      BY <1>1 DEF Account
    <3> QED BY <1>1, <3>1, <3>2, <3>3 DEF Account, Recorded
  <2> QED BY <1>1, <2>1 DEF DraftOfOneAttempt, Account
<1>4. NoDraftOverAnother
  <2>1. ASSUME NEW i \in 1..Len(content), NEW j \in 1..Len(content), i # j
        PROVE  /\ content[i] # content[j]
               /\ draft[content[i]].base # draft[content[j]].base
    <3>1. draft[content[i]].base = i - 1 /\ draft[content[j]].base = j - 1 /\ i - 1 # j - 1
      BY <1>1, <2>1 DEF InOrder
    <3> QED BY <3>1
  <2> QED BY <2>1 DEF NoDraftOverAnother
<1> QED BY <1>1, <1>2, <1>3, <1>4 DEF DraftsAreSound

\* Whatever clients retry, however late answers arrive and wherever processes
\* stop: each acknowledged attempt sends one call, a draft is the answer of the
\* attempt that held its job to the end, no two applied drafts were made from
\* one canon, and the canon is closed under its references.
THEOREM DraftsSound == Spec => []DraftsAreSound
<1>1. Init => Inv
  BY InitInv
<1>2. Inv /\ [Next]_vars => Inv'
  BY NextKeeps
<1>3. Inv => DraftsAreSound
  BY InvImplies
<1> QED BY <1>1, <1>2, <1>3, PTL DEF Spec

\* No step rewrites a recorded outcome or an accepted artifact, and a request
\* whose attempt another one took over changes no row.
THEOREM RecordsKept == Spec => RecordsStand
<1>1. Init => Inv
  BY InitInv
<1>2. Inv /\ [Next]_vars => Inv'
  BY NextKeeps
<1>3. Inv /\ [Next]_vars =>
        [OutcomesAreFinal /\ LateRequestsDisturbNothing /\ CanonOnlyGrows]_vars
  BY NextKeeps DEF Stands
<1> QED BY <1>1, <1>2, <1>3, PTL DEF Spec, RecordsStand
=============================================================================
