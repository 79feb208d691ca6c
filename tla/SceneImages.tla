---------------------------- MODULE SceneImages ----------------------------
(***************************************************************************)
(* The scene-image sidecar (server/src/image/service.ts): a queue of image *)
(* jobs in a database of its own, one worker whose ticks send them to a    *)
(* shared image service, follow the accepted ones and store their images,  *)
(* a bounded shelf of images from which a DM publishes, and a retention    *)
(* rule that runs inside every request while a tick is waiting.            *)
(*                                                                         *)
(* One process owns the sidecar (an exclusive lock), so what is concurrent *)
(* is a tick suspended at an await, the requests that run meanwhile, the   *)
(* image service, and a crash.  Job `j' is the j-th row ever inserted; a   *)
(* picture stands for one cache key (prompt, seed, steps, guidance).       *)
(***************************************************************************)
EXTENDS Naturals, Sequences, FiniteSets

CONSTANTS
  Requests,     \* idempotency keys of generate requests
  Pictures,     \* cache keys
  Ask,          \* Ask[r]: what r asks for: [pictures, auto]
  Scenes,       \* scenes a DM publishes an image for
  None,
  MaxPerTick,   \* worker.maxPerTick
  HistoryLimit, \* worker.historyLimit
  AssetLimit,   \* worker.assetLimit, every image counted as one
  AutoLimit,    \* autoPerSessionLimit of the campaign's settings
  MaxJobs, MaxAssets, MaxCrashes   \* bounds of the model

ASSUME AskAssumption ==
  Ask \in [Requests -> [pictures : Seq(Pictures) \ {<<>>}, auto : BOOLEAN]]
ASSUME BoundsAssumption ==
  MaxPerTick \in Nat /\ MaxJobs \in Nat /\ MaxAssets \in Nat /\ MaxCrashes \in Nat

VARIABLES
  jobs,       \* rows of scene_image_jobs, in the order of their creation
  receipts,   \* receipts[r]: the job of r's receipt, or None
  shelf,      \* rows of scene_image_assets
  made,       \* images ever inserted: the source of asset ids
  published,  \* scene_image_selections: the asset of each scene, or None
  worker,     \* the tick in progress
  service,    \* the image service's own jobs, in the order it took them
  cut,        \* jobs whose submission a crash interrupted
  crashes

vars == <<jobs, receipts, shelf, made, published, worker, service,
          cut, crashes>>

Settled == {"done", "failed", "cancelled", "uncertain"}
Terminal == {"done", "failed", "cancelled"}
Tracked == {"submitted"}                      \* `submitted' and `running'

JobIds == 1..Len(jobs)
PicturesOf(j) == Ask[jobs[j].request].pictures
InState(J, S) == {j \in 1..Len(J) : J[j].status \in S}

Idle == [phase |-> "idle", job |-> 0, todo |-> <<>>, left |-> 0,
         poll |-> <<>>, next |-> 0, first |-> None, taken |-> <<>>]
At(phase, j, todo, left) ==
  [Idle EXCEPT !.phase = phase, !.job = j, !.todo = todo, !.left = left]

Init ==
  /\ jobs = <<>> /\ shelf = {} /\ made = 0
  /\ receipts = [r \in Requests |-> None]
  /\ published = [s \in Scenes |-> None]
  /\ worker = Idle /\ service = <<>>
  /\ cut = {} /\ crashes = 0

(***************************************************************************)
(* Retention, run inside every request for an image.                       *)
(***************************************************************************)
\* Mutation: retention takes the published image as well.
EvictableAny == shelf

\* What pruneAssets may evict: never a published image.  The choice among
\* the others is left open: it follows timestamps taken before an await.
Evictable == {a \in shelf : a.id \notin {published[s] : s \in Scenes}}

Evicted(E) ==
  /\ E \subseteq Evictable
  /\ \/ Cardinality(shelf \ E) = AssetLimit
     \/ E = {} /\ Cardinality(shelf) < AssetLimit
     \/ E = Evictable /\ Cardinality(shelf \ E) > AssetLimit

\* The newest settled rows that pruneJobs keeps.
Allowance ==
  LET open == Cardinality(InState(jobs, {"queued"} \cup Tracked))
  IN  IF open < HistoryLimit THEN HistoryLimit - open ELSE 0

Forgotten ==
  {j \in InState(jobs, Settled) :
     Cardinality({k \in InState(jobs, Settled) : k > j}) >= Allowance}

\* Mutation: Eviction leaves the row's reference.
UnlinkedNot(job, E) == job

Unlinked(job, E) ==
  IF job.asset \in {a.id : a \in E} THEN [job EXCEPT !.asset = None] ELSE job

Pruned(E) ==
  [j \in JobIds |->
     IF j \in Forgotten THEN [Unlinked(jobs[j], E) EXCEPT !.status = "pruned"]
                        ELSE Unlinked(jobs[j], E)]

\* pruneReceipts: the receipts of the first n jobs are older than a day.
KeptReceipts(n) ==
  [r \in Requests |-> IF receipts[r] \in 1..n THEN None ELSE receipts[r]]

(***************************************************************************)
(* A request for an image.  A DM may change the settings between any two,  *)
(* so that each request may also be refused.                               *)
(***************************************************************************)
\* usage: rows of the session that count against the automatic limit.
Counted(J) == InState(J, {"queued", "done"} \cup Tracked)

Admits(r, J) ==
  Ask[r].auto => Cardinality(Counted(J)) < AutoLimit

Stored(P, S) == \A k \in DOMAIN P : \E a \in S : a.picture = P[k]
AssetOf(p, S) == (CHOOSE a \in S : a.picture = p).id

NewJob(r, S) ==
  LET P == Ask[r].pictures
  IN  [request |-> r, ids |-> <<>>,
       status |-> IF Stored(P, S) THEN "done" ELSE "queued",
       asset |-> IF Stored(P, S) THEN AssetOf(P[1], S) ELSE None]

\* enqueue: prune, check the settings and limits, then insert the row, link
\* the stored images if there are all of them, and store the receipt.
Enqueue(r) ==
  /\ receipts[r] = None
  /\ Len(jobs) < MaxJobs
  /\ \E E \in SUBSET shelf :
       /\ Evicted(E)
       /\ Admits(r, Pruned(E))
       /\ shelf' = shelf \ E
       /\ jobs' = Append(Pruned(E), NewJob(r, shelf \ E))
  /\ \E n \in 0..Len(jobs) :
       receipts' = [KeptReceipts(n) EXCEPT ![r] = Len(jobs) + 1]
  /\ UNCHANGED <<made, published, worker, service, cut, crashes>>

\* A refused request has pruned already and leaves no receipt.
EnqueueRefused ==
  /\ \E r \in Requests : receipts[r] = None
  /\ \E E \in SUBSET shelf :
       /\ Evicted(E)
       /\ shelf' = shelf \ E
       /\ jobs' = Pruned(E)
  /\ \E n \in 0..Len(jobs) : receipts' = KeptReceipts(n)
  /\ UNCHANGED <<made, published, worker, service, cut, crashes>>

\* The row, the link to the stored images and the receipt are three writes: a
\* crash can fall before or after the link.
EnqueueCut(r) ==
  /\ receipts[r] = None
  /\ Len(jobs) < MaxJobs /\ crashes < MaxCrashes
  /\ \E E \in SUBSET shelf :
       /\ Evicted(E)
       /\ Admits(r, Pruned(E))
       /\ shelf' = shelf \ E
       /\ \E job \in {[NewJob(r, {}) EXCEPT !.status = "queued"], NewJob(r, shelf \ E)} :
            jobs' = Append(Pruned(E), job)
  /\ \E n \in 0..Len(jobs) : receipts' = KeptReceipts(n)
  /\ worker' = Idle /\ crashes' = crashes + 1
  /\ cut' = IF worker.phase = "sending" THEN cut \cup {worker.job} ELSE cut
  /\ UNCHANGED <<made, published, service>>

\* selectImage: a DM publishes a stored image for a scene.
SelectImage(s) ==
  /\ \E a \in shelf : published' = [published EXCEPT ![s] = a.id]
  /\ UNCHANGED <<jobs, receipts, shelf, made, worker, service, cut,
                 crashes>>

(***************************************************************************)
(* A tick.  Between two awaits it runs without interruption: `Proceed' is  *)
(* where it stands after the row it was working on.                        *)
(***************************************************************************)
\* Mutation: The queue takes ambiguous jobs up again.
QueueAgain(J) == InState(J, {"queued", "uncertain"})

Queue(J) == InState(J, {"queued"})
Oldest(Q) == CHOOSE j \in Q : \A k \in Q : j <= k

\* Mutation: A tick submits while an accepted job is still open.
MaySubmitMore(J, left) == left > 0 /\ Queue(J) # {}

\* Mutation: An ambiguous job blocks the queue as an open one does.
MaySubmitUnambiguous(J, left) ==
  InState(J, Tracked \cup {"uncertain"}) = {} /\ left > 0 /\ Queue(J) # {}

\* Mutation: the number of submissions of a tick is not bounded.
MaySubmitAny(J, left) == InState(J, Tracked) = {} /\ Queue(J) # {}

MaySubmit(J, left) == InState(J, Tracked) = {} /\ left > 0 /\ Queue(J) # {}

Proceed(J, todo, left) ==
  IF todo # <<>> THEN At("polling", Head(todo), Tail(todo), left)
  ELSE IF MaySubmit(J, left) THEN At("sending", Oldest(Queue(J)), <<>>, left - 1)
  ELSE Idle

\* The rows of a set in the order of their creation.
InOrder(S) ==
  CHOOSE q \in [1..Cardinality(S) -> S] :
    \A i, k \in DOMAIN q : i < k => q[i] < q[k]

Tick ==
  /\ worker.phase = "idle"
  /\ worker' = Proceed(jobs, InOrder(InState(jobs, Tracked)), MaxPerTick)
  /\ worker'.phase # "idle"
  /\ UNCHANGED <<jobs, receipts, shelf, made, published, service, cut,
                 crashes>>

\* The tick leaves its row as `job' and goes on.
Leave(job, left) ==
  LET J == [jobs EXCEPT ![worker.job] = job]
  IN  /\ jobs' = J
      /\ worker' = Proceed(J, worker.todo, left)

(***************************************************************************)
(* submit: the call to the image service, which may take the work whether  *)
(* or not its answer arrives.                                              *)
(***************************************************************************)
ServiceTakes ==
  /\ worker.phase = "sending" /\ worker.taken = <<>>
  /\ LET n == Len(PicturesOf(worker.job))
         new == [k \in 1..n |-> [job |-> worker.job, status |-> "pending"]]
     IN  /\ service' = service \o new
         /\ worker' = [worker EXCEPT !.taken = [k \in 1..n |-> Len(service) + k]]
  /\ UNCHANGED <<jobs, receipts, shelf, made, published, cut, crashes>>

\* Mutation: An ambiguous answer leaves the job queued.
AnsweredAgain(outcome) ==
  IF outcome = "accepted"
  THEN [jobs[worker.job] EXCEPT !.status = "submitted", !.ids = worker.taken]
  ELSE IF outcome = "rejected" THEN [jobs[worker.job] EXCEPT !.status = "failed"]
  ELSE jobs[worker.job]

Answered(outcome) ==
  LET row == jobs[worker.job]
  IN  CASE outcome = "accepted" -> [row EXCEPT !.status = "submitted", !.ids = worker.taken]
        [] outcome = "uncertain" -> [row EXCEPT !.status = "uncertain"]
        [] outcome = "rejected" -> [row EXCEPT !.status = "failed"]
        [] outcome = "busy" -> row

\* An acceptance or a rate limit ends the tick, any other answer does not.
Submitted(outcome) ==
  /\ worker.phase = "sending"
  /\ Leave(Answered(outcome),
           IF outcome \in {"accepted", "busy"} THEN 0 ELSE worker.left)
  /\ UNCHANGED <<receipts, shelf, made, published, service, cut, crashes>>

Accepted == worker.taken # <<>> /\ Submitted("accepted")
Uncertain == Submitted("uncertain")
\* A definite error, or a batch answered with the wrong number of ids.
Rejected == /\ worker.taken # <<>> => Len(worker.taken) > 1
            /\ Submitted("rejected")
RateLimited == worker.taken = <<>> /\ Submitted("busy")

(***************************************************************************)
(* reconcile: poll, then download what is done and not stored.             *)
(***************************************************************************)
Done(w) == {k \in DOMAIN w.poll : w.poll[k] = "done"}

\* Mutation: A part is downloaded whether or not it is stored.
MissingAnyway(w, S) == {k \in Done(w) : k >= w.next}

\* Going on from part w.next: the parts stored already are kept, the first
\* one that is not is downloaded; after the last the row is settled.
Missing(w, S) ==
  {k \in Done(w) : k >= w.next /\ ~\E a \in S : a.picture = PicturesOf(w.job)[k]}

First(w, S) ==
  LET known == {k \in Done(w) : k >= w.next /\ \A m \in Missing(w, S) : k < m}
  IN  IF w.first # None \/ known = {} THEN w.first
      ELSE AssetOf(PicturesOf(w.job)[Oldest(known)], S)

\* The order of the code's tests: any part not terminal, any failed, any
\* cancelled, all done.
Outcome(w, first) ==
  LET row == jobs[w.job]
      seen == {w.poll[k] : k \in DOMAIN w.poll}
  IN  IF ~(seen \subseteq Terminal) THEN row
      ELSE IF "failed" \in seen THEN
        [row EXCEPT !.status = "failed", !.asset = first]
      ELSE IF "cancelled" \in seen THEN
        [row EXCEPT !.status = "cancelled", !.asset = first]
      ELSE [row EXCEPT !.status = "done", !.asset = first]

Walk(w, S) ==
  IF Missing(w, S) # {}
  THEN /\ worker' = [w EXCEPT !.phase = "downloading", !.first = First(w, S),
                              !.next = Oldest(Missing(w, S))]
       /\ UNCHANGED jobs
  ELSE Leave(Outcome(w, First(w, S)), w.left)

Polled ==
  /\ worker.phase = "polling"
  /\ LET ids == jobs[worker.job].ids
         poll == [k \in DOMAIN ids |-> service[ids[k]].status]
     IN  IF \E k \in DOMAIN poll : poll[k] = "gone"
         THEN Leave([jobs[worker.job] EXCEPT !.status = "uncertain"], worker.left)
         ELSE Walk([worker EXCEPT !.poll = poll, !.next = 1], shelf)
  /\ UNCHANGED <<receipts, shelf, made, published, service, cut, crashes>>

PollFailed ==
  /\ worker.phase = "polling"
  /\ Leave(jobs[worker.job], worker.left)
  /\ UNCHANGED <<receipts, shelf, made, published, service, cut, crashes>>

Downloaded ==
  /\ worker.phase = "downloading"
  /\ made < MaxAssets
  /\ LET new == [id |-> made + 1, picture |-> PicturesOf(worker.job)[worker.next]]
         S == shelf \cup {new}
     IN  /\ shelf' = S
         /\ made' = made + 1
         /\ Walk([worker EXCEPT !.next = worker.next + 1,
                    !.first = IF worker.first = None THEN new.id ELSE worker.first], S)
  /\ UNCHANGED <<receipts, published, service, cut, crashes>>

\* No image, no download or no PNG: the row fails, whatever its siblings do.
DownloadFailed ==
  /\ worker.phase = "downloading"
  /\ Leave([jobs[worker.job] EXCEPT !.status = "failed"], worker.left)
  /\ UNCHANGED <<receipts, shelf, made, published, service, cut, crashes>>

(***************************************************************************)
(* The image service, and a crash of the process.                          *)
(***************************************************************************)
\* Only the entries whose status somebody will read are followed.
Followed(i) == \E j \in InState(jobs, Tracked) : \E k \in DOMAIN jobs[j].ids : jobs[j].ids[k] = i

ServiceSettles(i) ==
  /\ service[i].status = "pending" /\ Followed(i)
  /\ \E outcome \in Terminal :
       service' = [service EXCEPT ![i].status = outcome]
  /\ UNCHANGED <<jobs, receipts, shelf, made, published, worker, cut,
                 crashes>>

\* Its history is bounded: an old job is no longer listed.
ServiceForgets(i) ==
  /\ service[i].status \in Terminal /\ Followed(i)
  /\ service' = [service EXCEPT ![i].status = "gone"]
  /\ UNCHANGED <<jobs, receipts, shelf, made, published, worker, cut,
                 crashes>>

Crash ==
  /\ worker.phase # "idle" /\ crashes < MaxCrashes
  /\ worker' = Idle /\ crashes' = crashes + 1
  /\ cut' = IF worker.phase = "sending" THEN cut \cup {worker.job} ELSE cut
  /\ UNCHANGED <<jobs, receipts, shelf, made, published, service>>

Next ==
  \/ \E r \in Requests : Enqueue(r) \/ EnqueueCut(r)
  \/ EnqueueRefused
  \/ \E s \in Scenes : SelectImage(s)
  \/ Tick
  \/ ServiceTakes \/ Accepted \/ Uncertain \/ Rejected \/ RateLimited
  \/ Polled \/ PollFailed \/ Downloaded \/ DownloadFailed
  \/ \E i \in DOMAIN service : ServiceSettles(i) \/ ServiceForgets(i)
  \/ Crash

Spec == Init /\ [][Next]_vars

\* A tick is in progress, or would find something to do.
Runs ==
  worker.phase # "idle" \/ InState(jobs, Tracked) # {} \/ MaySubmit(jobs, MaxPerTick)

Pending == \E i \in DOMAIN service : service[i].status = "pending" /\ Followed(i)

\* A call is made, or the status of a job is read whose parts are all settled.
Answerable ==
  \/ worker.phase = "sending"
  \/ worker.phase = "polling" /\ \A k \in DOMAIN jobs[worker.job].ids :
        service[jobs[worker.job].ids[k]].status # "pending"

\* It gets an answer that decides something.
Decides ==
  Answerable /\ (jobs'[worker.job] # jobs[worker.job] \/ worker'.phase = "downloading")

\* The timer keeps ticking and calls end, the service finishes what it took,
\* and it is neither busy nor unreadable for ever.
Fairness ==
  /\ []<>~Runs \/ []<><<worker' # worker>>_worker
  /\ []<>~Pending \/ []<><<service' # service>>_service
  /\ <>[]~Answerable \/ []<><<Decides>>_vars

FairSpec == Spec /\ Fairness

(***************************************************************************)
(* Properties                                                              *)
(***************************************************************************)
Job == [request : Requests,
        status : {"queued", "pruned"} \cup Tracked \cup Settled,
        ids : Seq(Nat), asset : {None} \cup 1..MaxAssets]

\* The state has the types the sidecar's schema gives it.
TypeOK ==
  /\ jobs \in Seq(Job) /\ Len(jobs) <= MaxJobs
  /\ receipts \in [Requests -> {None} \cup 1..MaxJobs]
  /\ shelf \subseteq [id : 1..made, picture : Pictures]
  /\ made \in 0..MaxAssets
  /\ published \in [Scenes -> {None} \cup 1..MaxAssets]
  /\ worker.phase \in {"idle", "polling", "downloading", "sending"}
  /\ worker.phase # "idle" => worker.job \in JobIds
  /\ worker.left \in 0..MaxPerTick
  /\ \A i \in DOMAIN service :
       service[i] \in [job : 1..MaxJobs, status : {"pending", "gone"} \cup Terminal]
  /\ cut \subseteq JobIds /\ crashes \in 0..MaxCrashes

\* What players are shown exists: retention never evicts a published image,
\* whatever was published while a request pruned or a tick waited
\* (pruneAssets, readAsset).
PublishedIsStored ==
  \A s \in Scenes : published[s] # None => \E a \in shelf : a.id = published[s]

\* A single-image job that names an image names one that can be read: eviction
\* unlinks what it removes.  (A batch waits between its parts, and a request
\* may evict the first part before the last one is settled.)
SingleImageIsStored ==
  \A j \in JobIds : (jobs[j].asset # None /\ Len(PicturesOf(j)) = 1) =>
    \E a \in shelf : a.id = jobs[j].asset

\* An insert never meets a stored image of the same cache key (the table's
\* UNIQUE constraint would abort the tick), after evictions, partial batches
\* and restarts included.
StoredOnce == \A a, b \in shelf : a.picture = b.picture => a = b

\* At most one submission is tracked at a time, across ticks, several
\* submissions of one tick and restarts (tick).
OneTracked == Cardinality(InState(jobs, Tracked)) <= 1

\* How often the image service has taken a job's work.
Takes(j) ==
  LET mine == {i \in DOMAIN service : service[i].job = j}
  IN  Cardinality(mine) \div Len(PicturesOf(j))

\* Work the service took is sent a second time only when a crash interrupted
\* its submission; an ambiguous or unreadable answer never is (submit).
SubmittedOnce == \A j \in JobIds : Takes(j) > 1 => j \in cut

\* A settled job stays as it was settled until its row is forgotten, whatever
\* a suspended tick still writes.
SettledIsFinal ==
  [][\A j \in JobIds : jobs[j].status \in Settled =>
       jobs'[j].status \in {jobs[j].status, "pruned"}]_vars

\* The queue drains: no queued or accepted job is left behind for ever by a
\* busy service, unreadable statuses, failures of others or restarts.  Only
\* so many jobs are ever made, so that none is left again and again means that
\* each one is settled.
QueueDrains == []<>(InState(jobs, {"queued"} \cup Tracked) = {})

\* What requests, a DM's choices and a tick suspended in a download must leave
\* true of the queue and of the stored images.
QueueIsSound ==
  /\ TypeOK
  /\ PublishedIsStored /\ SingleImageIsStored /\ StoredOnce
  /\ OneTracked /\ SubmittedOnce
=============================================================================
