-------------------------- MODULE SceneImagesProofs --------------------------
(***************************************************************************)
(* The safety of SceneImages for every set of requests, every batch, every *)
(* limit of the queue and of the shelf and every number of crashes.        *)
(*                                                                         *)
(* A tick is suspended at an await while requests evict images and forget  *)
(* rows under it.  The inductive invariant Inv says what is still true of  *)
(* the row it works on when it goes on: a row it sends is queued and no    *)
(* other is followed, a row it polls is followed, and the picture it       *)
(* downloads is not on the shelf (Holds).  Sent counts what the service    *)
(* has been given for each row.                                            *)
(*                                                                         *)
(* A step has one of four shapes: rows age under a request or a crash, the *)
(* tick leaves its row, it goes on to a download, or one party moves       *)
(* alone.  There is one lemma per shape and one per action.                *)
(***************************************************************************)
EXTENDS SceneImages, FiniteSetTheorems, SequenceTheorems, WellFoundedInduction, TLAPS

Working == {"polling", "downloading", "sending"}

WorkerType ==
  [phase : {"idle"} \cup Working, job : Nat, todo : {<<>>}, left : 0..MaxPerTick,
   poll : Seq({"pending", "gone"} \cup Terminal), next : Nat,
   first : {None} \cup 1..MaxAssets, taken : Seq(Nat)]

EntryType == [job : 1..MaxJobs, status : {"pending", "gone"} \cup Terminal]

\* The state has its types, down to the fields of the tick; a tick never has more
\* than the row it works on.
Typed ==
  /\ TypeOK
  /\ worker \in WorkerType /\ service \in Seq(EntryType)
  /\ \A i \in DOMAIN service : service[i].job \in JobIds

\* What the tick knows of the row it works on.
Holds ==
  /\ worker.phase = "sending" =>
       /\ jobs[worker.job].status = "queued" /\ InState(jobs, Tracked) = {}
       /\ worker.taken # <<>> =>
            /\ Len(worker.taken) = Len(PicturesOf(worker.job))
            /\ \A k \in DOMAIN worker.taken : worker.taken[k] \in DOMAIN service
  /\ worker.phase \in {"polling", "downloading"} => jobs[worker.job].status \in Tracked
  /\ worker.phase = "polling" => worker.first = None
  /\ worker.phase = "downloading" =>
       /\ Len(worker.poll) = Len(PicturesOf(worker.job))
       /\ worker.next \in DOMAIN worker.poll
       /\ \A a \in shelf : a.picture # PicturesOf(worker.job)[worker.next]
       /\ Len(PicturesOf(worker.job)) = 1 => worker.first = None

\* A row is followed through the entries of all its pictures, one row at a time.
Follows ==
  /\ \A j \in InState(jobs, Tracked) :
       /\ Len(jobs[j].ids) = Len(PicturesOf(j))
       /\ \A k \in DOMAIN jobs[j].ids : jobs[j].ids[k] \in DOMAIN service
  /\ \A i, j \in InState(jobs, Tracked) : i = j

Mine(j) == {i \in DOMAIN service : service[i].job = j}

Underway(j) == worker.phase = "sending" /\ worker.job = j /\ worker.taken # <<>>

\* A queued row has not been sent, unless its answer is awaited or a crash
\* interrupted it.
Sent ==
  \A j \in JobIds \ cut :
    /\ IsFiniteSet(Mine(j)) /\ Cardinality(Mine(j)) <= Len(PicturesOf(j))
    /\ jobs[j].status = "queued" => Mine(j) = {} \/ Underway(j)

Inv ==
  /\ Typed /\ Holds /\ Follows /\ Sent
  /\ PublishedIsStored /\ SingleImageIsStored /\ StoredOnce

\* What SettledIsFinal says of one step.
Final ==
  \A j \in JobIds : jobs[j].status \in Settled => jobs'[j].status \in {jobs[j].status, "pruned"}

-----------------------------------------------------------------------------
(* The operators of the model.                                             *)

\* A set of numbers that is not empty has an oldest member.
LEMMA OldestIs ==
  ASSUME NEW Q \in SUBSET Nat, Q # {}
  PROVE  Oldest(Q) \in Q /\ \A k \in Q : Oldest(Q) <= k
<1>1. PICK x \in Q : \A y \in Q : <<y, x>> \notin OpToRel(<, Nat)
  BY NatLessThanWellFounded, WFMin
<1>2. \A y \in Q : ~(y < x)
  BY <1>1 DEF OpToRel
<1>3. \E i \in Q : \A k \in Q : i <= k
  BY <1>2
<1> QED BY <1>3 DEF Oldest

\* A quotient by the divisor or by more than the dividend.
LEMMA AtMostOnce ==
  ASSUME NEW n \in Nat \ {0}, NEW c \in 0..n
  PROVE  ~(c \div n > 1)
  OBVIOUS

\* What a request asks for is a picture or more.
LEMMA AskTyped ==
  ASSUME NEW r \in Requests
  PROVE  /\ Ask[r].pictures \in Seq(Pictures) /\ Len(Ask[r].pictures) \in Nat \ {0}
         /\ \A k \in 1..Len(Ask[r].pictures) : Ask[r].pictures[k] \in Pictures
<1>1. Ask[r].pictures \in Seq(Pictures) /\ Ask[r].pictures # <<>>
  BY AskAssumption
<1>2. Len(Ask[r].pictures) \in Nat /\ Len(Ask[r].pictures) # 0
  BY <1>1, EmptySeq
<1> QED BY <1>1, <1>2, ElementOfSeq

\* What the types say of a row.
LEMMA RowTyped ==
  ASSUME TypeOK, NEW j \in JobIds
  PROVE  /\ Len(jobs) \in Nat /\ j \in Nat /\ j \in 1..MaxJobs /\ jobs[j] \in Job
         /\ PicturesOf(j) \in Seq(Pictures) /\ Len(PicturesOf(j)) \in Nat \ {0}
         /\ DOMAIN PicturesOf(j) = 1..Len(PicturesOf(j))
         /\ \A k \in 1..Len(PicturesOf(j)) : PicturesOf(j)[k] \in Pictures
<1>1. jobs \in Seq(Job) /\ Len(jobs) <= MaxJobs /\ Len(jobs) \in Nat /\ MaxJobs \in Nat
  BY BoundsAssumption DEF TypeOK
<1>2. jobs[j] \in Job
  BY <1>1, ElementOfSeq DEF JobIds
<1>3. j \in Nat /\ j \in 1..MaxJobs
  BY <1>1 DEF JobIds
<1>4. jobs[j].request \in Requests
  BY <1>2 DEF Job
<1>5. PicturesOf(j) = Ask[jobs[j].request].pictures
  BY DEF PicturesOf
<1> HIDE DEF PicturesOf
<1> QED BY <1>1, <1>2, <1>3, <1>4, <1>5, AskTyped

\* Where a tick that has no row left stands: it is over, or it sends a queued row
\* while none is followed.
LEMMA ProceedIs ==
  ASSUME NEW J \in Seq(Job), NEW left \in 0..MaxPerTick
  PROVE  LET w == Proceed(J, <<>>, left)
         IN  /\ w \in WorkerType /\ w.phase \in {"idle", "sending"}
             /\ w.taken = <<>> /\ w.first = None
             /\ w.phase = "sending" =>
                  /\ w.job \in 1..Len(J) /\ J[w.job].status = "queued"
                  /\ InState(J, Tracked) = {} /\ left > 0
<1>1. Len(J) \in Nat /\ MaxPerTick \in Nat
  BY BoundsAssumption
<1>2. /\ Idle \in WorkerType /\ Idle.phase = "idle" /\ Idle.taken = <<>> /\ Idle.first = None
  BY <1>1 DEF Idle, WorkerType
<1>3. CASE ~MaySubmit(J, left)
  BY <1>2, <1>3 DEF Proceed
<1>4. CASE MaySubmit(J, left)
  <2> DEFINE j == Oldest(Queue(J))
  <2>1. Queue(J) # {} /\ InState(J, Tracked) = {} /\ left > 0
    BY <1>4 DEF MaySubmit
  <2>2. j \in Queue(J)
    <3>1. Queue(J) \in SUBSET Nat
      BY <1>1 DEF Queue, InState
    <3> QED BY <2>1, <3>1, OldestIs
  <2>3. j \in 1..Len(J) /\ J[j].status = "queued" /\ j \in Nat
    BY <1>1, <2>2 DEF Queue, InState
  <2>4. Proceed(J, <<>>, left) = At("sending", j, <<>>, left - 1)
    BY <1>4 DEF Proceed
  <2> HIDE DEF j
  <2>5. left - 1 \in 0..MaxPerTick
    BY <1>1, <2>1
  <2>6. /\ At("sending", j, <<>>, left - 1) \in WorkerType
        /\ At("sending", j, <<>>, left - 1).phase = "sending"
        /\ At("sending", j, <<>>, left - 1).job = j
        /\ At("sending", j, <<>>, left - 1).taken = <<>>
        /\ At("sending", j, <<>>, left - 1).first = None
    BY <1>2, <2>3, <2>5 DEF At, Idle, WorkerType, Working
  <2> QED BY <2>1, <2>3, <2>4, <2>6
<1> QED BY <1>3, <1>4

\* A tick starts with the row that is followed, if there is one.
LEMMA InOrderIs ==
  ASSUME NEW S, NEW j, S = {} \/ S = {j}
  PROVE  InOrder(S) = IF S = {} THEN <<>> ELSE <<j>>
<1>1. CASE S = {}
  <2>1. Cardinality({}) = 0
    BY FS_EmptySet
  <2>2. <<>> \in [1..0 -> {}] /\ \A q \in [1..0 -> {}] : q = <<>>
    OBVIOUS
  <2>3. \A i, k \in DOMAIN <<>> : i < k => <<>>[i] < <<>>[k]
    OBVIOUS
  <2> QED BY <1>1, <2>1, <2>2, <2>3 DEF InOrder
<1>2. CASE S = {j}
  <2>1. Cardinality({j}) = 1 /\ S # {}
    BY <1>2, FS_Singleton
  <2>2. DOMAIN <<j>> = {1} /\ <<j>> \in [1..1 -> {j}]
    OBVIOUS
  <2>3. \A q \in [1..1 -> {j}] : q = <<j>>
    <3> SUFFICES ASSUME NEW q \in [1..1 -> {j}] PROVE q = <<j>>
      OBVIOUS
    <3>1. q \in Seq({j}) /\ Len(q) = 1 /\ q[1] = j
      <4>1. q \in Seq({j})
        BY SeqDef
      <4>2. Len(q) \in Nat /\ DOMAIN q = 1..Len(q) /\ DOMAIN q = 1..1
        BY <4>1, LenProperties
      <4>3. 1 \in 1..Len(q) /\ (Len(q) \in 1..Len(q) => Len(q) \in 1..1)
        BY <4>2
      <4> QED BY <4>1, <4>2, <4>3
    <3>2. <<j>> \in Seq({j}) /\ Len(<<j>>) = 1 /\ <<j>>[1] = j
      OBVIOUS
    <3> QED BY <3>1, <3>2, SeqEqual
  <2>4. \A i, k \in DOMAIN <<j>> : i < k => <<j>>[i] < <<j>>[k]
    BY <2>2
  <2> QED BY <1>2, <2>1, <2>2, <2>3, <2>4 DEF InOrder
<1> QED BY <1>1, <1>2

-----------------------------------------------------------------------------
(* The shapes of a step.                                                   *)

\* Rows age: a request prunes, evicts E and may append a row; a crash ends the
\* tick and may take the receipt of the row with it.
Ages(E) ==
  /\ E \subseteq Evictable /\ shelf' = shelf \ E
  /\ jobs' \in Seq(Job) /\ Len(jobs') <= MaxJobs /\ Len(jobs) <= Len(jobs')
  /\ \A j \in JobIds :
       /\ jobs'[j].request = jobs[j].request /\ jobs'[j].ids = jobs[j].ids
       /\ \/ jobs'[j].status = jobs[j].status
          \/ jobs[j].status \in Settled /\ jobs'[j].status = "pruned"
       /\ jobs'[j].asset # None =>
            jobs'[j].asset = jobs[j].asset /\ \A a \in E : a.id # jobs[j].asset
  /\ \A j \in JobIds' \ JobIds :
       /\ jobs'[j].status \in {"queued", "done"}
       /\ jobs'[j].asset # None => \E a \in shelf' : a.id = jobs'[j].asset
  /\ \/ UNCHANGED <<worker, cut>>
     \/ /\ worker' = Idle
        /\ cut' = IF worker.phase = "sending" THEN cut \cup {worker.job} ELSE cut
  /\ receipts' \in [Requests -> {None} \cup 1..MaxJobs] /\ crashes' \in 0..MaxCrashes
  /\ UNCHANGED <<made, published, service>>

\* Ageing keeps the invariant: no row is queued or followed that was not, and
\* what the tick works on is neither settled nor forgotten.
LEMMA AgesKeeps ==
  ASSUME Inv, NEW E, Ages(E)
  PROVE  Inv' /\ Final
<1>1. /\ Len(jobs) \in Nat /\ JobIds \subseteq JobIds'
      /\ \A j \in JobIds : PicturesOf(j)' = PicturesOf(j)
  <2>1. Len(jobs) \in Nat /\ Len(jobs') \in Nat /\ Len(jobs) <= Len(jobs')
    BY DEF Inv, Typed, TypeOK, Ages
  <2>2. \A j \in JobIds : PicturesOf(j)' = PicturesOf(j)
    BY DEF Ages, PicturesOf
  <2> QED BY <2>1, <2>2 DEF JobIds
<1>2. InState(jobs', Tracked) = InState(jobs, Tracked)
  <2>1. \A j \in JobIds : jobs'[j].status \in Tracked <=> jobs[j].status \in Tracked
    BY DEF Ages, Tracked, Settled
  <2>2. \A j \in JobIds' \ JobIds : jobs'[j].status \notin Tracked
    BY DEF Ages, Tracked
  <2> QED BY <1>1, <2>1, <2>2 DEF InState, JobIds
<1>3. \A j \in JobIds : jobs'[j].status = "queued" <=> jobs[j].status = "queued"
  BY DEF Ages, Settled
<1>4. Typed'
  <2>1. /\ jobs' \in Seq(Job) /\ Len(jobs') <= MaxJobs
        /\ receipts' \in [Requests -> {None} \cup 1..MaxJobs]
        /\ shelf' \subseteq [id : 1..made', picture : Pictures]
        /\ made' \in 0..MaxAssets
        /\ published' \in [Scenes -> {None} \cup 1..MaxAssets]
        /\ crashes' \in 0..MaxCrashes
    BY DEF Inv, Typed, TypeOK, Ages
  <2>2. /\ service' \in Seq(EntryType) /\ \A i \in DOMAIN service' : service'[i].job \in JobIds'
        /\ \A i \in DOMAIN service' :
             service'[i] \in [job : 1..MaxJobs, status : {"pending", "gone"} \cup Terminal]
    BY <1>1 DEF Inv, Typed, TypeOK, Ages
  <2>3. /\ worker' \in WorkerType /\ worker'.phase \in {"idle", "polling", "downloading", "sending"}
        /\ worker'.phase # "idle" => worker'.job \in JobIds'
        /\ worker'.left \in 0..MaxPerTick /\ cut' \subseteq JobIds'
    <3>1. CASE UNCHANGED <<worker, cut>>
      BY <1>1, <3>1 DEF Inv, Typed, TypeOK
    <3>2. CASE /\ worker' = Idle
               /\ cut' = IF worker.phase = "sending" THEN cut \cup {worker.job} ELSE cut
      <4>1. Idle \in WorkerType /\ Idle.phase = "idle" /\ Idle.left \in 0..MaxPerTick
        BY BoundsAssumption DEF Idle, WorkerType
      <4> QED BY <1>1, <3>2, <4>1 DEF Inv, Typed, TypeOK
    <3> QED BY <3>1, <3>2 DEF Ages
  <2> QED BY <2>1, <2>2, <2>3 DEF Typed, TypeOK
<1>5. worker' = worker \/ worker'.phase = "idle"
  BY DEF Ages, Idle
<1>6. worker.phase # "idle" => worker.job \in JobIds
  BY DEF Inv, Typed, TypeOK
<1>7. shelf' \subseteq shelf /\ service' = service
  BY DEF Ages
<1>8. Holds'
  <2>1. CASE worker'.phase = "idle"
    BY <2>1 DEF Holds
  <2>2. CASE worker' = worker /\ worker.phase = "sending"
    <3>1. PicturesOf(worker.job)' = PicturesOf(worker.job) /\ jobs'[worker.job].status = "queued"
      BY <1>1, <1>3, <1>6, <2>2 DEF Inv, Holds, PicturesOf
    <3> QED BY <1>2, <1>7, <2>2, <3>1 DEF Inv, Holds
  <2>3. CASE worker' = worker /\ worker.phase \in {"polling", "downloading"}
    <3>1. PicturesOf(worker.job)' = PicturesOf(worker.job)
      BY <1>1, <1>6, <2>3 DEF PicturesOf
    <3>2. jobs'[worker.job].status \in Tracked
      BY <1>6, <2>3 DEF Inv, Holds, Ages, Tracked, Settled
    <3> QED BY <1>7, <2>3, <3>1, <3>2 DEF Inv, Holds
  <2>4. worker'.phase \in {"idle", "polling", "downloading", "sending"}
    BY <1>4 DEF Typed, TypeOK
  <2> QED BY <1>5, <2>1, <2>2, <2>3, <2>4
<1>9. Follows'
  <2>1. \A j \in InState(jobs, Tracked) : j \in JobIds /\ jobs'[j].ids = jobs[j].ids
    BY DEF InState, JobIds, Ages
  <2> QED BY <1>1, <1>2, <1>7, <2>1 DEF Inv, Follows
<1>10. Sent'
  <2> SUFFICES ASSUME NEW j \in JobIds' \ cut'
               PROVE  /\ IsFiniteSet(Mine(j)') /\ Cardinality(Mine(j)') <= Len(PicturesOf(j)')
                      /\ jobs'[j].status = "queued" => Mine(j)' = {} \/ Underway(j)'
    BY DEF Sent
  <2>1. Mine(j)' = Mine(j)
    BY <1>7 DEF Mine
  <2>2. CASE j \in JobIds
    <3>1. j \notin cut /\ (Underway(j) => Underway(j)')
      BY DEF Ages, Underway
    <3> QED BY <1>1, <1>3, <2>1, <2>2, <3>1 DEF Inv, Sent
  <2>3. CASE j \notin JobIds
    <3>1. Mine(j) = {}
      BY <2>3 DEF Mine, Inv, Typed
    <3>2. Len(PicturesOf(j)') \in Nat
      <4>1. jobs'[j] \in Job
        BY ElementOfSeq DEF Ages, JobIds
      <4>2. jobs'[j].request \in Requests
        BY <4>1 DEF Job
      <4>3. PicturesOf(j)' = Ask[jobs'[j].request].pictures
        BY DEF PicturesOf
      <4> QED BY <4>2, <4>3, AskTyped
    <3>3. Cardinality({}) = 0 /\ IsFiniteSet({})
      BY FS_EmptySet
    <3> QED BY <2>1, <3>1, <3>2, <3>3
  <2> QED BY <2>2, <2>3
<1>11. PublishedIsStored' /\ StoredOnce'
  <2>1. \A s \in Scenes : \A a \in E : a.id # published[s]
    BY DEF Ages, Evictable
  <2> QED BY <2>1 DEF Ages, Inv, PublishedIsStored, StoredOnce
<1>12. SingleImageIsStored'
  <2> SUFFICES ASSUME NEW j \in JobIds', jobs'[j].asset # None, Len(PicturesOf(j)') = 1
               PROVE  \E a \in shelf' : a.id = jobs'[j].asset
    BY DEF SingleImageIsStored
  <2>1. CASE j \in JobIds
    BY <1>1, <2>1 DEF Ages, Inv, SingleImageIsStored
  <2>2. CASE j \notin JobIds
    BY <2>2 DEF Ages
  <2> QED BY <2>1, <2>2
<1>13. Final
  BY DEF Ages, Final
<1> QED BY <1>4, <1>8, <1>9, <1>10, <1>11, <1>12, <1>13 DEF Inv

\* The shelf may have grown by a picture it did not have.
ShelfGrows ==
  /\ shelf \subseteq shelf' /\ shelf' \subseteq [id : 1..made', picture : Pictures]
  /\ made' \in 0..MaxAssets /\ StoredOnce'
  /\ UNCHANGED <<receipts, published, service, cut, crashes>>

\* The tick leaves its row as `row', settled, accepted or as it was, and goes on.
Leaves(row, left) ==
  /\ worker.phase \in Working /\ left \in 0..MaxPerTick /\ ShelfGrows
  /\ jobs' = [jobs EXCEPT ![worker.job] = row] /\ worker' = Proceed(jobs', <<>>, left)
  /\ row \in Job /\ row.request = jobs[worker.job].request
  /\ \/ row = jobs[worker.job] /\ (worker.phase = "sending" => worker.taken = <<>>)
     \/ row.status \in Settled
     \/ /\ row.status = "submitted" /\ row.ids = worker.taken
        /\ worker.phase = "sending" /\ worker.taken # <<>> /\ left = 0
  /\ row.asset # None /\ Len(PicturesOf(worker.job)) = 1
       => \E a \in shelf' : a.id = row.asset

\* The tick goes on to the next picture of its row that is not stored.
Downloads ==
  /\ worker.phase \in {"polling", "downloading"} /\ ShelfGrows /\ jobs' = jobs
  /\ worker' \in WorkerType /\ worker'.phase = "downloading" /\ worker'.job = worker.job
  /\ Len(worker'.poll) = Len(PicturesOf(worker.job)) /\ worker'.next \in DOMAIN worker'.poll
  /\ \A a \in shelf' : a.picture # PicturesOf(worker.job)[worker'.next]
  /\ Len(PicturesOf(worker.job)) = 1 => worker'.first = None

\* Leaving a row keeps the invariant: it was queued or followed, never settled.
LEMMA LeavesKeeps ==
  ASSUME Inv, NEW row, NEW left, Leaves(row, left)
  PROVE  Inv' /\ Final
<1>1. /\ Len(jobs) \in Nat /\ jobs \in Seq(Job) /\ worker.job \in JobIds
      /\ worker.job \in 1..Len(jobs)
  BY DEF Inv, Typed, TypeOK, Leaves, Working, JobIds
<1>2. /\ jobs' \in Seq(Job) /\ Len(jobs') = Len(jobs) /\ JobIds' = JobIds
      /\ jobs'[worker.job] = row
      /\ \A j \in JobIds : j # worker.job => jobs'[j] = jobs[j]
  BY <1>1, ExceptSeq DEF Leaves, JobIds
<1>3. \A j \in JobIds : PicturesOf(j)' = PicturesOf(j)
  BY <1>1, <1>2 DEF Leaves, PicturesOf
<1>4. jobs[worker.job].status \in {"queued"} \cup Tracked
  BY DEF Inv, Holds, Leaves, Working
<1>5. /\ worker' \in WorkerType /\ worker'.phase \in {"idle", "sending"}
      /\ worker'.taken = <<>> /\ worker'.first = None
      /\ worker'.phase = "sending" =>
           /\ worker'.job \in 1..Len(jobs') /\ jobs'[worker'.job].status = "queued"
           /\ InState(jobs', Tracked) = {}
  <2>1. left \in 0..MaxPerTick /\ worker' = Proceed(jobs', <<>>, left)
    BY DEF Leaves
  <2> QED BY <1>2, <2>1, ProceedIs
<1>6. Typed'
  <2>1. /\ jobs' \in Seq(Job) /\ Len(jobs') <= MaxJobs
        /\ receipts' \in [Requests -> {None} \cup 1..MaxJobs]
        /\ shelf' \subseteq [id : 1..made', picture : Pictures]
        /\ made' \in 0..MaxAssets
        /\ published' \in [Scenes -> {None} \cup 1..MaxAssets]
        /\ crashes' \in 0..MaxCrashes /\ cut' \subseteq JobIds'
    BY <1>2 DEF Inv, Typed, TypeOK, Leaves, ShelfGrows
  <2>2. /\ service' \in Seq(EntryType) /\ \A i \in DOMAIN service' : service'[i].job \in JobIds'
        /\ \A i \in DOMAIN service' :
             service'[i] \in [job : 1..MaxJobs, status : {"pending", "gone"} \cup Terminal]
    BY <1>2 DEF Inv, Typed, TypeOK, Leaves, ShelfGrows
  <2>3. /\ worker'.phase \in {"idle", "polling", "downloading", "sending"}
        /\ worker'.phase # "idle" => worker'.job \in JobIds'
        /\ worker'.left \in 0..MaxPerTick
    BY <1>5 DEF JobIds, WorkerType
  <2> QED BY <1>5, <2>1, <2>2, <2>3 DEF Typed, TypeOK
<1>7. Holds'
  BY <1>5 DEF Holds
<1>8. service' = service /\ shelf \subseteq shelf' /\ published' = published /\ cut' = cut
  BY DEF Leaves, ShelfGrows
<1>9. Follows'
  <2>1. ASSUME NEW j \in InState(jobs', Tracked)
        PROVE  /\ j \in JobIds /\ Len(jobs'[j].ids) = Len(PicturesOf(j))
               /\ \A k \in DOMAIN jobs'[j].ids : jobs'[j].ids[k] \in DOMAIN service
               /\ \/ j \in InState(jobs, Tracked)
                  \/ j = worker.job /\ InState(jobs, Tracked) = {}
    <3>1. j \in JobIds /\ jobs'[j].status \in Tracked
      BY <1>2 DEF InState, JobIds
    <3>2. CASE jobs'[j] = jobs[j]
      BY <3>1, <3>2 DEF InState, JobIds, Inv, Follows
    <3>3. CASE jobs'[j] # jobs[j]
      <4>1. j = worker.job /\ jobs'[j] = row /\ row.status = "submitted"
        BY <1>1, <1>2, <3>1, <3>3 DEF Tracked
      <4>2. /\ row.ids = worker.taken /\ worker.taken # <<>> /\ worker.phase = "sending"
        BY <3>3, <4>1 DEF Leaves, Settled
      <4> QED BY <3>1, <4>1, <4>2 DEF Inv, Holds
    <3> QED BY <3>2, <3>3
  <2>2. \A j \in JobIds : Len(PicturesOf(j)') = Len(PicturesOf(j))
    BY <1>3
  <2>3. \A i, j \in InState(jobs, Tracked) : i = j
    BY DEF Inv, Follows
  <2> QED BY <1>8, <2>1, <2>2, <2>3 DEF Follows
<1>10. Sent'
  <2> SUFFICES ASSUME NEW j \in JobIds \ cut
               PROVE  /\ IsFiniteSet(Mine(j)') /\ Cardinality(Mine(j)') <= Len(PicturesOf(j)')
                      /\ jobs'[j].status = "queued" => Mine(j)' = {}
    BY <1>2, <1>8 DEF Sent
  <2>1. Mine(j)' = Mine(j) /\ PicturesOf(j)' = PicturesOf(j)
    BY <1>3, <1>8 DEF Mine
  <2>2. jobs'[j].status = "queued" => jobs[j].status = "queued" /\ ~Underway(j)
    <3>1. CASE j # worker.job
      BY <1>2, <3>1 DEF Underway
    <3>2. CASE j = worker.job
      BY <1>1, <1>2, <3>2 DEF Leaves, Settled, Underway
    <3> QED BY <3>1, <3>2
  <2> QED BY <2>1, <2>2 DEF Inv, Sent
<1>11. PublishedIsStored' /\ StoredOnce'
  BY <1>8 DEF Leaves, ShelfGrows, Inv, PublishedIsStored
<1>12. SingleImageIsStored'
  <2> SUFFICES ASSUME NEW j \in JobIds, jobs'[j].asset # None, Len(PicturesOf(j)) = 1
               PROVE  \E a \in shelf' : a.id = jobs'[j].asset
    BY <1>2, <1>3 DEF SingleImageIsStored
  <2>1. CASE j = worker.job
    BY <1>1, <1>2, <2>1 DEF Leaves
  <2>2. CASE j # worker.job
    BY <1>2, <1>8, <2>2 DEF Inv, SingleImageIsStored
  <2> QED BY <2>1, <2>2
<1>13. Final
  BY <1>1, <1>2, <1>4 DEF Final, Settled, Tracked
<1> QED BY <1>6, <1>7, <1>9, <1>10, <1>11, <1>12, <1>13 DEF Inv

\* Going on to a download keeps the invariant.
LEMMA DownloadsKeeps ==
  ASSUME Inv, Downloads
  PROVE  Inv' /\ Final
<1>1. /\ jobs' = jobs /\ service' = service /\ published' = published /\ cut' = cut
      /\ shelf \subseteq shelf' /\ JobIds' = JobIds
      /\ \A j : PicturesOf(j)' = PicturesOf(j)
  BY DEF Downloads, ShelfGrows, JobIds, PicturesOf
<1>2. /\ worker.job \in JobIds /\ jobs[worker.job].status \in Tracked
      /\ worker'.phase = "downloading" /\ worker'.job = worker.job
  BY DEF Inv, Typed, TypeOK, Holds, Downloads
<1>3. Typed'
  <2>1. /\ jobs' \in Seq(Job) /\ Len(jobs') <= MaxJobs
        /\ receipts' \in [Requests -> {None} \cup 1..MaxJobs]
        /\ shelf' \subseteq [id : 1..made', picture : Pictures]
        /\ made' \in 0..MaxAssets
        /\ published' \in [Scenes -> {None} \cup 1..MaxAssets]
        /\ crashes' \in 0..MaxCrashes /\ cut' \subseteq JobIds'
    BY <1>1 DEF Inv, Typed, TypeOK, Downloads, ShelfGrows
  <2>2. /\ service' \in Seq(EntryType) /\ \A i \in DOMAIN service' : service'[i].job \in JobIds'
        /\ \A i \in DOMAIN service' :
             service'[i] \in [job : 1..MaxJobs, status : {"pending", "gone"} \cup Terminal]
    BY <1>1 DEF Inv, Typed, TypeOK
  <2>3. /\ worker' \in WorkerType
        /\ worker'.phase \in {"idle", "polling", "downloading", "sending"}
        /\ worker'.phase # "idle" => worker'.job \in JobIds'
        /\ worker'.left \in 0..MaxPerTick
    BY <1>1, <1>2 DEF Downloads, WorkerType
  <2> QED BY <2>1, <2>2, <2>3 DEF Typed, TypeOK
<1>4. Holds'
  BY <1>1, <1>2 DEF Holds, Downloads
<1>5. Follows'
  BY <1>1 DEF Inv, Follows
<1>6. Sent'
  <2>1. \A j : Mine(j)' = Mine(j)
    BY <1>1 DEF Mine
  <2>2. \A j : ~Underway(j)
    BY DEF Downloads, Underway
  <2> QED BY <1>1, <2>1, <2>2 DEF Inv, Sent
<1>7. PublishedIsStored' /\ StoredOnce' /\ SingleImageIsStored'
  BY <1>1 DEF Downloads, ShelfGrows, Inv, PublishedIsStored, SingleImageIsStored
<1>8. Final
  BY <1>1 DEF Final
<1> QED BY <1>3, <1>4, <1>5, <1>6, <1>7, <1>8 DEF Inv

-----------------------------------------------------------------------------
(* Requests and crashes age the rows.                                      *)

\* Pruning keeps rows where they are: it forgets settled ones and unlinks what
\* is evicted.
LEMMA PrunedIs ==
  ASSUME TypeOK, NEW E
  PROVE  /\ Pruned(E) \in Seq(Job) /\ Len(Pruned(E)) = Len(jobs)
         /\ \A j \in JobIds :
              LET row == Pruned(E)[j]
              IN  /\ row.request = jobs[j].request /\ row.ids = jobs[j].ids
                  /\ \/ row.status = jobs[j].status
                     \/ jobs[j].status \in Settled /\ row.status = "pruned"
                  /\ row.asset # None => row.asset = jobs[j].asset
                                         /\ \A a \in E : a.id # jobs[j].asset
<1>1. Len(jobs) \in Nat /\ \A j \in JobIds : jobs[j] \in Job
  BY RowTyped DEF TypeOK
<1>2. ASSUME NEW j \in JobIds
      PROVE  /\ Unlinked(jobs[j], E) \in Job
             /\ Unlinked(jobs[j], E).request = jobs[j].request
             /\ Unlinked(jobs[j], E).ids = jobs[j].ids
             /\ Unlinked(jobs[j], E).status = jobs[j].status
             /\ Unlinked(jobs[j], E).asset # None =>
                  Unlinked(jobs[j], E).asset = jobs[j].asset /\ \A a \in E : a.id # jobs[j].asset
  <2>1. jobs[j] \in Job
    BY <1>1
  <2>2. CASE jobs[j].asset \in {a.id : a \in E}
    <3>1. Unlinked(jobs[j], E) = [jobs[j] EXCEPT !.asset = None]
      BY <2>2 DEF Unlinked
    <3> QED BY <2>1, <3>1 DEF Job
  <2>3. CASE jobs[j].asset \notin {a.id : a \in E}
    <3>1. Unlinked(jobs[j], E) = jobs[j]
      BY <2>3 DEF Unlinked
    <3> QED BY <2>1, <2>3, <3>1
  <2> QED BY <2>2, <2>3
<1>3. ASSUME NEW j \in JobIds
      PROVE  /\ Pruned(E)[j] \in Job
             /\ Pruned(E)[j].request = jobs[j].request /\ Pruned(E)[j].ids = jobs[j].ids
             /\ Pruned(E)[j].asset = Unlinked(jobs[j], E).asset
             /\ \/ Pruned(E)[j].status = jobs[j].status
                \/ jobs[j].status \in Settled /\ Pruned(E)[j].status = "pruned"
  <2> DEFINE row == Unlinked(jobs[j], E)
  <2>1. /\ row \in Job /\ row.request = jobs[j].request /\ row.ids = jobs[j].ids
        /\ row.status = jobs[j].status
    BY <1>2
  <2>2. Pruned(E)[j] = IF j \in Forgotten THEN [row EXCEPT !.status = "pruned"] ELSE row
    BY DEF Pruned
  <2>3. j \in Forgotten => jobs[j].status \in Settled
    BY DEF Forgotten, InState
  <2> HIDE DEF row
  <2>4. [row EXCEPT !.status = "pruned"] \in Job
    BY <2>1 DEF Job
  <2>5. /\ [row EXCEPT !.status = "pruned"].request = row.request
        /\ [row EXCEPT !.status = "pruned"].ids = row.ids
        /\ [row EXCEPT !.status = "pruned"].asset = row.asset
        /\ [row EXCEPT !.status = "pruned"].status = "pruned"
    BY <2>1 DEF Job
  <2>6. Pruned(E)[j] \in Job /\ Pruned(E)[j].asset = row.asset
    BY <2>1, <2>2, <2>4, <2>5
  <2> QED BY <2>1, <2>2, <2>3, <2>5, <2>6 DEF row
<1>4. Pruned(E) \in [1..Len(jobs) -> Job]
  <2>1. DOMAIN Pruned(E) = 1..Len(jobs) /\ Pruned(E) = [j \in 1..Len(jobs) |-> Pruned(E)[j]]
    BY DEF Pruned, JobIds
  <2> QED BY <1>3, <2>1 DEF JobIds
<1>5. Pruned(E) \in Seq(Job) /\ Len(Pruned(E)) = Len(jobs)
  <2>1. Pruned(E) \in Seq(Job)
    BY <1>1, <1>4, SeqDef
  <2> QED BY <1>1, <1>4, <2>1, LenProperties
<1> QED BY <1>2, <1>3, <1>5

\* A request prunes, and leaves no row of its own.
LEMMA RefusedAges ==
  ASSUME Inv, EnqueueRefused
  PROVE  \E E : Ages(E)
<1>1. PICK E \in SUBSET shelf : /\ Evicted(E) /\ shelf' = shelf \ E /\ jobs' = Pruned(E)
  BY DEF EnqueueRefused
<1>2. PICK n \in 0..Len(jobs) : receipts' = KeptReceipts(n)
  BY DEF EnqueueRefused
<1>3. UNCHANGED <<made, published, worker, service, cut, crashes>>
  BY DEF EnqueueRefused
<1>4. /\ TypeOK /\ receipts \in [Requests -> {None} \cup 1..MaxJobs] /\ Len(jobs) <= MaxJobs
      /\ crashes \in 0..MaxCrashes /\ Len(jobs) \in Nat
  BY DEF Inv, Typed, TypeOK
<1>5. receipts' \in [Requests -> {None} \cup 1..MaxJobs]
  BY <1>2, <1>4 DEF KeptReceipts
<1>6. /\ jobs' \in Seq(Job) /\ Len(jobs') = Len(jobs)
      /\ \A j \in JobIds :
           /\ jobs'[j].request = jobs[j].request /\ jobs'[j].ids = jobs[j].ids
           /\ \/ jobs'[j].status = jobs[j].status
              \/ jobs[j].status \in Settled /\ jobs'[j].status = "pruned"
           /\ jobs'[j].asset # None => jobs'[j].asset = jobs[j].asset
                                       /\ \A a \in E : a.id # jobs[j].asset
  BY <1>1, <1>4, PrunedIs
<1>7. JobIds' = JobIds /\ E \subseteq Evictable
  BY <1>1, <1>6 DEF JobIds, Evicted
<1>8. Ages(E)
  BY <1>1, <1>3, <1>4, <1>5, <1>6, <1>7 DEF Ages
<1> QED BY <1>8

\* A new row is queued, or done with an image that is on the shelf.
LEMMA NewJobIs ==
  ASSUME NEW r \in Requests, NEW S \in SUBSET [id : 1..made, picture : Pictures],
         made \in 0..MaxAssets
  PROVE  /\ NewJob(r, S) \in Job /\ NewJob(r, S).status \in {"queued", "done"}
         /\ NewJob(r, S).asset # None => \E a \in S : a.id = NewJob(r, S).asset
         /\ S = {} => NewJob(r, S).asset = None
<1> DEFINE P == Ask[r].pictures
<1>1. DOMAIN P = 1..Len(P) /\ Len(P) \in Nat \ {0} /\ 1 \in DOMAIN P
  BY AskTyped, LenProperties
<1>2. made \in Nat /\ made <= MaxAssets /\ MaxAssets \in Nat
  BY BoundsAssumption
<1>3. <<>> \in Seq(Nat)
  OBVIOUS
<1> HIDE DEF P
<1>4. CASE Stored(P, S)
  <2>1. \E a \in S : a.picture = P[1]
    BY <1>1, <1>4 DEF Stored
  <2>2. \E a \in S : a.id = AssetOf(P[1], S)
    BY <2>1 DEF AssetOf
  <2>3. AssetOf(P[1], S) \in 1..MaxAssets
    BY <1>2, <2>2
  <2>4. NewJob(r, S) = [request |-> r, ids |-> <<>>, status |-> "done", asset |-> AssetOf(P[1], S)]
    BY <1>4 DEF NewJob, P
  <2> QED BY <1>3, <2>1, <2>2, <2>3, <2>4 DEF Job, Settled
<1>5. CASE ~Stored(P, S)
  <2>1. NewJob(r, S) = [request |-> r, ids |-> <<>>, status |-> "queued", asset |-> None]
    BY <1>5 DEF NewJob, P
  <2> QED BY <1>3, <2>1 DEF Job
<1> QED BY <1>4, <1>5

\* A request that prunes and appends the row `new'.
LEMMA AppendedAges ==
  ASSUME Inv, Len(jobs) < MaxJobs, NEW E \in SUBSET shelf, Evicted(E), shelf' = shelf \ E,
         NEW new \in Job, jobs' = Append(Pruned(E), new), new.status \in {"queued", "done"},
         new.asset # None => \E a \in shelf' : a.id = new.asset,
         UNCHANGED <<worker, cut>> \/
           (worker' = Idle
            /\ cut' = IF worker.phase = "sending" THEN cut \cup {worker.job} ELSE cut),
         receipts' \in [Requests -> {None} \cup 1..MaxJobs], crashes' \in 0..MaxCrashes,
         UNCHANGED <<made, published, service>>
  PROVE  Ages(E)
<1>1. TypeOK /\ Len(jobs) \in Nat /\ MaxJobs \in Nat
  BY BoundsAssumption DEF Inv, Typed, TypeOK
<1>2. /\ Pruned(E) \in Seq(Job) /\ Len(Pruned(E)) = Len(jobs)
      /\ \A j \in JobIds :
           LET row == Pruned(E)[j]
           IN  /\ row.request = jobs[j].request /\ row.ids = jobs[j].ids
               /\ \/ row.status = jobs[j].status
                  \/ jobs[j].status \in Settled /\ row.status = "pruned"
               /\ row.asset # None => row.asset = jobs[j].asset
                                      /\ \A a \in E : a.id # jobs[j].asset
  BY <1>1, PrunedIs
<1>3. /\ jobs' \in Seq(Job) /\ Len(jobs') = Len(jobs) + 1 /\ jobs'[Len(jobs) + 1] = new
      /\ \A j \in JobIds : jobs'[j] = Pruned(E)[j]
  BY <1>1, <1>2, AppendProperties DEF JobIds
<1>4. JobIds' \ JobIds = {Len(jobs) + 1} /\ Len(jobs') <= MaxJobs /\ Len(jobs) <= Len(jobs')
  BY <1>1, <1>3 DEF JobIds
<1>5. \A j \in JobIds' \ JobIds :
        /\ jobs'[j].status \in {"queued", "done"}
        /\ jobs'[j].asset # None => \E a \in shelf' : a.id = jobs'[j].asset
  BY <1>3, <1>4
<1>6. \A j \in JobIds :
       /\ jobs'[j].request = jobs[j].request /\ jobs'[j].ids = jobs[j].ids
       /\ \/ jobs'[j].status = jobs[j].status
          \/ jobs[j].status \in Settled /\ jobs'[j].status = "pruned"
       /\ jobs'[j].asset # None =>
            jobs'[j].asset = jobs[j].asset /\ \A a \in E : a.id # jobs[j].asset
  BY <1>2, <1>3
<1>7. E \subseteq Evictable
  BY DEF Evicted
<1> QED BY <1>3, <1>4, <1>5, <1>6, <1>7 DEF Ages

\* Enqueue ages the rows, also when a crash takes the receipt.
LEMMA EnqueueAges ==
  ASSUME Inv, NEW r \in Requests, Enqueue(r) \/ EnqueueCut(r)
  PROVE  \E E : Ages(E)
<1>1. /\ TypeOK /\ receipts \in [Requests -> {None} \cup 1..MaxJobs]
      /\ crashes \in 0..MaxCrashes /\ Len(jobs) \in Nat /\ MaxJobs \in Nat
      /\ shelf \subseteq [id : 1..made, picture : Pictures] /\ made \in 0..MaxAssets
  BY BoundsAssumption DEF Inv, Typed, TypeOK
<1>2. CASE Enqueue(r)
  <2>1. PICK E \in SUBSET shelf :
          /\ Evicted(E) /\ shelf' = shelf \ E
          /\ jobs' = Append(Pruned(E), NewJob(r, shelf \ E))
    BY <1>2 DEF Enqueue
  <2>2. PICK n \in 0..Len(jobs) : receipts' = [KeptReceipts(n) EXCEPT ![r] = Len(jobs) + 1]
    BY <1>2 DEF Enqueue
  <2>3. /\ Len(jobs) < MaxJobs /\ UNCHANGED <<worker, cut>> /\ UNCHANGED <<made, published, service>>
        /\ crashes' \in 0..MaxCrashes
    BY <1>1, <1>2 DEF Enqueue
  <2>4. receipts' \in [Requests -> {None} \cup 1..MaxJobs]
    <3>1. Len(jobs) + 1 \in 1..MaxJobs /\ KeptReceipts(n) \in [Requests -> {None} \cup 1..MaxJobs]
      BY <1>1, <2>3 DEF KeptReceipts
    <3> QED BY <2>2, <3>1
  <2>5. /\ NewJob(r, shelf \ E) \in Job /\ NewJob(r, shelf \ E).status \in {"queued", "done"}
        /\ NewJob(r, shelf \ E).asset # None =>
             \E a \in shelf' : a.id = NewJob(r, shelf \ E).asset
    <3>1. shelf \ E \in SUBSET [id : 1..made, picture : Pictures]
      BY <1>1
    <3> QED BY <1>1, <2>1, <3>1, NewJobIs
  <2>6. Ages(E)
    BY <2>1, <2>3, <2>4, <2>5, AppendedAges
  <2> QED BY <2>6
<1>3. CASE EnqueueCut(r)
  <2>1. PICK E \in SUBSET shelf :
          /\ Evicted(E) /\ shelf' = shelf \ E
          /\ \E job \in {[NewJob(r, {}) EXCEPT !.status = "queued"], NewJob(r, shelf \ E)} :
               jobs' = Append(Pruned(E), job)
    BY <1>3 DEF EnqueueCut
  <2>8. PICK new \in {[NewJob(r, {}) EXCEPT !.status = "queued"], NewJob(r, shelf \ E)} :
          jobs' = Append(Pruned(E), new)
    BY <2>1
  <2>2. PICK n \in 0..Len(jobs) : receipts' = KeptReceipts(n)
    BY <1>3 DEF EnqueueCut
  <2>3. /\ Len(jobs) < MaxJobs /\ UNCHANGED <<made, published, service>>
        /\ worker' = Idle
        /\ cut' = IF worker.phase = "sending" THEN cut \cup {worker.job} ELSE cut
    BY <1>3 DEF EnqueueCut
  <2>4. crashes' \in 0..MaxCrashes
    BY <1>1, <1>3, BoundsAssumption DEF EnqueueCut
  <2>5. receipts' \in [Requests -> {None} \cup 1..MaxJobs]
    BY <1>1, <2>2 DEF KeptReceipts
  <2>6. /\ new \in Job /\ new.status \in {"queued", "done"}
        /\ new.asset # None => \E a \in shelf' : a.id = new.asset
    <3>1. CASE new = [NewJob(r, {}) EXCEPT !.status = "queued"]
      <4>1. NewJob(r, {}) \in Job /\ NewJob(r, {}).asset = None
        BY <1>1, NewJobIs
      <4> QED BY <3>1, <4>1 DEF Job
    <3>2. CASE new = NewJob(r, shelf \ E)
      <4>1. shelf \ E \in SUBSET [id : 1..made, picture : Pictures]
        BY <1>1
      <4> QED BY <1>1, <2>1, <3>2, <4>1, NewJobIs
    <3> QED BY <3>1, <3>2
  <2>7. Ages(E)
    BY <2>1, <2>3, <2>4, <2>5, <2>6, <2>8, AppendedAges
  <2> QED BY <2>7
<1> QED BY <1>2, <1>3

\* So does a crash alone: no row changes.
LEMMA CrashAges ==
  ASSUME Inv, Crash
  PROVE  Ages({})
<1>1. /\ jobs \in Seq(Job) /\ Len(jobs) <= MaxJobs /\ Len(jobs) \in Nat
      /\ receipts \in [Requests -> {None} \cup 1..MaxJobs] /\ crashes \in 0..MaxCrashes
  BY DEF Inv, Typed, TypeOK
<1>2. JobIds' = JobIds
  BY DEF Crash, JobIds
<1>3. crashes' \in 0..MaxCrashes
  BY <1>1, BoundsAssumption DEF Crash
<1> QED BY <1>1, <1>2, <1>3 DEF Crash, Ages

-----------------------------------------------------------------------------
(* A party that moves alone.                                               *)

\* What is published is on the shelf at that moment.
LEMMA SelectKeeps ==
  ASSUME Inv, NEW s \in Scenes, SelectImage(s)
  PROVE  Inv' /\ Final
<1>1. PICK a \in shelf : published' = [published EXCEPT ![s] = a.id]
  BY DEF SelectImage
<1>2. UNCHANGED <<jobs, receipts, shelf, made, worker, service, cut, crashes>>
  BY DEF SelectImage
<1>3. a.id \in 1..MaxAssets
  <2>1. made \in Nat /\ made <= MaxAssets /\ MaxAssets \in Nat
    BY BoundsAssumption DEF Inv, Typed, TypeOK
  <2> QED BY <2>1 DEF Inv, Typed, TypeOK
<1>4. published' \in [Scenes -> {None} \cup 1..MaxAssets]
  BY <1>1, <1>3 DEF Inv, Typed, TypeOK
<1>5. JobIds' = JobIds /\ \A j : PicturesOf(j)' = PicturesOf(j)
  BY <1>2 DEF JobIds, PicturesOf
<1>6. Typed'
  BY <1>2, <1>4, <1>5 DEF Inv, Typed, TypeOK
<1>7. Holds' /\ Follows'
  BY <1>2, <1>5 DEF Inv, Holds, Follows
<1>8. Sent'
  BY <1>2, <1>5 DEF Inv, Sent, Mine, Underway
<1>9. PublishedIsStored'
  BY <1>1, <1>2 DEF Inv, PublishedIsStored, Typed, TypeOK
<1>10. SingleImageIsStored' /\ StoredOnce' /\ Final
  BY <1>2, <1>5 DEF Inv, SingleImageIsStored, StoredOnce, Final
<1> QED BY <1>6, <1>7, <1>8, <1>9, <1>10 DEF Inv

\* The service changes the status of an entry.
LEMMA ServiceKeeps ==
  ASSUME Inv, NEW i \in DOMAIN service, ServiceSettles(i) \/ ServiceForgets(i)
  PROVE  Inv' /\ Final
<1>1. PICK status \in {"gone"} \cup Terminal : service' = [service EXCEPT ![i].status = status]
  BY DEF ServiceSettles, ServiceForgets
<1>2. UNCHANGED <<jobs, receipts, shelf, made, published, worker, cut, crashes>>
  BY DEF ServiceSettles, ServiceForgets
<1>3. /\ DOMAIN service' = DOMAIN service /\ service' \in Seq(EntryType)
      /\ \A k \in DOMAIN service : service'[k].job = service[k].job
  <2>1. service \in Seq(EntryType) /\ DOMAIN service = 1..Len(service)
    BY LenProperties DEF Inv, Typed
  <2>2. service[i] \in EntryType
    BY <2>1, ElementOfSeq
  <2> DEFINE entry == [service[i] EXCEPT !.status = status]
  <2>3. entry \in EntryType /\ entry.job = service[i].job
    BY <2>2 DEF EntryType
  <2>4. service' = [service EXCEPT ![i] = entry]
    BY <1>1
  <2> HIDE DEF entry
  <2>5. /\ service' \in Seq(EntryType) /\ DOMAIN service' = DOMAIN service
    BY <2>1, <2>3, <2>4, ExceptSeq
  <2>6. \A k \in DOMAIN service : service'[k] = IF k = i THEN entry ELSE service[k]
    BY <2>1, <2>4
  <2> QED BY <2>3, <2>5, <2>6
<1>4. \A k \in DOMAIN service' :
        service'[k] \in [job : 1..MaxJobs, status : {"pending", "gone"} \cup Terminal]
  <2>1. DOMAIN service' = 1..Len(service')
    BY <1>3, LenProperties
  <2>2. \A k \in DOMAIN service' : service'[k] \in EntryType
    BY <1>3, <2>1, ElementOfSeq
  <2> QED BY <2>2 DEF EntryType
<1>5. JobIds' = JobIds /\ \A j : PicturesOf(j)' = PicturesOf(j) /\ Mine(j)' = Mine(j)
  BY <1>2, <1>3 DEF JobIds, PicturesOf, Mine
<1>6. Typed'
  <2>1. \A k \in DOMAIN service' : service'[k].job \in JobIds'
    BY <1>3, <1>5 DEF Inv, Typed
  <2> QED BY <1>2, <1>3, <1>4, <1>5, <2>1 DEF Inv, Typed, TypeOK
<1>7. Holds' /\ Follows'
  BY <1>2, <1>3, <1>5 DEF Inv, Holds, Follows
<1>8. Sent'
  BY <1>2, <1>5 DEF Inv, Sent, Underway
<1>9. PublishedIsStored' /\ SingleImageIsStored' /\ StoredOnce' /\ Final
  BY <1>2, <1>5 DEF Inv, PublishedIsStored, SingleImageIsStored, StoredOnce, Final
<1> QED BY <1>6, <1>7, <1>8, <1>9 DEF Inv

\* The service takes as many entries as the row has pictures, once.
LEMMA TakesKeeps ==
  ASSUME Inv, ServiceTakes
  PROVE  Inv' /\ Final
<1> DEFINE n == Len(PicturesOf(worker.job))
           new == [k \in 1..n |-> [job |-> worker.job, status |-> "pending"]]
           ids == [k \in 1..n |-> Len(service) + k]
<1>1. /\ worker.phase = "sending" /\ worker.taken = <<>>
      /\ service' = service \o new /\ worker' = [worker EXCEPT !.taken = ids]
      /\ UNCHANGED <<jobs, receipts, shelf, made, published, cut, crashes>>
  BY DEF ServiceTakes
<1>2. worker.job \in JobIds /\ worker \in WorkerType /\ jobs[worker.job].status = "queued"
  BY <1>1 DEF Inv, Typed, TypeOK, Holds
<1>3. /\ n \in Nat \ {0} /\ worker.job \in 1..MaxJobs
  BY <1>2, RowTyped DEF Inv, Typed
<1>4. service \in Seq(EntryType) /\ Len(service) \in Nat /\ DOMAIN service = 1..Len(service)
  BY LenProperties DEF Inv, Typed
<1> HIDE DEF n
<1>5. /\ new \in Seq(EntryType) /\ Len(new) = n
      /\ ids \in Seq(Nat) /\ Len(ids) = n /\ DOMAIN ids = 1..n
  <2>1. new \in [1..n -> EntryType] /\ ids \in [1..n -> Nat]
    BY <1>3, <1>4 DEF EntryType
  <2>2. new \in Seq(EntryType) /\ ids \in Seq(Nat)
    BY <1>3, <2>1, SeqDef
  <2> QED BY <1>3, <2>1, <2>2, LenProperties
<1>6. \A k \in 1..n : new[k].job = worker.job /\ ids[k] = Len(service) + k
  OBVIOUS
<1> HIDE DEF new, ids
<1>7. /\ service' \in Seq(EntryType) /\ Len(service') = Len(service) + n
      /\ DOMAIN service' = 1..(Len(service) + n)
      /\ \A i \in DOMAIN service : service'[i] = service[i]
      /\ \A i \in (Len(service) + 1)..(Len(service) + n) : service'[i].job = worker.job
  <2>1. /\ service' \in Seq(EntryType) /\ Len(service') = Len(service) + n
        /\ \A i \in 1..(Len(service) + n) :
             service'[i] = IF i <= Len(service) THEN service[i] ELSE new[i - Len(service)]
    BY <1>1, <1>4, <1>5, ConcatProperties
  <2>2. DOMAIN service' = 1..(Len(service) + n)
    BY <2>1, LenProperties
  <2>3. ASSUME NEW i \in (Len(service) + 1)..(Len(service) + n)
        PROVE  service'[i].job = worker.job
    <3>1. i - Len(service) \in 1..n /\ ~(i <= Len(service)) /\ i \in 1..(Len(service) + n)
      BY <1>3, <1>4
    <3> QED BY <1>6, <2>1, <3>1
  <2> QED BY <1>3, <1>4, <2>1, <2>2, <2>3
<1>8. /\ worker' \in WorkerType /\ worker'.taken = ids
      /\ worker'.phase = "sending" /\ worker'.job = worker.job /\ worker'.left = worker.left
  BY <1>1, <1>2, <1>5 DEF WorkerType
<1>9. ids # <<>>
  BY <1>3, <1>5
<1>10. JobIds' = JobIds /\ \A j : PicturesOf(j)' = PicturesOf(j)
  BY <1>1 DEF JobIds, PicturesOf
<1>11. \A i \in DOMAIN service' : i \in DOMAIN service
                                   \/ i \in (Len(service) + 1)..(Len(service) + n)
  BY <1>3, <1>4, <1>7
<1>12. Typed'
  <2>1. \A i \in DOMAIN service' : service'[i].job \in JobIds'
    BY <1>2, <1>7, <1>10, <1>11 DEF Inv, Typed
  <2>2. \A i \in DOMAIN service' :
          service'[i] \in [job : 1..MaxJobs, status : {"pending", "gone"} \cup Terminal]
    BY <1>7, ElementOfSeq, LenProperties DEF EntryType
  <2>3. worker'.left \in 0..MaxPerTick
    BY <1>8 DEF WorkerType
  <2> QED BY <1>1, <1>2, <1>7, <1>8, <1>10, <2>1, <2>2, <2>3 DEF Inv, Typed, TypeOK
<1>13. Holds'
  <2>1. \A k \in DOMAIN ids : ids[k] \in DOMAIN service'
    BY <1>3, <1>4, <1>5, <1>6, <1>7
  <2>2. Len(ids) = Len(PicturesOf(worker.job))
    BY <1>5 DEF n
  <2> QED BY <1>1, <1>2, <1>8, <1>10, <2>1, <2>2 DEF Inv, Holds
<1>14. Follows'
  <2>1. DOMAIN service \subseteq DOMAIN service'
    BY <1>3, <1>4, <1>7
  <2> QED BY <1>1, <1>10, <2>1 DEF Inv, Follows
<1>15. Sent'
  <2> SUFFICES ASSUME NEW j \in JobIds \ cut
               PROVE  /\ IsFiniteSet(Mine(j)') /\ Cardinality(Mine(j)') <= Len(PicturesOf(j))
                      /\ jobs[j].status = "queued" => Mine(j)' = {} \/ Underway(j)'
    BY <1>1, <1>10 DEF Sent
  <2>1. CASE j = worker.job
    <3>1. Mine(j) = {}
      BY <1>1, <1>2, <2>1 DEF Inv, Sent, Underway
    <3>2. Mine(j)' = (Len(service) + 1)..(Len(service) + n)
      BY <1>3, <1>4, <1>7, <1>11, <2>1, <3>1 DEF Mine
    <3>3. /\ IsFiniteSet((Len(service) + 1)..(Len(service) + n))
          /\ Cardinality((Len(service) + 1)..(Len(service) + n)) = n
      <4>1. Len(service) + 1 \in Int /\ Len(service) + n \in Int
            /\ (Len(service) + n) - (Len(service) + 1) + 1 = n
            /\ ~(Len(service) + 1 > Len(service) + n)
        BY <1>3, <1>4
      <4> QED BY <4>1, FS_Interval
    <3>4. n = Len(PicturesOf(j)) /\ n <= n
      BY <1>3, <2>1 DEF n
    <3>5. Underway(j)'
      BY <1>8, <1>9, <2>1 DEF Underway
    <3> QED BY <3>2, <3>3, <3>4, <3>5
  <2>2. CASE j # worker.job
    <3>1. Mine(j)' = Mine(j)
      BY <1>3, <1>4, <1>7, <1>11, <2>2 DEF Mine
    <3>2. ~Underway(j)
      BY <2>2 DEF Underway
    <3> QED BY <3>1, <3>2 DEF Inv, Sent
  <2> QED BY <2>1, <2>2
<1>16. PublishedIsStored' /\ SingleImageIsStored' /\ StoredOnce' /\ Final
  BY <1>1, <1>10 DEF Inv, PublishedIsStored, SingleImageIsStored, StoredOnce, Final
<1> QED BY <1>12, <1>13, <1>14, <1>15, <1>16 DEF Inv

\* A tick begins with the row that is followed, or sends a queued one.
LEMMA TickKeeps ==
  ASSUME Inv, Tick
  PROVE  Inv' /\ Final
<1> DEFINE open == InState(jobs, Tracked)
<1>1. /\ worker.phase = "idle" /\ worker' = Proceed(jobs, InOrder(open), MaxPerTick)
      /\ UNCHANGED <<jobs, receipts, shelf, made, published, service, cut, crashes>>
  BY DEF Tick
<1>2. jobs \in Seq(Job) /\ Len(jobs) \in Nat /\ MaxPerTick \in 0..MaxPerTick
  BY BoundsAssumption DEF Inv, Typed, TypeOK
<1>3. /\ worker' \in WorkerType
      /\ \/ /\ worker'.phase \in {"idle", "sending"} /\ worker'.taken = <<>>
            /\ worker'.phase = "sending" =>
                 worker'.job \in JobIds /\ jobs[worker'.job].status = "queued" /\ open = {}
         \/ worker'.phase = "polling" /\ worker'.job \in open /\ worker'.first = None
  <2>1. CASE open = {}
    <3>1. InOrder(open) = <<>>
      BY <2>1, InOrderIs
    <3> QED BY <1>1, <1>2, <3>1, ProceedIs DEF JobIds
  <2>2. CASE open # {}
    <3>1. PICK j : j \in open
      BY <2>2
    <3>2. open = {j}
      BY <3>1 DEF Inv, Follows
    <3>3. InOrder(open) = <<j>>
      BY <2>2, <3>2, InOrderIs
    <3>4. worker' = At("polling", j, <<>>, MaxPerTick)
      <4>1. <<j>> # <<>> /\ Head(<<j>>) = j /\ Tail(<<j>>) = <<>>
        OBVIOUS
      <4> QED BY <1>1, <3>3, <4>1 DEF Proceed
    <3>5. j \in Nat
      BY <1>2, <3>1 DEF InState
    <3>6. /\ At("polling", j, <<>>, MaxPerTick) \in WorkerType
          /\ At("polling", j, <<>>, MaxPerTick).phase = "polling"
          /\ At("polling", j, <<>>, MaxPerTick).job = j
          /\ At("polling", j, <<>>, MaxPerTick).first = None
      <4>1. Idle \in WorkerType /\ Idle.first = None
        BY <1>2 DEF Idle, WorkerType
      <4> QED BY <1>2, <3>5, <4>1 DEF At, WorkerType, Working
    <3> QED BY <3>1, <3>4, <3>6
  <2> QED BY <2>1, <2>2
<1>4. \A j \in open : j \in JobIds /\ jobs[j].status \in Tracked
  BY DEF InState, JobIds
<1>5. JobIds' = JobIds /\ \A j : PicturesOf(j)' = PicturesOf(j) /\ Mine(j)' = Mine(j)
  BY <1>1 DEF JobIds, PicturesOf, Mine
<1>6. InState(jobs', Tracked) = open
  BY <1>1
<1> HIDE DEF open
<1>7. Typed'
  <2>1. /\ worker'.phase \in {"idle", "polling", "downloading", "sending"}
        /\ worker'.phase # "idle" => worker'.job \in JobIds
        /\ worker'.left \in 0..MaxPerTick
    BY <1>3, <1>4 DEF WorkerType
  <2> QED BY <1>1, <1>3, <1>5, <2>1 DEF Inv, Typed, TypeOK
<1>8. Holds'
  BY <1>1, <1>3, <1>4, <1>6 DEF Holds
<1>9. Follows'
  BY <1>1, <1>5 DEF Inv, Follows
<1>10. Sent'
  <2>1. \A j : ~Underway(j)
    BY <1>1 DEF Underway
  <2> QED BY <1>1, <1>5, <2>1 DEF Inv, Sent
<1>11. PublishedIsStored' /\ SingleImageIsStored' /\ StoredOnce' /\ Final
  BY <1>1, <1>5 DEF Inv, PublishedIsStored, SingleImageIsStored, StoredOnce, Final
<1> QED BY <1>7, <1>8, <1>9, <1>10, <1>11 DEF Inv

-----------------------------------------------------------------------------
(* The answers a tick waits for.                                           *)

\* The image a row names is its own or on the shelf.
LEMMA LeaveLeaves ==
  ASSUME Inv, worker.phase \in Working, ShelfGrows,
         NEW row \in Job, NEW left \in 0..MaxPerTick, Leave(row, left),
         row.request = jobs[worker.job].request,
         \/ row = jobs[worker.job] /\ (worker.phase = "sending" => worker.taken = <<>>)
         \/ row.status \in Settled
         \/ (/\ row.status = "submitted" /\ row.ids = worker.taken
             /\ worker.phase = "sending" /\ worker.taken # <<>> /\ left = 0),
         \/ row.asset \in {None, jobs[worker.job].asset}
         \/ \E a \in shelf' : a.id = row.asset
         \/ Len(PicturesOf(worker.job)) # 1
  PROVE  Inv' /\ Final
<1>1. worker.job \in JobIds /\ worker.todo = <<>>
  BY DEF Inv, Typed, TypeOK, Working, WorkerType
<1>2. jobs' = [jobs EXCEPT ![worker.job] = row] /\ worker' = Proceed(jobs', <<>>, left)
  BY <1>1 DEF Leave
<1>3. row.asset # None /\ Len(PicturesOf(worker.job)) = 1 => \E a \in shelf' : a.id = row.asset
  BY <1>1 DEF Inv, SingleImageIsStored, ShelfGrows
<1>4. Leaves(row, left)
  BY <1>2, <1>3 DEF Leaves
<1> QED BY <1>4, LeavesKeeps

\* A shelf that stays does not shrink.
LEMMA ShelfStays ==
  ASSUME Inv, UNCHANGED <<receipts, shelf, made, published, service, cut, crashes>>
  PROVE  ShelfGrows
  BY DEF Inv, Typed, TypeOK, StoredOnce, ShelfGrows

\* What is known of the row a tick works on.
LEMMA RowOfTick ==
  ASSUME Inv, worker.phase # "idle"
  PROVE  /\ jobs[worker.job] \in Job /\ worker.job \in JobIds
         /\ worker \in WorkerType /\ worker.phase \in Working /\ worker.left \in 0..MaxPerTick
         /\ Len(PicturesOf(worker.job)) \in Nat \ {0}
<1>1. worker.job \in JobIds /\ worker \in WorkerType
  BY DEF Inv, Typed, TypeOK
<1>2. TypeOK
  BY DEF Inv, Typed
<1> QED BY <1>1, <1>2, RowTyped DEF WorkerType

\* An answer to a submission, whether the service took the work or not.
LEMMA SubmitKeeps ==
  ASSUME Inv, Accepted \/ Uncertain \/ Rejected \/ RateLimited
  PROVE  Inv' /\ Final
<1> DEFINE row == jobs[worker.job]
<1>1. PICK outcome \in {"accepted", "uncertain", "rejected", "busy"} :
        /\ Submitted(outcome)
        /\ outcome = "accepted" => worker.taken # <<>>
        /\ outcome = "busy" => worker.taken = <<>>
  BY DEF Accepted, Uncertain, Rejected, RateLimited
<1> DEFINE left == IF outcome \in {"accepted", "busy"} THEN 0 ELSE worker.left
<1>2. /\ worker.phase = "sending" /\ Leave(Answered(outcome), left)
      /\ UNCHANGED <<receipts, shelf, made, published, service, cut, crashes>>
  BY <1>1 DEF Submitted
<1>3. ShelfGrows
  BY <1>2, ShelfStays
<1>4. /\ row \in Job /\ worker.phase \in Working /\ worker.taken \in Seq(Nat)
      /\ left \in 0..MaxPerTick /\ (outcome = "accepted" => left = 0)
  BY <1>2, RowOfTick, BoundsAssumption DEF WorkerType
<1> HIDE DEF left
<1>5. CASE outcome = "accepted"
  <2>1. Answered(outcome) = [row EXCEPT !.status = "submitted", !.ids = worker.taken]
    BY <1>5 DEF Answered
  <2> DEFINE new == [row EXCEPT !.status = "submitted", !.ids = worker.taken]
  <2>2. /\ new \in Job /\ new.status = "submitted" /\ new.ids = worker.taken
        /\ new.request = row.request /\ new.asset = row.asset
    BY <1>4 DEF Job, Tracked
  <2> HIDE DEF new
  <2>3. Leave(new, left)
    BY <1>2, <2>1 DEF new
  <2> QED BY <1>1, <1>2, <1>3, <1>4, <1>5, <2>2, <2>3, LeaveLeaves
<1>6. CASE outcome \in {"uncertain", "rejected"}
  <2> DEFINE status == IF outcome = "uncertain" THEN "uncertain" ELSE "failed"
             new == [row EXCEPT !.status = status]
  <2>1. Answered(outcome) = new
    BY <1>6 DEF Answered
  <2>2. /\ new \in Job /\ new.status \in Settled
        /\ new.request = row.request /\ new.asset = row.asset
    BY <1>4 DEF Job, Settled
  <2> HIDE DEF new
  <2>3. Leave(new, left)
    BY <1>2, <2>1
  <2> QED BY <1>3, <1>4, <2>2, <2>3, LeaveLeaves
<1>7. CASE outcome = "busy"
  <2>1. Answered(outcome) = row
    BY <1>7 DEF Answered
  <2>2. Leave(row, left)
    BY <1>2, <2>1
  <2> QED BY <1>1, <1>3, <1>4, <1>7, <2>2, LeaveLeaves
<1> QED BY <1>5, <1>6, <1>7

\* A status that cannot be read leaves the row, a download that fails settles it.
LEMMA FailuresKeep ==
  ASSUME Inv, PollFailed \/ DownloadFailed
  PROVE  Inv' /\ Final
<1> DEFINE row == jobs[worker.job]
           new == [row EXCEPT !.status = "failed"]
<1>1. /\ worker.phase \in {"polling", "downloading"}
      /\ Leave(row, worker.left) \/ Leave(new, worker.left)
      /\ UNCHANGED <<receipts, shelf, made, published, service, cut, crashes>>
  BY DEF PollFailed, DownloadFailed
<1>2. ShelfGrows
  BY <1>1, ShelfStays
<1>3. row \in Job /\ worker.phase \in Working /\ worker.left \in 0..MaxPerTick
  BY <1>1, RowOfTick
<1>4. /\ new \in Job /\ new.status \in Settled
      /\ new.request = row.request /\ new.asset = row.asset
  BY <1>3 DEF Job, Settled
<1> HIDE DEF new
<1>5. CASE Leave(row, worker.left)
  BY <1>1, <1>2, <1>3, <1>5, LeaveLeaves
<1>6. CASE Leave(new, worker.left)
  BY <1>2, <1>3, <1>4, <1>6, LeaveLeaves
<1> QED BY <1>1, <1>5, <1>6

\* The image a walk names first is the one it had, or one that is stored.
LEMMA FirstIs ==
  ASSUME NEW w, DOMAIN w.poll \subseteq Nat, NEW S
  PROVE  \/ First(w, S) = w.first
         \/ \E a \in S : First(w, S) = a.id
<1> DEFINE known == {k \in Done(w) : k >= w.next /\ \A m \in Missing(w, S) : k < m}
<1>1. CASE w.first # None \/ known = {}
  BY <1>1 DEF First
<1>2. CASE ~(w.first # None \/ known = {})
  <2> DEFINE k == Oldest(known)
  <2>1. known \in SUBSET Nat /\ known # {}
    BY <1>2 DEF Done
  <2>2. k \in known
    BY <2>1, OldestIs
  <2>3. First(w, S) = AssetOf(PicturesOf(w.job)[k], S)
    BY <1>2 DEF First
  <2>4. k \notin Missing(w, S) /\ k \in Done(w) /\ k >= w.next /\ k \in Nat
    <3>1. ~(k < k)
      BY <2>1, <2>2
    <3> QED BY <2>1, <2>2, <3>1
  <2> HIDE DEF k, known
  <2>5. \E a \in S : a.picture = PicturesOf(w.job)[k]
    BY <2>4 DEF Missing
  <2> QED BY <2>3, <2>5 DEF AssetOf
<1> QED BY <1>1, <1>2

\* From a picture of the row on, a walk goes on to a download of what is missing
\* or leaves the row with its outcome.
LEMMA WalkKeeps ==
  ASSUME Inv, ShelfGrows, NEW w \in WorkerType, Walk(w, shelf'),
         worker.phase \in {"polling", "downloading"},
         w.job = worker.job, w.left = worker.left,
         Len(w.poll) = Len(PicturesOf(worker.job)), w.next \in Nat \ {0},
         w.first = None \/ (w.next > 1 /\ \E a \in shelf' : w.first = a.id)
           \/ Len(PicturesOf(worker.job)) # 1
  PROVE  Inv' /\ Final
<1> DEFINE n == Len(PicturesOf(worker.job))
           row == jobs[worker.job]
           first == First(w, shelf')
<1>1. /\ row \in Job /\ worker.job \in JobIds /\ worker.phase \in Working
      /\ worker.left \in 0..MaxPerTick /\ n \in Nat \ {0}
  BY RowOfTick
<1>2. DOMAIN w.poll = 1..n /\ DOMAIN w.poll \subseteq Nat
  <2>1. w.poll \in Seq({"pending", "gone"} \cup Terminal)
    BY DEF WorkerType
  <2> QED BY <1>1, <2>1, LenProperties
<1>3. first = w.first \/ \E a \in shelf' : first = a.id
  BY <1>2, FirstIs
<1>4. first \in {None} \cup 1..MaxAssets
  <2>1. w.first \in {None} \cup 1..MaxAssets
    BY DEF WorkerType
  <2>2. \A a \in shelf' : a.id \in 1..MaxAssets
    <3>1. made' \in Nat /\ made' <= MaxAssets /\ MaxAssets \in Nat
      BY BoundsAssumption DEF ShelfGrows
    <3> QED BY <3>1 DEF ShelfGrows
  <2> QED BY <1>3, <2>1, <2>2
<1>5. CASE Missing(w, shelf') # {}
  <2> DEFINE m == Oldest(Missing(w, shelf'))
  <2>1. m \in Missing(w, shelf')
    <3>1. Missing(w, shelf') \in SUBSET Nat
      BY <1>2 DEF Missing, Done
    <3> QED BY <1>5, <3>1, OldestIs
  <2>2. /\ worker' = [w EXCEPT !.phase = "downloading", !.first = first, !.next = m]
        /\ jobs' = jobs
    BY <1>5 DEF Walk
  <2>3. /\ m \in 1..n /\ m >= w.next
        /\ \A a \in shelf' : a.picture # PicturesOf(worker.job)[m]
    BY <1>2, <2>1 DEF Missing, Done
  <2>4. n = 1 => first = None
    <3> SUFFICES ASSUME n = 1 PROVE first = None
      OBVIOUS
    <3>1. m = 1 /\ ~(w.next > 1)
      BY <2>3
    <3>2. w.first = None
      BY <3>1
    <3>3. {k \in Done(w) : k >= w.next /\ \A i \in Missing(w, shelf') : k < i} = {}
      <4>1. \A k \in Done(w) : k = 1
        BY <1>2 DEF Done
      <4> QED BY <2>1, <3>1, <4>1
    <3> QED BY <3>2, <3>3 DEF First
  <2> HIDE DEF m, first
  <2>5. /\ worker' \in WorkerType /\ worker'.phase = "downloading" /\ worker'.job = worker.job
        /\ worker'.poll = w.poll /\ worker'.next = m /\ worker'.first = first
    <3>1. m \in Nat
      BY <1>1, <2>3
    <3> QED BY ONLY <1>4, <2>2, <3>1, w \in WorkerType, w.job = worker.job DEF WorkerType, Working
  <2>6. Downloads
    BY <1>2, <2>2, <2>3, <2>4, <2>5 DEF Downloads
  <2> QED BY <2>6, DownloadsKeeps
<1>6. CASE Missing(w, shelf') = {}
  <2> DEFINE new == Outcome(w, first)
  <2>1. Leave(new, worker.left)
    BY <1>6 DEF Walk
  <2>2. \/ new = row
        \/ \E status \in {"failed", "cancelled", "done"} :
             new = [row EXCEPT !.status = status, !.asset = first]
    BY DEF Outcome
  <2> HIDE DEF new, first
  <2>3. CASE new = row
    BY <1>1, <2>1, <2>3, LeaveLeaves
  <2>4. ASSUME NEW status \in {"failed", "cancelled", "done"},
               new = [row EXCEPT !.status = status, !.asset = first]
        PROVE  Inv' /\ Final
    <3>1. /\ new \in Job /\ new.status \in Settled /\ new.asset = first
          /\ new.request = row.request
      BY ONLY <1>1, <1>4, <2>4 DEF Job, Settled
    <3>2. \/ new.asset = None
          \/ \E a \in shelf' : a.id = new.asset
          \/ n # 1
      BY <1>3, <3>1
    <3> QED BY <1>1, <2>1, <3>1, <3>2, LeaveLeaves
  <2> QED BY <2>2, <2>3, <2>4
<1> QED BY <1>5, <1>6

\* A status that is read: a part that is gone makes the row uncertain, otherwise
\* the parts are walked from the first on.
LEMMA PolledKeeps ==
  ASSUME Inv, Polled
  PROVE  Inv' /\ Final
<1> DEFINE row == jobs[worker.job]
           ids == row.ids
           poll == [k \in DOMAIN ids |-> service[ids[k]].status]
           w == [worker EXCEPT !.poll = poll, !.next = 1]
           new == [row EXCEPT !.status = "uncertain"]
<1>1. /\ worker.phase = "polling"
      /\ UNCHANGED <<receipts, shelf, made, published, service, cut, crashes>>
      /\ Leave(new, worker.left) \/ Walk(w, shelf)
  BY DEF Polled
<1>2. ShelfGrows /\ shelf' = shelf
  BY <1>1, ShelfStays
<1>3. /\ row \in Job /\ worker.job \in JobIds /\ worker \in WorkerType
      /\ worker.phase \in Working /\ worker.left \in 0..MaxPerTick
      /\ Len(PicturesOf(worker.job)) \in Nat \ {0}
  BY <1>1, RowOfTick
<1>4. /\ Len(ids) = Len(PicturesOf(worker.job)) /\ ids \in Seq(Nat)
      /\ \A k \in DOMAIN ids : ids[k] \in DOMAIN service
      /\ worker.first = None
  <2>1. worker.job \in InState(jobs, Tracked)
    BY <1>1, <1>3 DEF Inv, Holds, InState, JobIds
  <2>2. ids \in Seq(Nat)
    BY <1>3 DEF Job
  <2> QED BY <1>1, <2>1, <2>2 DEF Inv, Follows, Holds
<1>5. poll \in Seq({"pending", "gone"} \cup Terminal) /\ Len(poll) = Len(ids)
  <2>1. DOMAIN ids = 1..Len(ids) /\ Len(ids) \in Nat
    BY <1>4, LenProperties
  <2>2. \A i \in DOMAIN service : service[i].status \in {"pending", "gone"} \cup Terminal
    BY DEF Inv, Typed, TypeOK
  <2>3. poll \in [1..Len(ids) -> {"pending", "gone"} \cup Terminal]
    BY <1>4, <2>1, <2>2
  <2>4. poll \in Seq({"pending", "gone"} \cup Terminal)
    BY <2>1, <2>3, SeqDef
  <2> QED BY <2>1, <2>3, <2>4, LenProperties
<1> HIDE DEF poll
<1>6. CASE Leave(new, worker.left)
  <2>1. /\ new \in Job /\ new.status \in Settled
        /\ new.request = row.request /\ new.asset = row.asset
    BY <1>3 DEF Job, Settled
  <2> HIDE DEF new
  <2> QED BY <1>2, <1>3, <1>6, <2>1, LeaveLeaves
<1>7. CASE Walk(w, shelf)
  <2>1. /\ w \in WorkerType /\ w.job = worker.job /\ w.left = worker.left
        /\ w.poll = poll /\ w.next = 1 /\ w.first = None
    BY <1>3, <1>4, <1>5 DEF WorkerType
  <2> HIDE DEF w
  <2>2. Walk(w, shelf') /\ worker.phase \in {"polling", "downloading"}
    BY <1>1, <1>2, <1>7
  <2>3. Len(w.poll) = Len(PicturesOf(worker.job)) /\ w.next \in Nat \ {0}
    BY <1>4, <1>5, <2>1
  <2> QED BY <1>2, <2>1, <2>2, <2>3, WalkKeeps
<1> QED BY <1>1, <1>6, <1>7

\* A download stores the picture it was made for and goes on after it.
LEMMA DownloadedKeeps ==
  ASSUME Inv, Downloaded
  PROVE  Inv' /\ Final
<1> DEFINE new == [id |-> made + 1, picture |-> PicturesOf(worker.job)[worker.next]]
           w == [worker EXCEPT !.next = worker.next + 1,
                   !.first = IF worker.first = None THEN new.id ELSE worker.first]
<1>1. /\ worker.phase = "downloading" /\ made < MaxAssets
      /\ shelf' = shelf \cup {new} /\ made' = made + 1 /\ Walk(w, shelf')
      /\ UNCHANGED <<receipts, published, service, cut, crashes>>
  BY DEF Downloaded
<1>2. /\ worker.job \in JobIds /\ worker \in WorkerType
      /\ Len(PicturesOf(worker.job)) \in Nat \ {0}
  BY <1>1, RowOfTick
<1>3. /\ Len(worker.poll) = Len(PicturesOf(worker.job))
      /\ worker.next \in 1..Len(PicturesOf(worker.job))
      /\ \A a \in shelf : a.picture # PicturesOf(worker.job)[worker.next]
      /\ Len(PicturesOf(worker.job)) = 1 => worker.first = None
  <2>1. worker.poll \in Seq({"pending", "gone"} \cup Terminal)
    BY <1>2 DEF WorkerType
  <2>2. DOMAIN worker.poll = 1..Len(worker.poll)
    BY <2>1, LenProperties
  <2> QED BY <1>1, <2>2 DEF Inv, Holds
<1>4. /\ made \in Nat /\ made + 1 \in 1..MaxAssets /\ MaxAssets \in Nat
      /\ PicturesOf(worker.job)[worker.next] \in Pictures
  <2>1. made \in 0..MaxAssets /\ MaxAssets \in Nat
    BY BoundsAssumption DEF Inv, Typed, TypeOK
  <2>2. PicturesOf(worker.job)[worker.next] \in Pictures
    BY <1>2, <1>3, RowTyped DEF Inv, Typed
  <2> QED BY <1>1, <2>1, <2>2
<1>5. ShelfGrows
  <2>1. shelf \subseteq [id : 1..made, picture : Pictures]
    BY DEF Inv, Typed, TypeOK
  <2>2. shelf' \subseteq [id : 1..made', picture : Pictures]
    BY <1>1, <1>4, <2>1
  <2>3. StoredOnce'
    BY <1>1, <1>3 DEF Inv, StoredOnce
  <2> QED BY <1>1, <1>4, <2>2, <2>3 DEF ShelfGrows
<1>6. /\ w \in WorkerType /\ w.job = worker.job /\ w.left = worker.left
      /\ w.poll = worker.poll /\ w.next = worker.next + 1
      /\ w.first = IF worker.first = None THEN made + 1 ELSE worker.first
  <2>1. /\ worker \in WorkerType /\ worker.next + 1 \in Nat
        /\ worker.first \in {None} \cup 1..MaxAssets /\ new.id \in 1..MaxAssets
        /\ new.id = made + 1
    BY <1>2, <1>3, <1>4 DEF WorkerType
  <2> HIDE DEF new
  <2>2. w \in WorkerType
    BY <2>1 DEF WorkerType
  <2>3. /\ w.job = worker.job /\ w.left = worker.left /\ w.poll = worker.poll
        /\ w.next = worker.next + 1
        /\ w.first = IF worker.first = None THEN new.id ELSE worker.first
    BY <2>1 DEF WorkerType
  <2> QED BY <2>1, <2>2, <2>3
<1>7. new \in shelf' /\ new.id = made + 1
  BY <1>1
<1> HIDE DEF w, new
<1>8. \/ w.next > 1 /\ \E a \in shelf' : w.first = a.id
      \/ Len(PicturesOf(worker.job)) # 1
  BY <1>2, <1>3, <1>6, <1>7
<1>9. /\ Len(w.poll) = Len(PicturesOf(worker.job)) /\ w.next \in Nat \ {0}
      /\ worker.phase \in {"polling", "downloading"}
  BY <1>1, <1>2, <1>3, <1>6
<1> QED BY <1>1, <1>5, <1>6, <1>8, <1>9, WalkKeeps

-----------------------------------------------------------------------------
(* The theorems.                                                           *)

\* The invariant holds over an empty queue.
LEMMA Initially == Init => Inv
<1> SUFFICES ASSUME Init PROVE Inv
  OBVIOUS
<1>1. /\ jobs = <<>> /\ Len(jobs) = 0 /\ JobIds = {} /\ jobs \in Seq(Job)
      /\ service = <<>> /\ DOMAIN service = {} /\ service \in Seq(EntryType)
  BY DEF Init, JobIds
<1>2. /\ worker = Idle /\ worker \in WorkerType /\ worker.phase = "idle"
      /\ worker.left \in 0..MaxPerTick
  BY BoundsAssumption DEF Init, Idle, WorkerType
<1>3. Typed
  BY <1>1, <1>2, BoundsAssumption DEF Init, Typed, TypeOK
<1>4. Holds /\ Follows /\ Sent
  BY <1>1, <1>2 DEF Holds, Follows, InState, Sent
<1>5. PublishedIsStored /\ SingleImageIsStored /\ StoredOnce
  BY <1>1 DEF Init, PublishedIsStored, SingleImageIsStored, StoredOnce
<1> QED BY <1>3, <1>4, <1>5 DEF Inv

\* Every step keeps the invariant and what is settled.
LEMMA Inductive == Inv /\ [Next]_vars => Inv' /\ Final
<1> SUFFICES ASSUME Inv, [Next]_vars PROVE Inv' /\ Final
  OBVIOUS
<1>1. ASSUME NEW r \in Requests, Enqueue(r) \/ EnqueueCut(r) PROVE Inv' /\ Final
  BY <1>1, EnqueueAges, AgesKeeps
<1>2. CASE EnqueueRefused
  BY <1>2, RefusedAges, AgesKeeps
<1>3. CASE Crash
  BY <1>3, CrashAges, AgesKeeps
<1>4. ASSUME NEW s \in Scenes, SelectImage(s) PROVE Inv' /\ Final
  BY <1>4, SelectKeeps
<1>5. CASE Tick \/ ServiceTakes
  BY <1>5, TickKeeps, TakesKeeps
<1>6. CASE Accepted \/ Uncertain \/ Rejected \/ RateLimited
  BY <1>6, SubmitKeeps
<1>7. CASE Polled \/ PollFailed \/ Downloaded \/ DownloadFailed
  BY <1>7, PolledKeeps, FailuresKeep, DownloadedKeeps
<1>8. ASSUME NEW i \in DOMAIN service, ServiceSettles(i) \/ ServiceForgets(i)
      PROVE  Inv' /\ Final
  BY <1>8, ServiceKeeps
<1>9. CASE UNCHANGED vars
  <2>1. /\ UNCHANGED <<jobs, receipts, shelf, made, published, worker, service, cut, crashes>>
        /\ JobIds' = JobIds /\ \A j : PicturesOf(j)' = PicturesOf(j) /\ Mine(j)' = Mine(j)
    BY <1>9 DEF vars, JobIds, PicturesOf, Mine
  <2>2. Typed' /\ Holds' /\ Follows'
    BY <2>1 DEF Inv, Typed, TypeOK, Holds, Follows
  <2>3. Sent' /\ PublishedIsStored' /\ SingleImageIsStored' /\ StoredOnce' /\ Final
    BY <2>1 DEF Inv, Sent, Underway, PublishedIsStored, SingleImageIsStored, StoredOnce, Final
  <2> QED BY <2>2, <2>3 DEF Inv
<1> QED BY <1>1, <1>2, <1>3, <1>4, <1>5, <1>6, <1>7, <1>8, <1>9 DEF Next

\* The inductive invariant holds in every state of the queue.
LEMMA Invariance == Spec => []Inv
  BY Initially, Inductive, PTL DEF Spec

\* One row is followed at a time, and what was sent twice was cut by a crash.
LEMMA InvImplies ==
  ASSUME Inv
  PROVE  QueueIsSound
<1>1. OneTracked
  <2>1. CASE InState(jobs, Tracked) = {}
    BY <2>1, FS_EmptySet DEF OneTracked
  <2>2. CASE InState(jobs, Tracked) # {}
    <3>1. PICK j : InState(jobs, Tracked) = {j}
      BY <2>2 DEF Inv, Follows
    <3>2. Cardinality({j}) = 1
      BY FS_Singleton
    <3> QED BY <3>1, <3>2 DEF OneTracked
  <2> QED BY <2>1, <2>2
<1>2. SubmittedOnce
  <2> SUFFICES ASSUME NEW j \in JobIds, j \notin cut PROVE ~(Takes(j) > 1)
    BY DEF SubmittedOnce
  <2>1. IsFiniteSet(Mine(j)) /\ Cardinality(Mine(j)) <= Len(PicturesOf(j))
    BY DEF Inv, Sent
  <2>2. Cardinality(Mine(j)) \in Nat
    BY <2>1, FS_CardinalityType
  <2>3. Len(PicturesOf(j)) \in Nat \ {0}
    BY RowTyped DEF Inv, Typed
  <2>4. Takes(j) = Cardinality(Mine(j)) \div Len(PicturesOf(j))
    BY DEF Takes, Mine
  <2> QED BY <2>1, <2>2, <2>3, <2>4, AtMostOnce
<1> QED BY <1>1, <1>2 DEF Inv, Typed, QueueIsSound

\* For every batch and every limit, and whatever requests evict and forget while a
\* tick waits: what is published is stored, a single image that is named can be
\* read, no picture is stored twice, one row is followed at a time, and the
\* service is given the work of a row once unless a crash cut its submission.
THEOREM QueueSound == Spec => []QueueIsSound
  BY Invariance, InvImplies, PTL

\* No step of a suspended tick changes a row that was settled.
THEOREM SettledFinal == Spec => SettledIsFinal
<1>1. Inv /\ [Next]_vars => [Final]_vars
  BY Inductive
<1> QED BY <1>1, Invariance, PTL DEF Spec, SettledIsFinal, Final
=============================================================================
