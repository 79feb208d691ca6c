--------------------------- MODULE RoleplayChat ---------------------------
(***************************************************************************)
(* The chat of one roleplay session (server/src/routes/roleplay): requests *)
(* that add turns, regenerate or edit them, or change the active branch    *)
(* share a generation lock held in memory; stop, delete, cancel and a      *)
(* client that goes away do not take it.  Messages form a tree of which    *)
(* one leaf is active, and the synthesized scene is derived from the       *)
(* branch of that leaf.                                                    *)
(*                                                                         *)
(* Every repository call is synchronous, so a request is interrupted only  *)
(* while it waits for the language model: to route a room, to write a      *)
(* reply, to synthesize the scene.  Each action is one stretch between.    *)
(***************************************************************************)
EXTENDS Naturals, Sequences, FiniteSets

CONSTANTS
  Requests,     \* generation requests a client sends
  Kinds,        \* the routes they may take
  None,
  MaxSpeakers,  \* replies of one room turn
  MaxMessages, MaxCuts   \* bounds of the model

Streamed == {"stream", "swipe-stream"}
Rooms == {"room-turn", "room-continue"}
Turns == {"message", "stream", "room-turn", "room-continue", "continue"}
Rebranching == {"swipe", "swipe-stream", "branch", "activate"}

ASSUME KindsAssumption == Kinds \subseteq Turns \cup Rebranching
ASSUME NoneAssumption == None \notin Requests
ASSUME CutsAssumption == MaxCuts \in Nat

VARIABLES
  session,    \* "setup", "active", "closed" or "deleted"
  messages,   \* the session's messages in the order of `seq'
  leaf,       \* active_leaf_id, 0 when there is none
  scene,      \* the leaf the synthesized scene was derived from, or 0
  lock,       \* generationRegistry.inFlight: its holder, or None
  active,     \* generationRegistry.active: the request that can be aborted
  aborted,    \* requests whose AbortController has been aborted
  req,        \* what each request is doing
  hushed,     \* history: requests aborted while the model was still writing
  cuts

vars == <<session, messages, leaf, scene, lock, active, aborted, req, hushed,
          cuts>>

Messages == 1..Len(messages)
Ended == {"done", "aborted", "failed"}
Waiting == {"routing", "generating", "summarising"}

Doing(pc, kind, anchor, group, index, left, seen) ==
  [pc |-> pc, kind |-> kind, anchor |-> anchor, group |-> group, index |-> index,
   left |-> left, seen |-> seen]

New == Doing("new", "message", 0, 0, 0, 0, 0)

Init ==
  /\ session = "setup" /\ messages = <<>> /\ leaf = 0 /\ scene = 0
  /\ lock = None /\ active = None /\ aborted = {}
  /\ req = [r \in Requests |-> New]
  /\ hushed = {} /\ cuts = 0

(***************************************************************************)
(* The message tree.                                                       *)
(***************************************************************************)
Message(role, parent, group, index, r) ==
  [role |-> role, parent |-> parent, index |-> index, by |-> r,
   group |-> IF group = 0 THEN Len(messages) + 1 ELSE group]

\* addMessage: the message and the active leaf change in one transaction.
Add(role, parent, group, index, r) ==
  /\ messages' = Append(messages, Message(role, parent, group, index, r))
  /\ leaf' = Len(messages) + 1

\* Mutation: the next number is the greatest one in use.
GreatestSwipeIndex(g) ==
  LET used == {messages[m].index : m \in {k \in Messages : messages[k].group = g}}
  IN  IF used = {} THEN 0 ELSE CHOOSE i \in used : \A j \in used : j <= i

NextSwipeIndex(g) ==
  LET used == {messages[m].index : m \in {k \in Messages : messages[k].group = g}}
  IN  IF used = {} THEN 0 ELSE 1 + (CHOOSE i \in used : \A j \in used : j <= i)

\* The messages from the root to m.
Branch(m) ==
  LET up[k \in 0..Len(messages)] ==
        IF k = 0 THEN {} ELSE {k} \cup up[messages[k].parent]
  IN  up[m]

(***************************************************************************)
(* Admission: the session is open, and the lock is free.                   *)
(***************************************************************************)
Open == session \in {"setup", "active"}

\* Mutation: a request does not look at the lock.
AcquireAnyway(r) == lock' = r

Acquire(r) == lock = None /\ lock' = r

Admit(r, kind) ==
  /\ req[r].pc = "new" /\ kind \in Kinds
  /\ Len(messages) < MaxMessages   \* bound
  /\ Acquire(r)
  /\ UNCHANGED <<aborted, hushed, cuts>>

Release(r) ==
  /\ lock' = None
  /\ active' = IF active = r THEN None ELSE active

Generating(r, kind, anchor, group, index, left) ==
  /\ req' = [req EXCEPT ![r] =
       Doing("generating", kind, anchor, group, index, left, 0)]
  /\ active' = IF kind \in Streamed THEN r ELSE active

\* messages and stream: the user's turn is stored before the model is asked.
BeginTurn(r, kind) ==
  /\ kind \in {"message", "stream"}
  /\ Admit(r, kind) /\ Open
  /\ session' = "active"
  /\ Add("user", leaf, 0, 0, r)
  /\ Generating(r, kind, leaf', 0, 0, 1)
  /\ UNCHANGED scene

BeginContinue(r) ==
  /\ Admit(r, "continue") /\ Open
  /\ session' = "active"
  /\ Generating(r, "continue", leaf, 0, 0, 1)
  /\ UNCHANGED <<messages, leaf, scene>>

\* A room is routed first; a continuation needs a reply to go on from.
BeginRoom(r, kind) ==
  /\ kind \in Rooms
  /\ Admit(r, kind) /\ Open
  /\ kind = "room-continue" => leaf # 0 /\ messages[leaf].role = "character"
  /\ session' = IF kind = "room-turn" THEN "active" ELSE session
  /\ req' = [req EXCEPT ![r] = Doing("routing", kind, leaf, 0, 0, 0, 0)]
  /\ UNCHANGED <<messages, leaf, scene, active>>

\* A room's own turn stores the user's message next, which needs the session; a
\* continuation asks the model for its first reply before it finds out.
Routed(r) ==
  /\ req[r].pc = "routing"
  /\ req[r].kind = "room-turn" => session # "deleted"
  /\ \E n \in 1..MaxSpeakers :
       IF req[r].kind = "room-turn"
       THEN /\ Add("user", leaf, 0, 0, r)
            /\ Generating(r, "room-turn", leaf', 0, 0, n)
       ELSE /\ Generating(r, "room-continue", req[r].anchor, 0, 0, n)
            /\ UNCHANGED <<messages, leaf>>
  /\ UNCHANGED <<session, scene, lock, aborted, hushed, cuts>>

\* swipe: another reply to the user's turn that m answers.  A streamed swipe
\* takes its number before the model is asked, a buffered one afterwards.
BeginSwipe(r, kind, m) ==
  /\ kind \in {"swipe", "swipe-stream"}
  /\ Admit(r, kind) /\ Open
  /\ LET p == messages[m].parent
     IN  /\ messages[m].role = "character"
         /\ p # 0 /\ messages[p].role = "user"
         /\ Generating(r, kind, p, messages[m].group,
                       NextSwipeIndex(messages[m].group), 1)
  /\ UNCHANGED <<session, messages, leaf, scene>>

\* branch: the user's turn of the exchange m belongs to is written again.
BeginBranch(r, m) ==
  /\ Admit(r, "branch") /\ Open
  /\ session' = "active"
  /\ LET turn == IF messages[m].role = "user" THEN m ELSE messages[m].parent
         edits == turn # 0 /\ messages[turn].role = "user"
         group == IF edits THEN messages[turn].group ELSE 0
     IN  Add("user", IF edits THEN messages[turn].parent ELSE messages[m].parent,
             group, IF edits THEN NextSwipeIndex(group) ELSE 0, r)
  /\ Generating(r, "branch", leaf', 0, 0, 1)
  /\ UNCHANGED scene

(***************************************************************************)
(* After the last reply: derived state of another branch is dropped before *)
(* the scene is synthesized anew from the active branch.                   *)
(***************************************************************************)
\* Mutation: derived state outlives a change of branch.
KeptSceneAlways(kind) == scene

KeptScene(kind) == IF kind \in Rebranching THEN 0 ELSE scene

Summarising(r, kind, seen) ==
  /\ scene' = KeptScene(kind)
  /\ req' = [req EXCEPT ![r] = Doing("summarising", kind, 0, 0, 0, 0, seen)]

Activate(r, m) ==
  /\ Admit(r, "activate") /\ session # "deleted"
  /\ leaf' = m
  /\ Summarising(r, "activate", m)
  /\ UNCHANGED <<session, messages, active>>

\* The synthesis succeeds, or fails and leaves the scene alone.
Synthesized(r) ==
  /\ req[r].pc = "summarising"
  /\ scene' \in IF session = "deleted" THEN {0} ELSE {scene, req[r].seen}
  /\ req' = [req EXCEPT ![r].pc = "done"]
  /\ Release(r)
  /\ UNCHANGED <<session, messages, leaf, aborted, hushed, cuts>>

(***************************************************************************)
(* The model answers (a provider error is answered with a safe text).      *)
(***************************************************************************)
\* Mutation: the answer is not checked against an abort.
SilencedByStop(r) == req[r].kind \in Streamed /\ ~Open

\* What a streamed generation looks at before it stores its reply.
Silenced(r) == req[r].kind \in Streamed /\ (r \in aborted \/ ~Open)

\* The number a reply takes among its siblings.
SwipeIndex(r) ==
  IF req[r].kind = "swipe" THEN NextSwipeIndex(req[r].group) ELSE req[r].index

Stores(r) ==
  /\ req[r].pc = "generating"
  /\ ~Silenced(r) /\ session # "deleted"
  /\ Add("character", req[r].anchor, req[r].group, SwipeIndex(r), r)

\* The next speaker of a room goes on from the message at anchor.
Goes(r, anchor) ==
  req' = [req EXCEPT ![r] =
    Doing("generating", req[r].kind, anchor, req[r].group, req[r].index, req[r].left - 1, 0)]

\* Mutation: every reply of a room answers the user's turn itself.
RepliedApart(r) ==
  /\ Stores(r)
  /\ IF req[r].left > 1
     THEN Goes(r, req[r].anchor) /\ UNCHANGED scene
     ELSE Summarising(r, req[r].kind, leaf')
  /\ UNCHANGED <<session, lock, active, aborted, hushed, cuts>>

Replied(r) ==
  /\ Stores(r)
  /\ IF req[r].left > 1
     THEN Goes(r, leaf') /\ UNCHANGED scene
     ELSE Summarising(r, req[r].kind, leaf')
  /\ UNCHANGED <<session, lock, active, aborted, hushed, cuts>>

\* Mutation: an aborted stream leaves by a path of its own.
EndedAbruptly(r, pc) ==
  /\ req' = [req EXCEPT ![r].pc = pc]
  /\ active' = IF active = r THEN None ELSE active
  /\ UNCHANGED lock

End(r, pc) ==
  /\ req' = [req EXCEPT ![r].pc = pc]
  /\ Release(r)

AbortObserved(r) ==
  /\ req[r].pc = "generating" /\ Silenced(r)
  /\ End(r, "aborted")
  /\ UNCHANGED <<session, messages, leaf, scene, aborted, hushed, cuts>>

\* The session is gone: storing a message or the usage of the routing fails, and
\* the request with it.
Fails(r) ==
  /\ req[r].pc \in {"routing", "generating"} /\ ~Silenced(r)
  /\ session = "deleted"
  /\ End(r, "failed")
  /\ UNCHANGED <<session, messages, leaf, scene, aborted, hushed, cuts>>

(***************************************************************************)
(* What does not take the lock.                                            *)
(***************************************************************************)
Abort == aborted' = IF active = None THEN aborted ELSE aborted \cup {active}

Hush == hushed' = IF active # None /\ req[active].pc = "generating"
                  THEN hushed \cup {active} ELSE hushed

Stop ==
  /\ session \in {"setup", "active"}
  /\ session' = "closed" /\ Abort /\ Hush
  /\ UNCHANGED <<messages, leaf, scene, lock, active, req, cuts>>

\* Mutation: the transcript goes and the session keeps its active leaf.
DeletePartly ==
  /\ session # "deleted"
  /\ session' = "deleted" /\ messages' = <<>> /\ scene' = 0
  /\ Abort /\ Hush
  /\ UNCHANGED <<leaf, lock, active, req, cuts>>

Delete ==
  /\ session # "deleted"
  /\ session' = "deleted" /\ messages' = <<>> /\ leaf' = 0 /\ scene' = 0
  /\ Abort /\ Hush
  /\ UNCHANGED <<lock, active, req, cuts>>

Cancel ==
  /\ active # None /\ active \notin aborted /\ session # "deleted"
  /\ Abort /\ Hush
  /\ UNCHANGED <<session, messages, leaf, scene, lock, active, req, cuts>>

\* The client of a stream goes away.
Disconnect ==
  /\ active # None /\ active \notin aborted
  /\ Abort /\ Hush
  /\ UNCHANGED <<session, messages, leaf, scene, lock, active, req, cuts>>

(***************************************************************************)
(* A crash loses what is in memory.  It can also separate the message or   *)
(* the active leaf from the reset of the derived scene that follows it.    *)
(***************************************************************************)
Lost ==
  /\ cuts < MaxCuts /\ cuts' = cuts + 1
  /\ lock' = None /\ active' = None

Crash ==
  /\ Lost /\ lock # None
  /\ req' = [r \in Requests |->
       IF req[r].pc \in Waiting THEN [req[r] EXCEPT !.pc = "failed"] ELSE req[r]]
  /\ UNCHANGED <<session, messages, leaf, scene, aborted, hushed>>

ReplyCut(r) ==
  /\ Lost /\ Stores(r)
  /\ req' = [req EXCEPT ![r].pc = "failed"]
  /\ UNCHANGED <<session, scene, aborted, hushed>>

ActivateCut(r, m) ==
  /\ "activate" \in Kinds /\ req[r].pc = "new" /\ session # "deleted" /\ lock = None
  /\ Lost
  /\ leaf' = m
  /\ req' = [req EXCEPT ![r].pc = "failed"]
  /\ UNCHANGED <<session, messages, scene, aborted, hushed>>

Request(r) ==
  \/ \E kind \in Kinds :
       \/ BeginTurn(r, kind) \/ BeginRoom(r, kind)
       \/ \E m \in Messages : BeginSwipe(r, kind, m)
  \/ BeginContinue(r)
  \/ \E m \in Messages : BeginBranch(r, m) \/ Activate(r, m)

Answer(r) ==
  Routed(r) \/ Replied(r) \/ AbortObserved(r) \/ Fails(r) \/ Synthesized(r)

Next ==
  \/ \E r \in Requests : Request(r) \/ Answer(r)
  \/ Stop \/ Delete \/ Cancel \/ Disconnect
  \/ Crash
  \/ \E r \in Requests :
       ReplyCut(r) \/ \E m \in Messages : ActivateCut(r, m)

Spec == Init /\ [][Next]_vars

\* Every call of the model ends: it answers, fails or times out.
FairSpec ==
  /\ Spec
  /\ \A r \in Requests : []<>(req[r].pc \notin Waiting) \/ []<><<req[r]' # req[r]>>_req

(***************************************************************************)
(* Properties                                                              *)
(***************************************************************************)
MessageType ==
  [role : {"user", "character"}, parent : Nat, index : Nat, group : Nat, by : Requests]

\* The session, its tree and the requests have the shapes the code gives them.
TypeOK ==
  /\ session \in {"setup", "active", "closed", "deleted"}
  /\ messages \in Seq(MessageType)
  /\ \A m \in Messages : messages[m].parent < m
  /\ leaf \in 0..Len(messages) /\ scene \in 0..Len(messages)
  /\ lock \in Requests \cup {None} /\ active \in Requests \cup {None}
  /\ req \in [Requests ->
       [pc : {"new"} \cup Waiting \cup Ended, kind : Turns \cup Rebranching,
        anchor : Nat, group : Nat, index : Nat, left : Nat, seen : Nat]]
  /\ aborted \subseteq Requests /\ hushed \subseteq Requests
  /\ cuts \in 0..MaxCuts

\* Whoever waits for the model holds the session's lock, and what can be
\* aborted is the stream that holds it, whatever ended the one before.
LockIsOwned ==
  /\ \A r \in Requests : req[r].pc \in Waiting <=> lock = r
  /\ active # None => active = lock /\ req[active].kind \in Streamed

\* A turn only ever adds to what the reader sees: unless a request swipes,
\* edits or activates, the new leaf goes on from the old one, although its
\* parent was chosen before the model was asked.
TurnsExtendTheBranch ==
  [][(leaf' # leaf /\ leaf' # 0 /\ messages' # messages
      /\ messages'[Len(messages')].by \in {r \in Requests : req'[r].kind \in Turns})
       => messages'[leaf'].parent = leaf]_vars

\* The siblings of a message are numbered apart, though a streamed swipe takes
\* its number long before it is stored.
SwipesAreNumbered ==
  \A m, n \in Messages :
    (m # n /\ messages[m].group = messages[n].group) =>
      messages[m].index # messages[n].index

\* A stream that is stopped, cancelled, deleted or left while the model writes
\* stores no reply.
AbortedStaysSilent ==
  \A m \in Messages : messages[m].role = "character" => messages[m].by \notin hushed

Editing == lock # None /\ req[lock].kind = "branch" /\ req[lock].pc = "generating"

\* The synthesized scene belongs to the branch the reader is on: once an edit is
\* answered or has failed, no facts of a discarded branch are carried on.
SceneOfBranch == (scene # 0 /\ ~Editing /\ cuts = 0) => scene \in Branch(leaf)

\* A session does not stay locked: whatever ends a generation frees it.
LockIsFreed == []<>(lock = None)

\* A session under its lock: one request waits for the model, only its stream
\* can be aborted, and no two siblings share a number.
SessionIsSound == TypeOK /\ LockIsOwned /\ SwipesAreNumbered
=============================================================================
