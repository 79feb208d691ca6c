------------------------- MODULE RoleplayChatProofs -------------------------
(***************************************************************************)
(* The safety of RoleplayChat for every set of requests and routes, every  *)
(* length of a transcript and every number of crashes.                     *)
(*                                                                         *)
(* The inductive invariant Inv adds to the properties what a request that  *)
(* waits for the model remembers of the tree: that its numbers are within  *)
(* it (WithinTree), that the swipe number it took is still free            *)
(* (Numbered), that a turn still answers the active leaf (Follows), and    *)
(* that a stream has stored nothing yet (Silent).  A step has one of four  *)
(* shapes: a request begins, stores a reply, ends, or is not involved.     *)
(* There is one lemma per shape and one per action.                        *)
(*                                                                         *)
(* The scene is a second induction over the first: Branch is a recursive   *)
(* function, and what a new message does to it is shown once, for any      *)
(* transcript.                                                             *)
(***************************************************************************)
EXTENDS RoleplayChat, SequenceTheorems, WellFoundedInduction, TLAPS

-----------------------------------------------------------------------------
(* The number of the next swipe.                                           *)

\* A set of naturals that is not empty has a least member.
LEMMA LeastNatural ==
  ASSUME NEW T \in SUBSET Nat, T # {}
  PROVE  \E x \in T : \A y \in T : x <= y
<1>1. PICK x \in T : \A y \in T : <<y, x>> \notin OpToRel(<, Nat)
  BY NatLessThanWellFounded, WFMin
<1>2. \A y \in T : ~(y < x)
  BY <1>1 DEF OpToRel
<1> QED BY <1>2

\* A bounded set of naturals that is not empty has a greatest member.
LEMMA GreatestNatural ==
  ASSUME NEW U \in SUBSET Nat, U # {}, NEW b \in Nat, \A u \in U : u <= b
  PROVE  \E x \in U : \A y \in U : y <= x
<1> DEFINE T == {n \in Nat : \A u \in U : u <= n}
<1>1. T \in SUBSET Nat /\ b \in T
  OBVIOUS
<1>2. PICK n \in T : \A y \in T : n <= y
  BY <1>1, LeastNatural
<1>3. n \in U
  <2> SUFFICES ASSUME n \notin U PROVE FALSE
    OBVIOUS
  <2>1. \A u \in U : u < n
    BY <1>1
  <2>2. n # 0
    <3>1. PICK u \in U : TRUE
      OBVIOUS
    <3> QED BY <2>1, <3>1
  <2>3. n \in Nat /\ n - 1 \in Nat
    BY <1>1, <2>2
  <2>4. \A u \in U : u <= n - 1
    BY <2>1, <2>3
  <2>5. n - 1 \in T
    BY <2>3, <2>4
  <2> QED BY <1>2, <2>3, <2>5
<1> QED BY <1>1, <1>2, <1>3

\* What a request remembers of the tree lies within it, and the tree is empty
\* once the session is deleted.
WithinTree ==
  /\ \A m \in Messages : messages[m].group \in 1..Len(messages) /\ messages[m].index < m
  /\ session = "deleted" => messages = <<>>
  /\ session # "deleted" => \A r \in Requests :
       /\ req[r].anchor <= Len(messages) /\ req[r].seen <= Len(messages)
       /\ req[r].group <= Len(messages) /\ req[r].index <= Len(messages)

\* No message of the group has the number i or a greater one.
Free(group, i) == \A m \in Messages : messages[m].group = group => messages[m].index < i

\* What the type of the transcript says of its messages.
LEMMA MessageTyped ==
  ASSUME messages \in Seq(MessageType)
  PROVE  /\ Len(messages) \in Nat
         /\ \A m \in Messages :
              /\ messages[m] \in MessageType
              /\ messages[m].index \in Nat /\ messages[m].group \in Nat
              /\ messages[m].parent \in Nat /\ messages[m].by \in Requests
<1>1. Len(messages) \in Nat
  OBVIOUS
<1>2. \A m \in Messages : messages[m] \in MessageType
  BY ElementOfSeq DEF Messages
<1> QED BY <1>1, <1>2 DEF MessageType

\* The next number of a group is free, and within the tree.
LEMMA NextIsFree ==
  ASSUME TypeOK, WithinTree, NEW g \in Nat
  PROVE  /\ NextSwipeIndex(g) \in Nat /\ NextSwipeIndex(g) <= Len(messages)
         /\ Free(g, NextSwipeIndex(g))
<1> DEFINE used == {messages[m].index : m \in {k \in Messages : messages[k].group = g}}
<1>1. Len(messages) \in Nat /\ \A m \in Messages : messages[m].index \in Nat
  BY MessageTyped DEF TypeOK
<1>2. \A u \in used : \E m \in Messages : messages[m].group = g /\ u = messages[m].index
  OBVIOUS
<1>3. \A m \in Messages : messages[m].group = g => messages[m].index \in used
  OBVIOUS
<1>4. NextSwipeIndex(g) =
        IF used = {} THEN 0 ELSE 1 + (CHOOSE i \in used : \A j \in used : j <= i)
  BY DEF NextSwipeIndex
<1> HIDE DEF used
<1>5. used \in SUBSET Nat /\ \A u \in used : u < Len(messages)
  BY <1>1, <1>2 DEF WithinTree, Messages
<1>6. CASE used = {}
  BY <1>1, <1>3, <1>4, <1>6 DEF Free
<1>7. CASE used # {}
  <2> DEFINE top == CHOOSE i \in used : \A j \in used : j <= i
  <2>1. \E i \in used : \A j \in used : j <= i
    <3>1. \A u \in used : u <= Len(messages)
      BY <1>1, <1>5
    <3> QED BY <1>1, <1>5, <1>7, <3>1, GreatestNatural
  <2>2. top \in used /\ \A j \in used : j <= top
    BY <2>1
  <2>3. NextSwipeIndex(g) = 1 + top
    BY <1>4, <1>7
  <2> HIDE DEF top
  <2>4. top \in Nat /\ top < Len(messages)
    BY <1>5, <2>2
  <2>5. \A m \in Messages : messages[m].group = g => messages[m].index <= top
    BY <1>3, <2>2
  <2> QED BY <1>1, <2>3, <2>4, <2>5 DEF Free
<1> QED BY <1>6, <1>7

-----------------------------------------------------------------------------
(* The inductive invariant.                                                *)

ReqType ==
  [pc : {"new"} \cup Waiting \cup Ended, kind : Turns \cup Rebranching,
   anchor : Nat, group : Nat, index : Nat, left : Nat, seen : Nat]

\* The number a request will give its reply is free, and only rooms reply more
\* than once.
Numbered ==
  /\ SwipesAreNumbered
  /\ \A r \in Requests : req[r].pc = "generating" =>
       /\ req[r].kind # "swipe" /\ req[r].group # 0 => Free(req[r].group, req[r].index)
       /\ req[r].left > 1 => req[r].kind \in Rooms /\ req[r].group = 0

\* A turn that waits for the model answers the active leaf.
Follows ==
  \A r \in Requests :
    /\ req[r].pc = "routing" => req[r].kind \in Rooms
    /\ session # "deleted" /\ req[r].pc \in {"routing", "generating"} /\ req[r].kind \in Turns
         => req[r].anchor = leaf

\* Who has stored a reply and still writes is a room; who was hushed is a stream.
Silent ==
  /\ hushed \subseteq aborted
  /\ \A r \in hushed : req[r].pc \notin {"new", "routing"} /\ req[r].kind \in Streamed
  /\ \A m \in Messages : messages[m].role = "character" =>
       LET by == messages[m].by
       IN  /\ by \notin hushed /\ req[by].pc \notin {"new", "routing"}
           /\ req[by].pc = "generating" => req[by].kind \in Rooms

Inv ==
  TypeOK /\ LockIsOwned /\ WithinTree /\ Numbered /\ Follows /\ Silent

\* What TurnsExtendTheBranch says of one step.
Extends ==
  (leaf' # leaf /\ leaf' # 0 /\ messages' # messages
   /\ messages'[Len(messages')].by \in {r \in Requests : req'[r].kind \in Turns})
    => messages'[leaf'].parent = leaf

-----------------------------------------------------------------------------
(* The shapes of a step.                                                   *)

\* The transcript has one message more, numbered apart from its siblings.
Grown(role, r) ==
  /\ messages' \in Seq(MessageType) /\ Len(messages') = Len(messages) + 1
  /\ leaf' = Len(messages')
  /\ \A m \in Messages : messages'[m] = messages[m]
  /\ messages'[leaf'].role = role /\ messages'[leaf'].by = r
  /\ messages'[leaf'].parent < leaf' /\ messages'[leaf'].index < leaf'
  /\ messages'[leaf'].group \in 1..leaf'
  /\ Free(messages'[leaf'].group, messages'[leaf'].index)

\* Only r may do something else than before.
OnlyReq(r) ==
  /\ req' \in [Requests -> ReqType]
  /\ \A q \in Requests : q # r => req'[q] = req[q]
  /\ req'[r].anchor <= Len(messages') /\ req'[r].seen <= Len(messages')
  /\ req'[r].group <= Len(messages') /\ req'[r].index <= Len(messages')

\* The variables no other part of the invariant looks at keep their types.
RestTyped ==
  /\ session' \in {"setup", "active", "closed", "deleted"}
  /\ scene' \in 0..Len(messages')
  /\ cuts' \in 0..MaxCuts

Begins(r) ==
  /\ \/ req[r].pc = "new" /\ lock = None
     \/ req[r].pc = "routing" /\ lock = r
  /\ lock' = r /\ req'[r].pc \in Waiting
  /\ active' = IF req'[r].kind \in Streamed THEN r ELSE active
  /\ session # "deleted" /\ session' # "deleted" /\ RestTyped
  /\ OnlyReq(r)
  /\ \/ UNCHANGED messages /\ leaf' \in 0..Len(messages)
     \/ Grown("user", r) /\ (req'[r].kind \in Turns => messages'[leaf'].parent = leaf)
  /\ req'[r].pc = "routing" => req'[r].kind \in Rooms
  /\ req'[r].kind \in Turns => req'[r].anchor = leaf'
  /\ req'[r].kind # "swipe" /\ req'[r].group # 0 => Free(req'[r].group, req'[r].index) /\ UNCHANGED messages
  /\ req'[r].left > 1 => req'[r].kind \in Rooms /\ req'[r].group = 0
  /\ UNCHANGED <<aborted, hushed>>

Replies(r) ==
  /\ req[r].pc = "generating" /\ ~Silenced(r) /\ session # "deleted"
  /\ UNCHANGED <<session, aborted, hushed>> /\ RestTyped
  /\ Grown("character", r) /\ messages'[leaf'].parent = req[r].anchor
  /\ OnlyReq(r) /\ req'[r].kind = req[r].kind
  /\ \/ /\ req[r].left > 1 /\ req'[r].pc = "generating" /\ req'[r].anchor = leaf'
        /\ req'[r].group = req[r].group /\ UNCHANGED <<lock, active>>
     \/ req'[r].pc = "summarising" /\ UNCHANGED <<lock, active>>
     \/ req'[r].pc = "failed" /\ lock' = None /\ active' = None

\* Whoever waited has ended, and nobody else begins.
Ends ==
  /\ lock' = None /\ active' = None
  /\ req' \in [Requests -> ReqType]
  /\ \A q \in Requests :
       /\ req'[q].pc \notin Waiting
       /\ req'[q].pc = req[q].pc \/ req'[q].pc \in Ended
       /\ req'[q].kind = req[q].kind /\ req'[q].anchor = req[q].anchor
       /\ req'[q].group = req[q].group /\ req'[q].index = req[q].index
       /\ req'[q].seen = req[q].seen
  /\ UNCHANGED <<session, messages, aborted, hushed>>
  /\ leaf' \in 0..Len(messages) /\ RestTyped

\* No request is involved, though the one that can be aborted may be.
Rests ==
  /\ UNCHANGED <<lock, active, req>>
  /\ \/ UNCHANGED <<messages, leaf>> /\ (session' = "deleted" <=> session = "deleted")
     \/ session' = "deleted" /\ messages' = <<>> /\ leaf' = 0
  /\ aborted \subseteq aborted' /\ aborted' \subseteq Requests
  /\ \/ UNCHANGED hushed
     \/ /\ active # None /\ req[active].pc = "generating"
        /\ hushed' = hushed \cup {active} /\ active \in aborted'
  /\ RestTyped

-----------------------------------------------------------------------------
(* Every shape keeps the invariant.                                        *)

\* Where a message and its parent are in the tree.
LEMMA MessageInTree ==
  ASSUME TypeOK, WithinTree, NEW k \in Messages
  PROVE  /\ Len(messages) \in Nat /\ k \in Nat /\ k <= Len(messages)
         /\ messages[k].parent \in Nat /\ messages[k].parent < k
         /\ messages[k].group \in Nat /\ messages[k].group <= Len(messages)
<1>1. /\ Len(messages) \in Nat /\ messages[k].parent \in Nat /\ messages[k].group \in Nat
  BY MessageTyped DEF TypeOK
<1>2. messages[k].parent < k /\ messages[k].group \in 1..Len(messages)
  BY DEF TypeOK, WithinTree
<1> QED BY <1>1, <1>2 DEF Messages

\* A grown transcript is a tree whose siblings are numbered apart.
LEMMA GrownTree ==
  ASSUME TypeOK, WithinTree, SwipesAreNumbered,
         NEW role \in {"user", "character"}, NEW r \in Requests, Grown(role, r)
  PROVE  /\ Len(messages) \in Nat /\ leaf' = Len(messages) + 1 /\ Len(messages') = leaf'
         /\ Messages' = Messages \cup {leaf'} /\ leaf' \notin Messages
         /\ \A m \in Messages : messages'[m] = messages[m]
         /\ \A m \in Messages' : /\ messages'[m].parent < m /\ messages'[m].index < m
                                 /\ messages'[m].group \in 1..Len(messages')
         /\ SwipesAreNumbered'
<1>1. /\ Len(messages) \in Nat /\ leaf' = Len(messages) + 1 /\ Len(messages') = leaf'
      /\ Messages' = Messages \cup {leaf'} /\ leaf' \notin Messages
      /\ \A m \in Messages : messages'[m] = messages[m]
  <2>1. Len(messages) \in Nat
    BY MessageTyped DEF TypeOK
  <2> QED BY <2>1 DEF Grown, Messages
<1>2. \A m \in Messages : /\ messages[m].parent < m /\ messages[m].index < m
                          /\ messages[m].group \in 1..Len(messages)
  BY DEF TypeOK, WithinTree
<1>3. \A m \in Messages' : /\ messages'[m].parent < m /\ messages'[m].index < m
                           /\ messages'[m].group \in 1..Len(messages')
  BY <1>1, <1>2 DEF Grown
<1>4. \A m \in Messages : messages[m].index \in Nat
  BY MessageTyped DEF TypeOK
<1>5. messages'[leaf'].index \in Nat
  <2>1. messages'[leaf'] \in MessageType
    BY <1>1, ElementOfSeq DEF Grown
  <2> QED BY <2>1 DEF MessageType
<1>6. \A m \in Messages : messages'[m].group = messages'[leaf'].group =>
        messages'[m].index # messages'[leaf'].index
  BY <1>1, <1>4, <1>5 DEF Grown, Free
<1>7. SwipesAreNumbered'
  BY <1>1, <1>6 DEF SwipesAreNumbered
<1> QED BY <1>1, <1>3, <1>7

\* A request that begins keeps the invariant: nobody else is waiting.
LEMMA BeginsKeeps ==
  ASSUME Inv, NEW r \in Requests, Begins(r)
  PROVE  Inv' /\ Extends
<1> USE DEF Inv
<1>1. \/ UNCHANGED messages /\ leaf' \in 0..Len(messages)
      \/ Grown("user", r) /\ (req'[r].kind \in Turns => messages'[leaf'].parent = leaf)
  BY DEF Begins
<1>2. /\ \A q \in Requests : q # r => req'[q] = req[q] /\ req[q].pc \notin Waiting
      /\ req[r].pc \in {"new", "routing"}
      /\ active # None => active = r /\ req[r].pc = "routing"
  BY NoneAssumption DEF Begins, OnlyReq, LockIsOwned, Waiting
<1>3. /\ Len(messages) \in Nat /\ Len(messages') \in Nat /\ Len(messages) <= Len(messages')
      /\ leaf' \in 0..Len(messages') /\ messages' \in Seq(MessageType)
      /\ \A m \in Messages' : /\ messages'[m].parent < m /\ messages'[m].index < m
                              /\ messages'[m].group \in 1..Len(messages')
      /\ SwipesAreNumbered'
  <2>1. CASE UNCHANGED messages /\ leaf' \in 0..Len(messages)
    BY <2>1 DEF TypeOK, WithinTree, Numbered, Messages, SwipesAreNumbered
  <2>2. CASE Grown("user", r)
    BY <2>2, GrownTree DEF Numbered, Grown
  <2> QED BY <1>1, <2>1, <2>2
<1>4. TypeOK'
  <2>1. req' \in [Requests -> ReqType] /\ lock' \in Requests \cup {None}
        /\ active' \in Requests \cup {None}
    BY DEF Begins, OnlyReq, TypeOK
  <2>2. /\ session' \in {"setup", "active", "closed", "deleted"}
        /\ scene' \in 0..Len(messages')
        /\ cuts' \in 0..MaxCuts
        /\ aborted' \subseteq Requests /\ hushed' \subseteq Requests
    BY DEF Begins, RestTyped, TypeOK
  <2> QED BY <1>3, <2>1, <2>2 DEF TypeOK, ReqType, Messages
<1>5. LockIsOwned'
  BY <1>2, NoneAssumption DEF Begins, LockIsOwned, Follows, Streamed, Rooms
<1>6. WithinTree'
  <2>1. \A q \in Requests : /\ req[q].anchor \in Nat /\ req[q].seen \in Nat
                           /\ req[q].group \in Nat /\ req[q].index \in Nat
    BY DEF TypeOK
  <2> QED BY <1>2, <1>3, <2>1 DEF Begins, OnlyReq, WithinTree
<1>7. Numbered'
  BY <1>2, <1>3 DEF Begins, Numbered, Free, Messages, Waiting
<1>8. Follows'
  BY <1>2 DEF Begins, Follows, Waiting
<1>9. Silent'
  <2>1. /\ hushed \subseteq aborted /\ UNCHANGED <<aborted, hushed>> /\ hushed \subseteq Requests
        /\ \A q \in hushed : req'[q] = req[q] /\ req[q].pc \notin {"new", "routing"}
                           /\ req[q].kind \in Streamed
    BY <1>2 DEF Begins, Silent, TypeOK
  <2>2. \A m \in Messages : messages[m].role = "character" =>
          LET by == messages[m].by
          IN  /\ by \notin hushed /\ req[by].pc \notin {"new", "routing"} /\ req'[by] = req[by]
              /\ req[by].pc = "generating" => req[by].kind \in Rooms
    BY <1>2, MessageTyped DEF Silent, TypeOK
  <2>3. \A m \in Messages' : messages'[m].role = "character" =>
          m \in Messages /\ messages'[m] = messages[m]
    <3>1. CASE UNCHANGED messages
      BY <3>1 DEF Messages
    <3>2. CASE Grown("user", r)
      BY <3>2, GrownTree DEF Numbered, Grown
    <3> QED BY <1>1, <3>1, <3>2
  <2>4. \A m \in Messages' : messages'[m].role = "character" =>
          LET by == messages'[m].by
          IN  /\ by \notin hushed' /\ req'[by].pc \notin {"new", "routing"}
              /\ req'[by].pc = "generating" => req'[by].kind \in Rooms
    BY <2>1, <2>2, <2>3
  <2> QED BY <2>1, <2>4 DEF Silent
<1>10. Extends
  BY <1>1 DEF Extends, Grown
<1> QED BY <1>4, <1>5, <1>6, <1>7, <1>8, <1>9, <1>10

\* A request that stores a reply keeps the invariant.
LEMMA RepliesKeeps ==
  ASSUME Inv, NEW r \in Requests, Replies(r)
  PROVE  Inv' /\ Extends
<1> USE DEF Inv
<1>1. /\ Grown("character", r) /\ messages'[leaf'].parent = req[r].anchor
      /\ leaf' = Len(messages) + 1 /\ Len(messages') = leaf'
      /\ Messages' = Messages \cup {leaf'} /\ leaf' \notin Messages
      /\ \A m \in Messages : messages'[m] = messages[m]
      /\ messages'[leaf'].role = "character" /\ messages'[leaf'].by = r
  BY GrownTree DEF Replies, Numbered, Grown
<1>2. /\ lock = r /\ active # None => active = r
      /\ \A q \in Requests : q # r => req'[q] = req[q] /\ req[q].pc \notin Waiting
  BY DEF Replies, OnlyReq, LockIsOwned, Waiting
<1>3. /\ Len(messages) \in Nat /\ Len(messages') \in Nat /\ Len(messages) <= Len(messages')
      /\ leaf' \in 0..Len(messages') /\ messages' \in Seq(MessageType)
      /\ \A m \in Messages' : /\ messages'[m].parent < m /\ messages'[m].index < m
                              /\ messages'[m].group \in 1..Len(messages')
      /\ SwipesAreNumbered'
  BY <1>1, GrownTree DEF Numbered, Grown
<1>4. TypeOK'
  <2>1. req' \in [Requests -> ReqType] /\ lock' \in Requests \cup {None}
        /\ active' \in Requests \cup {None}
    BY DEF Replies, OnlyReq, TypeOK
  <2>2. /\ session' \in {"setup", "active", "closed", "deleted"}
        /\ scene' \in 0..Len(messages')
        /\ cuts' \in 0..MaxCuts
        /\ aborted' \subseteq Requests /\ hushed' \subseteq Requests
    BY DEF Replies, RestTyped, TypeOK
  <2> QED BY <1>3, <2>1, <2>2 DEF TypeOK, ReqType, Messages
<1>5. LockIsOwned'
  BY <1>2, NoneAssumption DEF Replies, LockIsOwned, Waiting
<1>6. WithinTree'
  <2>1. \A q \in Requests : /\ req[q].anchor \in Nat /\ req[q].seen \in Nat
                           /\ req[q].group \in Nat /\ req[q].index \in Nat
    BY DEF TypeOK
  <2> QED BY <1>2, <1>3, <2>1 DEF Replies, OnlyReq, WithinTree
<1>7. Numbered'
  <2>1. \A q \in Requests : req'[q].pc = "generating" =>
          q = r /\ req'[r].group = 0 /\ req'[r].kind \in Rooms
    BY <1>2 DEF Replies, Numbered, Waiting
  <2> QED BY <1>3, <2>1 DEF Numbered
<1>8. Follows'
  BY <1>2 DEF Replies, Follows, Waiting
<1>9. Silent'
  <2>1. r \notin hushed
    BY DEF Replies, Silent, Silenced
  <2>2. /\ hushed \subseteq aborted /\ UNCHANGED <<aborted, hushed>> /\ hushed \subseteq Requests
        /\ \A q \in hushed : req'[q] = req[q] /\ req[q].pc \notin {"new", "routing"}
                           /\ req[q].kind \in Streamed
    BY <1>2, <2>1 DEF Replies, Silent, TypeOK
  <2>3. req'[r].pc \notin {"new", "routing"} /\ (req'[r].pc = "generating" => req'[r].kind \in Rooms)
    BY DEF Replies, Numbered
  <2>4. \A m \in Messages : messages[m].role = "character" =>
          LET by == messages[m].by
          IN  /\ by \notin hushed /\ req'[by].pc \notin {"new", "routing"}
              /\ req'[by].pc = "generating" => req'[by].kind \in Rooms
    BY <1>2, <2>3, MessageTyped DEF Silent, TypeOK
  <2>5. \A m \in Messages' : messages'[m].role = "character" =>
          LET by == messages'[m].by
          IN  /\ by \notin hushed' /\ req'[by].pc \notin {"new", "routing"}
              /\ req'[by].pc = "generating" => req'[by].kind \in Rooms
    BY <1>1, <2>1, <2>2, <2>3, <2>4
  <2> QED BY <2>2, <2>5 DEF Silent
<1>10. Extends
  BY <1>1 DEF Extends, Replies, Follows
<1> QED BY <1>4, <1>5, <1>6, <1>7, <1>8, <1>9, <1>10

\* A request that ends keeps the invariant.
LEMMA EndsKeeps ==
  ASSUME Inv, Ends
  PROVE  Inv' /\ Extends
<1> USE DEF Inv
<1>1. messages' = messages /\ Messages' = Messages /\ session' = session
  BY DEF Ends, Messages
<1>2. TypeOK'
  <2>1. /\ req' \in [Requests -> ReqType] /\ lock' = None /\ active' = None
        /\ leaf' \in 0..Len(messages)
        /\ session' \in {"setup", "active", "closed", "deleted"}
        /\ scene' \in 0..Len(messages')
        /\ cuts' \in 0..MaxCuts
        /\ aborted' \subseteq Requests /\ hushed' \subseteq Requests
    BY DEF Ends, RestTyped, TypeOK
  <2> QED BY <1>1, <2>1 DEF TypeOK, ReqType, Messages
<1>3. LockIsOwned'
  BY NoneAssumption DEF Ends, LockIsOwned
<1>4. WithinTree'
  BY <1>1 DEF Ends, WithinTree
<1>5. Numbered'
  BY <1>1 DEF Ends, Numbered, SwipesAreNumbered, Waiting
<1>6. Follows'
  BY <1>1 DEF Ends, Follows, Waiting
<1>7. Silent'
  <2>1. \A q \in Requests : req[q].pc \notin {"new", "routing"} =>
          req'[q].pc \notin {"new", "routing", "generating"} /\ req'[q].kind = req[q].kind
    BY DEF Ends, Waiting, Ended
  <2> QED BY <1>1, <2>1, MessageTyped DEF Ends, Silent, TypeOK
<1>8. Extends
  BY <1>1 DEF Extends
<1> QED BY <1>2, <1>3, <1>4, <1>5, <1>6, <1>7, <1>8

\* What involves no request keeps the invariant.
LEMMA RestsKeeps ==
  ASSUME Inv, Rests
  PROVE  Inv' /\ Extends
<1> USE DEF Inv
<1>1. UNCHANGED <<lock, active, req>>
  BY DEF Rests
<1>2. \/ messages' = messages /\ Messages' = Messages /\ leaf' = leaf
         /\ (session' = "deleted" <=> session = "deleted")
      \/ session' = "deleted" /\ messages' = <<>> /\ Messages' = {} /\ leaf' = 0
  BY DEF Rests, Messages
<1>3. TypeOK'
  <2>1. /\ session' \in {"setup", "active", "closed", "deleted"}
        /\ scene' \in 0..Len(messages')
        /\ cuts' \in 0..MaxCuts
        /\ aborted' \subseteq Requests /\ hushed' \subseteq Requests
    BY NoneAssumption DEF Rests, RestTyped, TypeOK
  <2>2. messages' \in Seq(MessageType) /\ leaf' \in 0..Len(messages')
        /\ \A m \in Messages' : messages'[m].parent < m
    <3>1. CASE messages' = messages /\ Messages' = Messages /\ leaf' = leaf
      BY <3>1 DEF TypeOK
    <3>2. CASE messages' = <<>> /\ Messages' = {} /\ leaf' = 0
      <4>1. <<>> \in Seq(MessageType) /\ Len(<<>>) = 0
        OBVIOUS
      <4> QED BY <3>2, <4>1
    <3> QED BY <1>2, <3>1, <3>2
  <2> QED BY <1>1, <2>1, <2>2 DEF TypeOK, Messages
<1>4. LockIsOwned'
  BY <1>1 DEF LockIsOwned
<1>5. WithinTree'
  BY <1>1, <1>2 DEF WithinTree
<1>6. Numbered'
  BY <1>1, <1>2 DEF Numbered, SwipesAreNumbered, Free
<1>7. Follows'
  BY <1>1, <1>2 DEF Follows
<1>8. Silent'
  <2>1. \A m \in Messages' : m \in Messages /\ messages'[m] = messages[m]
    BY <1>2
  <2>2. CASE UNCHANGED hushed
    BY <1>1, <2>1, <2>2 DEF Silent, Rests
  <2>3. CASE /\ active # None /\ req[active].pc = "generating"
             /\ hushed' = hushed \cup {active} /\ active \in aborted'
    <3>1. req[active].kind \in Streamed /\ req[active].kind \notin Rooms
      BY <2>3 DEF LockIsOwned, Streamed, Rooms
    <3> QED BY <1>1, <2>1, <2>3, <3>1 DEF Silent, Rests
  <2> QED BY <2>2, <2>3 DEF Rests
<1>9. Extends
  BY <1>2 DEF Extends
<1> QED BY <1>3, <1>4, <1>5, <1>6, <1>7, <1>8, <1>9

-----------------------------------------------------------------------------
(* Every action has one of the shapes.                                     *)

\* Add numbers the new message apart when its number is free in its group.
LEMMA AddGrows ==
  ASSUME TypeOK, WithinTree, session # "deleted",
         NEW role \in {"user", "character"}, NEW r \in Requests,
         NEW parent \in Nat, parent <= Len(messages),
         NEW group \in Nat, group <= Len(messages),
         NEW index \in Nat, index <= Len(messages),
         group # 0 => Free(group, index),
         Add(role, parent, group, index, r)
  PROVE  Grown(role, r) /\ messages'[leaf'].parent = parent
<1> DEFINE new == Message(role, parent, group, index, r)
<1>1. Len(messages) \in Nat
  BY MessageTyped DEF TypeOK
<1>2. /\ new.role = role /\ new.parent = parent /\ new.index = index /\ new.by = r
      /\ new.group = IF group = 0 THEN Len(messages) + 1 ELSE group
      /\ new \in MessageType
  BY <1>1 DEF Message, MessageType
<1> HIDE DEF new
<1>3. messages' = Append(messages, new) /\ leaf' = Len(messages) + 1
  BY DEF Add, new
<1>4. /\ messages' \in Seq(MessageType) /\ Len(messages') = Len(messages) + 1
      /\ \A m \in Messages : messages'[m] = messages[m]
      /\ messages'[Len(messages) + 1] = new
  BY <1>1, <1>2, <1>3, AppendProperties DEF TypeOK, Messages
<1>5. Free(new.group, index)
  <2>1. CASE group = 0
    BY <1>1, <1>2, <2>1 DEF Free, WithinTree
  <2>2. CASE group # 0
    BY <1>2, <2>2
  <2> QED BY <2>1, <2>2
<1>6. new.group \in 1..leaf'
  BY <1>1, <1>2, <1>3
<1>7. messages'[leaf'] = new /\ Len(messages') = leaf'
  BY <1>3, <1>4
<1>8. new.parent < leaf' /\ new.index < leaf'
  BY <1>1, <1>2, <1>3
<1> QED BY <1>2, <1>3, <1>4, <1>5, <1>6, <1>7, <1>8 DEF Grown

\* What a request remembers from now on; the others remember what they did.
Remembers(r, pc, kind, anchor, group, index, left, n) ==
  /\ req' \in [Requests -> ReqType]
  /\ \A q \in Requests : q # r => req'[q] = req[q]
  /\ req'[r] = Doing(pc, kind, anchor, group, index, left, n)

\* What a request remembers when it starts to generate.
LEMMA GeneratingSets ==
  ASSUME TypeOK, NEW r \in Requests, NEW kind \in Turns \cup Rebranching,
         NEW anchor \in Nat, NEW group \in Nat, NEW index \in Nat, NEW left \in Nat,
         Generating(r, kind, anchor, group, index, left)
  PROVE  /\ Remembers(r, "generating", kind, anchor, group, index, left, 0)
         /\ active' = IF kind \in Streamed THEN r ELSE active
<1> DEFINE rec == Doing("generating", kind, anchor, group, index, left, 0)
<1>1. req' = [req EXCEPT ![r] = rec]
  BY DEF Generating
<1>2. rec \in ReqType
  BY DEF ReqType, Waiting, Doing
<1>3. req \in [Requests -> ReqType]
  BY DEF TypeOK, ReqType
<1>4. req' \in [Requests -> ReqType] /\ req'[r] = rec
      /\ \A q \in Requests : q # r => req'[q] = req[q]
  BY <1>1, <1>2, <1>3
<1> QED BY <1>4 DEF Generating, Remembers

\* BeginTurn begins a request.
LEMMA BeginTurnBegins ==
  ASSUME Inv, NEW r \in Requests, NEW kind \in Kinds, BeginTurn(r, kind)
  PROVE  Begins(r)
<1> USE DEF Inv
<1>1. /\ req[r].pc = "new" /\ lock = None /\ lock' = r /\ Open
      /\ kind \in {"message", "stream"} /\ session' = "active" /\ session # "deleted"
      /\ Add("user", leaf, 0, 0, r) /\ Generating(r, kind, leaf', 0, 0, 1)
      /\ UNCHANGED <<scene, aborted, hushed, cuts>>
  BY DEF BeginTurn, Admit, Acquire, Open
<1>2. /\ Len(messages) \in Nat /\ Len(messages') = Len(messages) + 1 /\ leaf' = Len(messages')
      /\ Grown("user", r) /\ messages'[leaf'].parent = leaf
  <2>1. leaf \in Nat /\ leaf <= Len(messages) /\ Len(messages) \in Nat
    BY MessageTyped DEF TypeOK
  <2>2. Grown("user", r) /\ messages'[leaf'].parent = leaf
    BY <1>1, <2>1, AddGrows
  <2> QED BY <2>1, <2>2 DEF Grown
<1>3. /\ req' \in [Requests -> ReqType]
      /\ \A q \in Requests : q # r => req'[q] = req[q]
      /\ req'[r].pc = "generating" /\ req'[r].kind = kind /\ req'[r].anchor = leaf'
      /\ req'[r].group = 0 /\ req'[r].index = 0 /\ req'[r].left = 1 /\ req'[r].seen = 0
      /\ active' = IF kind \in Streamed THEN r ELSE active
  <2>1. kind \in Turns \cup Rebranching /\ leaf' \in Nat
    BY <1>1, <1>2 DEF Turns
  <2>2. /\ Remembers(r, "generating", kind, leaf', 0, 0, 1, 0)
        /\ active' = IF kind \in Streamed THEN r ELSE active
    BY <1>1, <2>1, GeneratingSets
  <2> QED BY <2>2 DEF Remembers, Doing
<1>4. OnlyReq(r)
  BY <1>2, <1>3 DEF OnlyReq
<1>5. RestTyped
  BY <1>1, <1>2 DEF RestTyped, TypeOK, Messages
<1> QED BY <1>1, <1>2, <1>3, <1>4, <1>5 DEF Begins, Waiting

\* What a request remembers when it starts to do something.
LEMMA DoingSets ==
  ASSUME TypeOK, NEW r \in Requests, NEW pc \in {"routing", "generating", "summarising"},
         NEW kind \in Turns \cup Rebranching, NEW anchor \in Nat, NEW group \in Nat,
         NEW index \in Nat, NEW left \in Nat, NEW n \in Nat,
         req' = [req EXCEPT ![r] = Doing(pc, kind, anchor, group, index, left, n)]
  PROVE  Remembers(r, pc, kind, anchor, group, index, left, n)
<1> DEFINE rec == Doing(pc, kind, anchor, group, index, left, n)
<1>1. rec \in ReqType
  BY DEF ReqType, Waiting, Doing
<1>2. req \in [Requests -> ReqType]
  BY DEF TypeOK, ReqType
<1>3. req' \in [Requests -> ReqType] /\ req'[r] = rec
      /\ \A q \in Requests : q # r => req'[q] = req[q]
  BY <1>1, <1>2
<1> QED BY <1>3 DEF Remembers

\* What a request remembers when it starts to summarise.
LEMMA SummarisingSets ==
  ASSUME TypeOK, NEW r \in Requests, NEW kind \in Turns \cup Rebranching, NEW n \in Nat,
         Summarising(r, kind, n)
  PROVE  /\ req' \in [Requests -> ReqType]
         /\ \A q \in Requests : q # r => req'[q] = req[q]
         /\ req'[r].pc = "summarising" /\ req'[r].kind = kind /\ req'[r].anchor = 0
         /\ req'[r].group = 0 /\ req'[r].index = 0 /\ req'[r].left = 0 /\ req'[r].seen = n
<1>1. req' = [req EXCEPT ![r] = Doing("summarising", kind, 0, 0, 0, 0, n)]
  BY DEF Summarising
<1>2. Remembers(r, "summarising", kind, 0, 0, 0, 0, n)
  BY <1>1, DoingSets
<1> QED BY <1>2 DEF Remembers, Doing

\* What a room remembers when its next speaker is asked.
LEMMA GoesSets ==
  ASSUME TypeOK, NEW r \in Requests, NEW anchor \in Nat, req[r].left > 1, Goes(r, anchor)
  PROVE  /\ req' \in [Requests -> ReqType]
         /\ \A q \in Requests : q # r => req'[q] = req[q]
         /\ req'[r].pc = "generating" /\ req'[r].kind = req[r].kind /\ req'[r].anchor = anchor
         /\ req'[r].group = req[r].group /\ req'[r].index = req[r].index /\ req'[r].seen = 0
<1> DEFINE rec == Doing("generating", req[r].kind, anchor, req[r].group, req[r].index,
                        req[r].left - 1, 0)
<1>1. req \in [Requests -> ReqType]
  BY DEF TypeOK, ReqType
<1>2. rec \in ReqType
  BY <1>1 DEF ReqType, Waiting, Doing
<1>3. req' = [req EXCEPT ![r] = rec]
  BY DEF Goes
<1>4. req' \in [Requests -> ReqType] /\ req'[r] = rec
      /\ \A q \in Requests : q # r => req'[q] = req[q]
  BY <1>1, <1>2, <1>3
<1> QED BY <1>4 DEF Doing

\* BeginContinue begins a request.
LEMMA BeginContinueBegins ==
  ASSUME Inv, NEW r \in Requests, BeginContinue(r)
  PROVE  Begins(r)
<1> USE DEF Inv
<1>1. /\ req[r].pc = "new" /\ lock = None /\ lock' = r
      /\ session' = "active" /\ session # "deleted" /\ Generating(r, "continue", leaf, 0, 0, 1)
      /\ UNCHANGED <<messages, leaf, scene, aborted, hushed, cuts>>
  BY DEF BeginContinue, Admit, Acquire, Open
<1>2. leaf \in 0..Len(messages) /\ Len(messages) \in Nat /\ leaf \in Nat
  BY MessageTyped DEF TypeOK
<1>3. /\ req' \in [Requests -> ReqType]
      /\ \A q \in Requests : q # r => req'[q] = req[q]
      /\ req'[r].pc = "generating" /\ req'[r].kind = "continue" /\ req'[r].anchor = leaf
      /\ req'[r].group = 0 /\ req'[r].index = 0 /\ req'[r].left = 1 /\ req'[r].seen = 0
      /\ active' = IF "continue" \in Streamed THEN r ELSE active
  <2>1. /\ Remembers(r, "generating", "continue", leaf, 0, 0, 1, 0)
        /\ active' = IF "continue" \in Streamed THEN r ELSE active
    BY <1>1, <1>2, GeneratingSets DEF Turns
  <2> QED BY <2>1 DEF Remembers, Doing
<1>4. OnlyReq(r)
  BY <1>1, <1>2, <1>3 DEF OnlyReq
<1>5. RestTyped
  BY <1>1 DEF RestTyped, TypeOK, Messages
<1> QED BY <1>1, <1>2, <1>3, <1>4, <1>5 DEF Begins, Waiting

\* BeginRoom begins a request.
LEMMA BeginRoomBegins ==
  ASSUME Inv, NEW r \in Requests, NEW kind \in Kinds, BeginRoom(r, kind)
  PROVE  Begins(r)
<1> USE DEF Inv
<1>1. /\ req[r].pc = "new" /\ lock = None /\ lock' = r /\ kind \in Rooms
      /\ session' \in {"active", session} /\ session # "deleted" /\ session' # "deleted"
      /\ req' = [req EXCEPT ![r] = Doing("routing", kind, leaf, 0, 0, 0, 0)]
      /\ UNCHANGED <<messages, leaf, active, scene, aborted, hushed, cuts>>
  BY DEF BeginRoom, Admit, Acquire, Open
<1>2. leaf \in 0..Len(messages) /\ Len(messages) \in Nat /\ leaf \in Nat
  BY MessageTyped DEF TypeOK
<1>3. /\ req' \in [Requests -> ReqType]
      /\ \A q \in Requests : q # r => req'[q] = req[q]
      /\ req'[r].pc = "routing" /\ req'[r].kind = kind /\ req'[r].anchor = leaf
      /\ req'[r].group = 0 /\ req'[r].index = 0 /\ req'[r].left = 0 /\ req'[r].seen = 0
  <2>1. Remembers(r, "routing", kind, leaf, 0, 0, 0, 0)
    BY <1>1, <1>2, DoingSets DEF Turns, Rooms
  <2> QED BY <2>1 DEF Remembers, Doing
<1>4. OnlyReq(r)
  BY <1>1, <1>2, <1>3 DEF OnlyReq
<1>5. RestTyped
  BY <1>1 DEF RestTyped, TypeOK, Messages
<1> QED BY <1>1, <1>2, <1>3, <1>4, <1>5 DEF Begins, Waiting, Rooms, Streamed

\* Routed begins the replies of a room.
LEMMA RoutedBegins ==
  ASSUME Inv, NEW r \in Requests, Routed(r), session # "deleted"
  PROVE  Begins(r)
<1> USE DEF Inv
<1>1. PICK n \in 1..MaxSpeakers :
        IF req[r].kind = "room-turn"
        THEN Add("user", leaf, 0, 0, r) /\ Generating(r, "room-turn", leaf', 0, 0, n)
        ELSE /\ Generating(r, "room-continue", req[r].anchor, 0, 0, n)
             /\ UNCHANGED <<messages, leaf>>
  BY DEF Routed
<1>2. /\ req[r].pc = "routing" /\ lock = r /\ req[r].kind \in Rooms
      /\ UNCHANGED <<session, scene, lock, aborted, hushed, cuts>>
  BY DEF Routed, LockIsOwned, Waiting, Follows
<1>3. leaf \in 0..Len(messages) /\ Len(messages) \in Nat /\ leaf \in Nat /\ n \in Nat
  BY MessageTyped DEF TypeOK
<1>4. CASE req[r].kind = "room-turn"
  <2>1. Grown("user", r) /\ messages'[leaf'].parent = leaf
    BY <1>1, <1>2, <1>3, <1>4, AddGrows
  <2>2. Len(messages') = Len(messages) + 1 /\ leaf' = Len(messages') /\ leaf' \in Nat
    BY <1>3, <2>1 DEF Grown
  <2>3. /\ req' \in [Requests -> ReqType]
        /\ \A q \in Requests : q # r => req'[q] = req[q]
        /\ req'[r].pc = "generating" /\ req'[r].kind = "room-turn" /\ req'[r].anchor = leaf'
        /\ req'[r].group = 0 /\ req'[r].index = 0 /\ req'[r].left = n /\ req'[r].seen = 0
        /\ active' = IF "room-turn" \in Streamed THEN r ELSE active
    <3>1. PICK added \in Nat : added = leaf'
      BY <2>2
    <3>2. Generating(r, "room-turn", added, 0, 0, n)
      BY <1>1, <1>4, <3>1
    <3>3. /\ TypeOK /\ "room-turn" \in Turns \cup Rebranching
          /\ 0 \in Nat /\ n \in Nat
      BY <1>3 DEF Turns
    <3> HIDE DEF Inv
    <3>4. /\ Remembers(r, "generating", "room-turn", added, 0, 0, n, 0)
          /\ active' = IF "room-turn" \in Streamed THEN r ELSE active
      BY <3>2, <3>3, GeneratingSets
    <3> QED BY <3>1, <3>4 DEF Remembers, Doing
  <2>4. OnlyReq(r)
    BY <1>3, <2>2, <2>3 DEF OnlyReq
  <2>5. RestTyped
    BY <1>2, <1>3, <2>2 DEF RestTyped, TypeOK, Messages
  <2> QED BY <1>2, <2>1, <2>2, <2>3, <2>4, <2>5 DEF Begins, Waiting, Rooms
<1>5. CASE req[r].kind # "room-turn"
  <2>1. req[r].kind = "room-continue" /\ req[r].anchor = leaf
    BY <1>2, <1>5 DEF Follows, Rooms, Turns
  <2>2. /\ req' \in [Requests -> ReqType]
        /\ \A q \in Requests : q # r => req'[q] = req[q]
        /\ req'[r].pc = "generating" /\ req'[r].kind = "room-continue" /\ req'[r].anchor = leaf
        /\ req'[r].group = 0 /\ req'[r].index = 0 /\ req'[r].left = n /\ req'[r].seen = 0
        /\ active' = IF "room-continue" \in Streamed THEN r ELSE active
    <3>1. Generating(r, "room-continue", leaf, 0, 0, n)
      BY <1>1, <1>5, <2>1
    <3>2. TypeOK /\ "room-continue" \in Turns \cup Rebranching
      BY DEF Turns
    <3>3. /\ Remembers(r, "generating", "room-continue", leaf, 0, 0, n, 0)
          /\ active' = IF "room-continue" \in Streamed THEN r ELSE active
      BY <1>3, <3>1, <3>2, GeneratingSets
    <3> QED BY <3>3 DEF Remembers, Doing
  <2>3. OnlyReq(r)
    BY <1>1, <1>3, <1>5, <2>2 DEF OnlyReq
  <2>4. RestTyped
    BY <1>1, <1>2, <1>5 DEF RestTyped, TypeOK, Messages
  <2> QED BY <1>1, <1>2, <1>3, <1>5, <2>2, <2>3, <2>4 DEF Begins, Waiting, Rooms
<1> QED BY <1>4, <1>5

\* A continuation of a deleted session asks the model all the same.
LEMMA RoutedInVain ==
  ASSUME Inv, NEW r \in Requests, Routed(r), session = "deleted"
  PROVE  /\ req[r].pc = "routing" /\ req[r].kind = "room-continue" /\ lock = r
         /\ req' \in [Requests -> ReqType]
         /\ \A q \in Requests : q # r => req'[q] = req[q]
         /\ req'[r].pc = "generating" /\ req'[r].kind = "room-continue" /\ req'[r].group = 0
         /\ messages = <<>> /\ Messages = {}
         /\ UNCHANGED <<session, messages, leaf, scene, lock, active, aborted, hushed, cuts>>
<1> USE DEF Inv
<1>1. /\ req[r].pc = "routing" /\ req[r].kind = "room-continue" /\ lock = r
      /\ UNCHANGED <<session, scene, lock, aborted, hushed, cuts>>
  BY DEF Routed, LockIsOwned, Waiting, Follows, Rooms
<1>2. PICK n \in 1..MaxSpeakers :
        /\ Generating(r, "room-continue", req[r].anchor, 0, 0, n)
        /\ UNCHANGED <<messages, leaf>>
  BY <1>1 DEF Routed
<1>3. PICK anchor \in Nat : anchor = req[r].anchor
  BY DEF TypeOK
<1>4. /\ Remembers(r, "generating", "room-continue", anchor, 0, 0, n, 0)
      /\ active' = IF "room-continue" \in Streamed THEN r ELSE active
  <2>1. /\ TypeOK /\ "room-continue" \in Turns \cup Rebranching /\ n \in Nat /\ 0 \in Nat
        /\ Generating(r, "room-continue", anchor, 0, 0, n)
    BY <1>2, <1>3 DEF Turns
  <2> HIDE DEF Inv
  <2> QED BY <2>1, GeneratingSets
<1>5. active' = active
  BY <1>4 DEF Streamed
<1>6. messages = <<>> /\ Messages = {}
  BY DEF WithinTree, Messages
<1> QED BY <1>1, <1>2, <1>4, <1>5, <1>6 DEF Remembers, Doing

LEMMA RoutedInVainKeeps ==
  ASSUME Inv, NEW r \in Requests, Routed(r), session = "deleted"
  PROVE  Inv' /\ Extends
<1> USE DEF Inv
<1>1. /\ req[r].pc = "routing" /\ req[r].kind = "room-continue" /\ lock = r
      /\ req' \in [Requests -> ReqType]
      /\ \A q \in Requests : q # r => req'[q] = req[q]
      /\ req'[r].pc = "generating" /\ req'[r].kind = "room-continue" /\ req'[r].group = 0
      /\ messages = <<>> /\ Messages = {} /\ Messages' = {}
      /\ UNCHANGED <<session, messages, leaf, scene, lock, active, aborted, hushed, cuts>>
  BY RoutedInVain DEF Messages
<1>2. TypeOK'
  <2>1. TypeOK /\ req \in [Requests -> ReqType]
    BY DEF TypeOK, ReqType
  <2> HIDE DEF Inv
  <2> QED BY <1>1, <2>1 DEF TypeOK, ReqType
<1>3. LockIsOwned'
  BY <1>1 DEF LockIsOwned, Waiting
<1>4. WithinTree' /\ Extends
  BY <1>1 DEF WithinTree, Extends
<1>5. Numbered' /\ Follows'
  BY <1>1 DEF Numbered, SwipesAreNumbered, Follows, Rooms, Free
<1>6. Silent'
  <2>1. r \notin hushed
    BY <1>1 DEF Silent
  <2>2. \A q \in hushed : q \in Requests /\ req'[q] = req[q]
    BY <1>1, <2>1 DEF TypeOK
  <2> QED BY <1>1, <2>2 DEF Silent
<1> QED BY <1>2, <1>3, <1>4, <1>5, <1>6

\* BeginSwipe begins a request.
LEMMA BeginSwipeBegins ==
  ASSUME Inv, NEW r \in Requests, NEW kind \in Kinds, NEW m \in Messages,
         BeginSwipe(r, kind, m)
  PROVE  Begins(r)
<1> USE DEF Inv
<1> DEFINE p == messages[m].parent
           g == messages[m].group
           i == NextSwipeIndex(g)
<1>1. /\ req[r].pc = "new" /\ lock = None /\ lock' = r /\ kind \in {"swipe", "swipe-stream"}
      /\ session # "deleted" /\ Generating(r, kind, p, g, i, 1)
      /\ UNCHANGED <<session, messages, leaf, scene, aborted, hushed, cuts>>
  BY DEF BeginSwipe, Admit, Acquire, Open
<1>2. /\ leaf \in 0..Len(messages) /\ Len(messages) \in Nat
      /\ p \in Nat /\ g \in Nat /\ m \in Nat /\ m <= Len(messages)
      /\ p < m /\ g <= Len(messages) /\ kind \in Turns \cup Rebranching
  BY <1>1, MessageInTree DEF TypeOK, Rebranching
<1>3. i \in Nat /\ i <= Len(messages) /\ Free(g, i)
  BY <1>2, NextIsFree
<1> HIDE DEF p, g, i
<1>4. /\ req' \in [Requests -> ReqType]
      /\ \A q \in Requests : q # r => req'[q] = req[q]
      /\ req'[r].pc = "generating" /\ req'[r].kind = kind /\ req'[r].anchor = p
      /\ req'[r].group = g /\ req'[r].index = i /\ req'[r].left = 1 /\ req'[r].seen = 0
      /\ active' = IF kind \in Streamed THEN r ELSE active
  <2>1. /\ Remembers(r, "generating", kind, p, g, i, 1, 0)
        /\ active' = IF kind \in Streamed THEN r ELSE active
    BY <1>1, <1>2, <1>3, GeneratingSets
  <2> QED BY <2>1 DEF Remembers, Doing
<1>5. OnlyReq(r)
  BY <1>1, <1>2, <1>3, <1>4 DEF OnlyReq
<1>6. RestTyped
  BY <1>1 DEF RestTyped, TypeOK, Messages
<1> QED BY <1>1, <1>2, <1>3, <1>4, <1>5, <1>6 DEF Begins, Waiting, Turns

\* BeginBranch begins a request.
LEMMA BeginBranchBegins ==
  ASSUME Inv, NEW r \in Requests, NEW m \in Messages, BeginBranch(r, m)
  PROVE  Begins(r)
<1> USE DEF Inv
<1>1. /\ req[r].pc = "new" /\ lock = None /\ lock' = r
      /\ session # "deleted" /\ session' = "active"
      /\ Generating(r, "branch", leaf', 0, 0, 1)
      /\ UNCHANGED <<scene, aborted, hushed, cuts>>
  BY DEF BeginBranch, Admit, Acquire, Open
<1>2. Grown("user", r) /\ Len(messages) \in Nat
  <2> DEFINE turn == IF messages[m].role = "user" THEN m ELSE messages[m].parent
             edits == turn # 0 /\ messages[turn].role = "user"
             group == IF edits THEN messages[turn].group ELSE 0
             parent == IF edits THEN messages[turn].parent ELSE messages[m].parent
             index == IF edits THEN NextSwipeIndex(group) ELSE 0
  <2>1. Add("user", parent, group, index, r)
    BY DEF BeginBranch
  <2>2. /\ Len(messages) \in Nat
        /\ \A k \in Messages : /\ messages[k].parent \in Nat /\ messages[k].parent < k
                               /\ messages[k].group \in Nat
                               /\ messages[k].group <= Len(messages)
                               /\ k \in Nat /\ k <= Len(messages)
    BY MessageInTree, MessageTyped DEF TypeOK
  <2>3. turn # 0 => turn \in Messages
    BY <2>2 DEF Messages
  <2>4. parent \in Nat /\ parent <= Len(messages) /\ group \in Nat /\ group <= Len(messages)
    BY <2>2, <2>3
  <2>5. index \in Nat /\ index <= Len(messages) /\ (group # 0 => Free(group, index))
    BY <2>2, <2>4, NextIsFree
  <2> HIDE DEF turn, edits, group, parent, index
  <2> QED BY <1>1, <2>1, <2>2, <2>4, <2>5, AddGrows
<1>3. Len(messages') = Len(messages) + 1 /\ leaf' = Len(messages') /\ leaf' \in Nat
  BY <1>2 DEF Grown
<1>4. /\ req' \in [Requests -> ReqType]
      /\ \A q \in Requests : q # r => req'[q] = req[q]
      /\ req'[r].pc = "generating" /\ req'[r].kind = "branch" /\ req'[r].anchor = leaf'
      /\ req'[r].group = 0 /\ req'[r].index = 0 /\ req'[r].left = 1 /\ req'[r].seen = 0
      /\ active' = IF "branch" \in Streamed THEN r ELSE active
  <2>1. /\ Remembers(r, "generating", "branch", leaf', 0, 0, 1, 0)
        /\ active' = IF "branch" \in Streamed THEN r ELSE active
    BY <1>1, <1>3, GeneratingSets DEF Rebranching
  <2> QED BY <2>1 DEF Remembers, Doing
<1>5. OnlyReq(r)
  BY <1>2, <1>3, <1>4 DEF OnlyReq
<1>6. RestTyped
  BY <1>1, <1>2, <1>3 DEF RestTyped, TypeOK, Messages
<1> QED BY <1>1, <1>2, <1>3, <1>4, <1>5, <1>6 DEF Begins, Waiting, Turns

\* Activate begins a request.
LEMMA ActivateBegins ==
  ASSUME Inv, NEW r \in Requests, NEW m \in Messages, Activate(r, m)
  PROVE  Begins(r)
<1> USE DEF Inv
<1>1. /\ req[r].pc = "new" /\ lock = None /\ lock' = r /\ leaf' = m
      /\ session # "deleted" /\ scene' = 0
      /\ req' = [req EXCEPT ![r] = Doing("summarising", "activate", 0, 0, 0, 0, m)]
      /\ UNCHANGED <<session, messages, active, aborted, hushed, cuts>>
  BY DEF Activate, Admit, Acquire, Summarising, KeptScene, Rebranching
<1>2. m \in Nat /\ m <= Len(messages) /\ Len(messages) \in Nat
  BY MessageTyped DEF TypeOK, Messages
<1>3. /\ req' \in [Requests -> ReqType]
      /\ \A q \in Requests : q # r => req'[q] = req[q]
      /\ req'[r].pc = "summarising" /\ req'[r].kind = "activate" /\ req'[r].anchor = 0
      /\ req'[r].group = 0 /\ req'[r].index = 0 /\ req'[r].left = 0 /\ req'[r].seen = m
  <2>1. Remembers(r, "summarising", "activate", 0, 0, 0, 0, m)
    BY <1>1, <1>2, DoingSets DEF Rebranching
  <2> QED BY <2>1 DEF Remembers, Doing
<1>4. OnlyReq(r)
  BY <1>1, <1>2, <1>3 DEF OnlyReq
<1>5. RestTyped
  BY <1>1, <1>2 DEF RestTyped, TypeOK, Messages
<1> QED BY <1>1, <1>2, <1>3, <1>4, <1>5 DEF Begins, Waiting, Turns, Streamed

\* A reply is stored under a free number, whichever way it was numbered.
LEMMA StoresGrows ==
  ASSUME Inv, NEW r \in Requests, Stores(r)
  PROVE  /\ req[r].pc = "generating" /\ ~Silenced(r) /\ session # "deleted"
         /\ Grown("character", r) /\ messages'[leaf'].parent = req[r].anchor
         /\ Len(messages) \in Nat /\ Len(messages') = Len(messages) + 1 /\ leaf' = Len(messages')
<1> USE DEF Inv
<1>1. /\ req[r].pc = "generating" /\ ~Silenced(r) /\ session # "deleted"
      /\ Add("character", req[r].anchor, req[r].group, SwipeIndex(r), r)
  BY DEF Stores
<1>2. /\ req[r].anchor \in Nat /\ req[r].anchor <= Len(messages)
      /\ req[r].group \in Nat /\ req[r].group <= Len(messages)
      /\ req[r].index \in Nat /\ req[r].index <= Len(messages)
  BY <1>1 DEF TypeOK, WithinTree
<1>3. /\ SwipeIndex(r) \in Nat /\ SwipeIndex(r) <= Len(messages)
      /\ req[r].group # 0 => Free(req[r].group, SwipeIndex(r))
  <2>1. CASE req[r].kind = "swipe"
    BY <1>2, <2>1, NextIsFree DEF SwipeIndex
  <2>2. CASE req[r].kind # "swipe"
    BY <1>1, <1>2, <2>2 DEF SwipeIndex, Numbered
  <2> QED BY <2>1, <2>2
<1>4. Grown("character", r) /\ messages'[leaf'].parent = req[r].anchor
  BY <1>1, <1>2, <1>3, AddGrows
<1>5. Len(messages) \in Nat /\ Len(messages') = Len(messages) + 1 /\ leaf' = Len(messages')
  BY <1>4, MessageTyped DEF TypeOK, Grown
<1> QED BY <1>1, <1>4, <1>5

\* Replied stores a reply.
LEMMA RepliedReplies ==
  ASSUME Inv, NEW r \in Requests, Replied(r)
  PROVE  Replies(r)
<1> USE DEF Inv
<1>1. /\ req[r].pc = "generating" /\ ~Silenced(r) /\ session # "deleted"
      /\ Grown("character", r) /\ messages'[leaf'].parent = req[r].anchor
      /\ Len(messages) \in Nat /\ Len(messages') = Len(messages) + 1 /\ leaf' = Len(messages')
      /\ leaf' \in Nat
  BY StoresGrows DEF Replied
<1>2. UNCHANGED <<session, lock, active, aborted, hushed, cuts>>
  BY DEF Replied
<1>3. /\ req[r].kind \in Turns \cup Rebranching /\ req[r].left \in Nat
      /\ req[r].group \in Nat /\ req[r].group <= Len(messages)
      /\ req[r].index \in Nat /\ req[r].index <= Len(messages)
  BY <1>1 DEF TypeOK, WithinTree
<1>t. /\ scene \in 0..Len(messages) /\ cuts \in 0..MaxCuts
      /\ session \in {"setup", "active", "closed", "deleted"}
  BY DEF TypeOK
<1>4. CASE req[r].left > 1
  <2>1. Goes(r, leaf') /\ UNCHANGED scene
    BY <1>4 DEF Replied
  <2>2. /\ req' \in [Requests -> ReqType]
        /\ \A q \in Requests : q # r => req'[q] = req[q]
        /\ req'[r].pc = "generating" /\ req'[r].kind = req[r].kind /\ req'[r].anchor = leaf'
        /\ req'[r].group = req[r].group /\ req'[r].index = req[r].index /\ req'[r].seen = 0
    BY <1>1, <1>4, <2>1, GoesSets
  <2>3. OnlyReq(r)
    BY <1>1, <1>3, <2>2 DEF OnlyReq
  <2>4. RestTyped
    BY <1>1, <1>2, <1>t, <2>1 DEF RestTyped
  <2> QED BY <1>1, <1>2, <1>4, <2>2, <2>3, <2>4 DEF Replies
<1>5. CASE ~(req[r].left > 1)
  <2>1. Summarising(r, req[r].kind, leaf') /\ scene' \in {0, scene}
    BY <1>5 DEF Replied, Summarising, KeptScene
  <2>2. /\ req' \in [Requests -> ReqType]
        /\ \A q \in Requests : q # r => req'[q] = req[q]
        /\ req'[r].pc = "summarising" /\ req'[r].kind = req[r].kind /\ req'[r].anchor = 0
        /\ req'[r].group = 0 /\ req'[r].index = 0 /\ req'[r].seen = leaf'
    BY <1>1, <1>3, <2>1, SummarisingSets
  <2>3. OnlyReq(r)
    BY <1>1, <1>3, <2>2 DEF OnlyReq
  <2>4. RestTyped
    BY <1>1, <1>2, <1>t, <2>1 DEF RestTyped
  <2> QED BY <1>1, <1>2, <2>2, <2>3, <2>4 DEF Replies
<1> QED BY <1>4, <1>5

\* So does a crash right after the reply is stored.
LEMMA ReplyCutReplies ==
  ASSUME Inv, NEW r \in Requests, ReplyCut(r)
  PROVE  Replies(r)
<1> USE DEF Inv
<1>1. /\ req[r].pc = "generating" /\ ~Silenced(r) /\ session # "deleted"
      /\ Grown("character", r) /\ messages'[leaf'].parent = req[r].anchor
      /\ Len(messages) \in Nat /\ Len(messages') = Len(messages) + 1 /\ leaf' = Len(messages')
  BY StoresGrows DEF ReplyCut
<1>t. /\ scene \in 0..Len(messages) /\ cuts \in 0..MaxCuts
      /\ session \in {"setup", "active", "closed", "deleted"}
  BY DEF TypeOK
<1>2. /\ UNCHANGED <<session, scene, aborted, hushed>>
      /\ lock' = None /\ active' = None /\ cuts' \in 0..MaxCuts
      /\ req' = [req EXCEPT ![r].pc = "failed"]
  BY <1>t, CutsAssumption DEF ReplyCut, Lost
<1>3. req \in [Requests -> ReqType]
  BY DEF TypeOK, ReqType
<1>4. /\ req' \in [Requests -> ReqType]
      /\ \A q \in Requests : q # r => req'[q] = req[q]
      /\ req'[r].pc = "failed" /\ req'[r].kind = req[r].kind /\ req'[r].anchor = req[r].anchor
      /\ req'[r].group = req[r].group /\ req'[r].index = req[r].index
      /\ req'[r].seen = req[r].seen
  BY <1>2, <1>3 DEF ReqType, Ended
<1>5. /\ req[r].anchor \in Nat /\ req[r].anchor <= Len(messages)
      /\ req[r].group \in Nat /\ req[r].group <= Len(messages)
      /\ req[r].index \in Nat /\ req[r].index <= Len(messages)
      /\ req[r].seen \in Nat /\ req[r].seen <= Len(messages)
  BY <1>1 DEF TypeOK, WithinTree
<1>6. OnlyReq(r)
  BY <1>1, <1>4, <1>5 DEF OnlyReq
<1>7. RestTyped
  BY <1>1, <1>2, <1>t DEF RestTyped
<1> QED BY <1>1, <1>2, <1>4, <1>6, <1>7 DEF Replies

\* When the holder of the lock ends, nobody waits any more.
LEMMA HolderEnds ==
  ASSUME Inv, NEW r \in Requests, NEW pc \in Ended,
         req[r].pc \in Waiting, req' = [req EXCEPT ![r].pc = pc], Release(r),
         UNCHANGED <<session, messages, leaf, aborted, hushed, cuts>>,
         scene' \in 0..Len(messages)
  PROVE  Ends
<1> USE DEF Inv
<1>1. lock' = None /\ active' = None
  BY DEF Release, LockIsOwned
<1>2. req \in [Requests -> ReqType]
  BY DEF TypeOK, ReqType
<1>3. /\ req' \in [Requests -> ReqType]
      /\ req'[r].pc = pc /\ req'[r].kind = req[r].kind /\ req'[r].anchor = req[r].anchor
      /\ req'[r].group = req[r].group /\ req'[r].index = req[r].index
      /\ req'[r].seen = req[r].seen
      /\ \A q \in Requests : q # r => req'[q] = req[q]
  BY <1>2 DEF ReqType
<1>4. \A q \in Requests : q # r => req[q].pc \notin Waiting
  BY DEF LockIsOwned
<1>5. pc \notin Waiting
  BY DEF Ended, Waiting
<1>6. RestTyped /\ leaf' \in 0..Len(messages)
  BY DEF RestTyped, TypeOK, Messages
<1>7. \A q \in Requests :
       /\ req'[q].pc \notin Waiting
       /\ req'[q].pc = req[q].pc \/ req'[q].pc \in Ended
       /\ req'[q].kind = req[q].kind /\ req'[q].anchor = req[q].anchor
       /\ req'[q].group = req[q].group /\ req'[q].index = req[q].index
       /\ req'[q].seen = req[q].seen
  BY <1>3, <1>4, <1>5
<1> QED BY <1>1, <1>3, <1>6, <1>7 DEF Ends

\* Three ways for a request to end.
LEMMA AbortFailSynthesisEnds ==
  ASSUME Inv, NEW r \in Requests, AbortObserved(r) \/ Fails(r) \/ Synthesized(r)
  PROVE  Ends
<1> USE DEF Inv
<1>0. scene \in 0..Len(messages) /\ Len(messages) \in Nat
  BY MessageTyped DEF TypeOK
<1>1. CASE AbortObserved(r)
  BY <1>0, <1>1, HolderEnds DEF AbortObserved, End, Waiting, Ended
<1>2. CASE Fails(r)
  BY <1>0, <1>2, HolderEnds DEF Fails, End, Waiting, Ended
<1>3. CASE Synthesized(r)
  <2>1. req[r].pc = "summarising" /\ req' = [req EXCEPT ![r].pc = "done"] /\ Release(r)
        /\ UNCHANGED <<session, messages, leaf, aborted, hushed, cuts>>
        /\ scene' \in IF session = "deleted" THEN {0} ELSE {scene, req[r].seen}
    BY <1>3 DEF Synthesized
  <2>2. scene' \in 0..Len(messages)
    <3>1. session # "deleted" => req[r].seen \in 0..Len(messages)
      BY DEF TypeOK, WithinTree
    <3> QED BY <1>0, <2>1, <3>1
  <2> QED BY <2>1, <2>2, HolderEnds DEF Waiting, Ended
<1> QED BY <1>1, <1>2, <1>3

\* A crash ends whoever waits.
LEMMA CrashEnds ==
  ASSUME Inv, Crash
  PROVE  Ends
<1> USE DEF Inv
<1>1. /\ lock' = None /\ active' = None /\ cuts' \in 0..MaxCuts
      /\ req' = [q \in Requests |->
            IF req[q].pc \in Waiting THEN [req[q] EXCEPT !.pc = "failed"] ELSE req[q]]
      /\ UNCHANGED <<session, messages, leaf, scene, aborted, hushed>>
  <2>1. Lost /\ cuts \in 0..MaxCuts
    BY DEF Crash, TypeOK
  <2>2. cuts' \in 0..MaxCuts
    BY <2>1, CutsAssumption DEF Lost
  <2> QED BY <2>1, <2>2 DEF Crash, Lost
<1>2. \A q \in Requests : req[q] \in ReqType
  BY DEF TypeOK, ReqType
<1>3. \A q \in Requests :
       /\ req'[q] \in ReqType
       /\ req'[q].pc \notin Waiting
       /\ req'[q].pc = req[q].pc \/ req'[q].pc \in Ended
       /\ req'[q].kind = req[q].kind /\ req'[q].anchor = req[q].anchor
       /\ req'[q].group = req[q].group /\ req'[q].index = req[q].index
       /\ req'[q].seen = req[q].seen
  BY <1>1, <1>2 DEF ReqType, Waiting, Ended
<1>4. req' \in [Requests -> ReqType]
  BY <1>1, <1>3
<1>5. RestTyped /\ leaf' \in 0..Len(messages)
  BY <1>1 DEF RestTyped, TypeOK, Messages
<1> QED BY <1>1, <1>3, <1>4, <1>5 DEF Ends

\* A crash right after a change of leaf ends that request.
LEMMA ActivateCutEnds ==
  ASSUME Inv, NEW r \in Requests, NEW m \in Messages, ActivateCut(r, m)
  PROVE  Ends
<1> USE DEF Inv
<1>1. /\ lock = None /\ lock' = None /\ active' = None /\ cuts' \in 0..MaxCuts /\ leaf' = m
      /\ req' = [req EXCEPT ![r].pc = "failed"]
      /\ UNCHANGED <<session, messages, scene, aborted, hushed>>
  <2>1. Lost /\ cuts \in 0..MaxCuts
    BY DEF ActivateCut, TypeOK
  <2>2. cuts' \in 0..MaxCuts
    BY <2>1, CutsAssumption DEF Lost
  <2> QED BY <2>1, <2>2 DEF ActivateCut, Lost
<1>2. req \in [Requests -> ReqType]
  BY DEF TypeOK, ReqType
<1>3. /\ req' \in [Requests -> ReqType]
      /\ req'[r].pc = "failed" /\ req'[r].kind = req[r].kind /\ req'[r].anchor = req[r].anchor
      /\ req'[r].group = req[r].group /\ req'[r].index = req[r].index
      /\ req'[r].seen = req[r].seen
      /\ \A q \in Requests : q # r => req'[q] = req[q]
  BY <1>1, <1>2 DEF ReqType, Ended
<1>4. \A q \in Requests : req[q].pc \notin Waiting
  BY <1>1, NoneAssumption DEF LockIsOwned
<1>5. \A q \in Requests :
       /\ req'[q].pc \notin Waiting
       /\ req'[q].pc = req[q].pc \/ req'[q].pc \in Ended
       /\ req'[q].kind = req[q].kind /\ req'[q].anchor = req[q].anchor
       /\ req'[q].group = req[q].group /\ req'[q].index = req[q].index
       /\ req'[q].seen = req[q].seen
  BY <1>3, <1>4 DEF Waiting, Ended
<1>6. RestTyped /\ leaf' \in 0..Len(messages)
  BY <1>1 DEF RestTyped, TypeOK, Messages
<1> QED BY <1>1, <1>3, <1>5, <1>6 DEF Ends

\* What does not take the lock involves no request.
LEMMA OthersRest ==
  ASSUME Inv, Stop \/ Delete \/ Cancel \/ Disconnect \/ UNCHANGED vars
  PROVE  Rests
<1> USE DEF Inv
<1>1. active \in Requests \cup {None} /\ aborted \subseteq Requests
      /\ Len(messages) \in Nat
      /\ scene \in 0..Len(messages)
      /\ session \in {"setup", "active", "closed", "deleted"} /\ cuts \in 0..MaxCuts
  BY MessageTyped DEF TypeOK, Messages
<1>2. CASE Stop
  BY <1>1, <1>2 DEF Stop, Abort, Hush, Rests, RestTyped
<1>3. CASE Delete
  <2>1. Len(messages') = 0
    BY <1>3 DEF Delete
  <2> QED BY <1>1, <1>3, <2>1 DEF Delete, Abort, Hush, Rests, RestTyped
<1>4. CASE Cancel
  BY <1>1, <1>4 DEF Cancel, Abort, Hush, Rests, RestTyped
<1>5. CASE Disconnect
  BY <1>1, <1>5 DEF Disconnect, Abort, Hush, Rests, RestTyped
<1>6. CASE UNCHANGED vars
  BY <1>1, <1>6 DEF vars, Rests, RestTyped
<1> QED BY <1>2, <1>3, <1>4, <1>5, <1>6

-----------------------------------------------------------------------------
(* The theorems.                                                           *)

\* The invariant holds before the first request.
LEMMA Initially == Init => Inv
<1> SUFFICES ASSUME Init PROVE Inv
  OBVIOUS
<1>1. messages = <<>> /\ Len(messages) = 0 /\ Messages = {} /\ messages \in Seq(MessageType)
  BY DEF Init, Messages
<1>2. /\ req = [r \in Requests |-> New] /\ New \in ReqType /\ New.pc = "new"
      /\ New.anchor = 0 /\ New.seen = 0 /\ New.group = 0 /\ New.index = 0
  BY DEF Init, New, Doing, ReqType, Turns
<1>3. TypeOK
  BY <1>1, <1>2, CutsAssumption DEF Init, TypeOK, ReqType
<1>4. LockIsOwned /\ WithinTree
  BY <1>1, <1>2, NoneAssumption DEF Init, LockIsOwned, WithinTree, Waiting
<1>5. Numbered /\ Follows /\ Silent
  BY <1>1, <1>2 DEF Init, Numbered, SwipesAreNumbered, Follows, Silent
<1> QED BY <1>3, <1>4, <1>5 DEF Inv

\* Every step keeps the invariant and extends the branch.
LEMMA Inductive == Inv /\ [Next]_vars => Inv' /\ Extends
<1> SUFFICES ASSUME Inv, [Next]_vars PROVE Inv' /\ Extends
  OBVIOUS
<1>1. ASSUME NEW r \in Requests, Request(r) PROVE Inv' /\ Extends
  BY <1>1, BeginTurnBegins, BeginRoomBegins, BeginSwipeBegins, BeginContinueBegins,
     BeginBranchBegins, ActivateBegins, BeginsKeeps DEF Request
<1>2. ASSUME NEW r \in Requests, Answer(r) PROVE Inv' /\ Extends
  <2>1. CASE Routed(r)
    BY <2>1, RoutedBegins, BeginsKeeps, RoutedInVainKeeps
  <2>2. CASE Replied(r) \/ AbortObserved(r) \/ Fails(r) \/ Synthesized(r)
    BY <2>2, RepliedReplies, RepliesKeeps, AbortFailSynthesisEnds, EndsKeeps
  <2> QED BY <1>2, <2>1, <2>2 DEF Answer
<1>3. CASE Stop \/ Delete \/ Cancel \/ Disconnect \/ UNCHANGED vars
  BY <1>3, OthersRest, RestsKeeps
<1>4. CASE Crash
  BY <1>4, CrashEnds, EndsKeeps
<1>5. ASSUME NEW r \in Requests, ReplyCut(r) PROVE Inv' /\ Extends
  BY <1>5, ReplyCutReplies, RepliesKeeps
<1>6. ASSUME NEW r \in Requests, NEW m \in Messages, ActivateCut(r, m) PROVE Inv' /\ Extends
  BY <1>6, ActivateCutEnds, EndsKeeps
<1> QED BY <1>1, <1>2, <1>3, <1>4, <1>5, <1>6 DEF Next

\* The inductive invariant holds in every state of a session.
LEMMA Invariance == Spec => []Inv
  BY Initially, Inductive, PTL DEF Spec

\* For every set of requests and routes, the session keeps its shape, whoever
\* waits for the model holds its lock, only the stream that holds it can be
\* aborted, and siblings are numbered apart although a streamed swipe takes its
\* number before the model is asked.
THEOREM SessionSound == Spec => []SessionIsSound
<1>1. Inv => SessionIsSound
  BY DEF Inv, Numbered, SessionIsSound
<1> QED BY <1>1, Invariance, PTL

\* A stream that was stopped, cancelled, deleted or left while the model wrote
\* stores no reply.
THEOREM AbortedSilent == Spec => []AbortedStaysSilent
<1>1. Inv => AbortedStaysSilent
  BY DEF Inv, Silent, AbortedStaysSilent
<1> QED BY <1>1, Invariance, PTL

\* A turn goes on from the leaf that is active when it is stored.
THEOREM TurnsExtend == Spec => TurnsExtendTheBranch
<1>1. Inv /\ [Next]_vars => [Extends]_vars
  BY Inductive
<1> QED BY <1>1, Invariance, PTL DEF Spec, TurnsExtendTheBranch, Extends

-----------------------------------------------------------------------------
(* The branch of a message.  Branch is a recursive function: that there is *)
(* one, and that a new message leaves the branches of the older ones alone,*)
(* is shown by looking at the least message where it would fail.           *)

BranchIn(s, m) ==
  LET up[k \in 0..Len(s)] == IF k = 0 THEN {} ELSE {k} \cup up[s[k].parent]
  IN  up[m]

\* The parents of a transcript come before their children.
IsTree(s) ==
  /\ Len(s) \in Nat
  /\ \A k \in 1..Len(s) : s[k].parent \in Nat /\ s[k].parent < k

\* up is a table of the branches of the first n messages.
IsTable(up, s, n) ==
  \A k \in 0..n : up[k] = IF k = 0 THEN {} ELSE {k} \cup up[s[k].parent]

\* Every tree has a table of its branches.
LEMMA TableExists ==
  ASSUME NEW s, IsTree(s)
  PROVE  \E up \in [0..Len(s) -> SUBSET Nat] : IsTable(up, s, Len(s))
<1> DEFINE Has(n) == \E up \in [0..n -> SUBSET Nat] : IsTable(up, s, n)
           T == {n \in 0..Len(s) : ~Has(n)}
<1> SUFFICES ASSUME ~Has(Len(s)) PROVE FALSE
  OBVIOUS
<1>1. Len(s) \in Nat /\ T \in SUBSET Nat /\ T # {}
  BY DEF IsTree
<1>2. PICK n \in T : \A j \in T : n <= j
  BY <1>1, LeastNatural
<1>3. n \in 0..Len(s) /\ n \in Nat /\ ~Has(n)
  BY <1>1, <1>2
<1>4. Has(0)
  <2>1. [k \in 0..0 |-> {}] \in [0..0 -> SUBSET Nat] /\ IsTable([k \in 0..0 |-> {}], s, 0)
    BY DEF IsTable
  <2> QED BY <2>1
<1>5. n # 0
  BY <1>3, <1>4
<1>6. n - 1 \in 0..Len(s) /\ n - 1 \notin T
  BY <1>1, <1>2, <1>3, <1>5
<1>7. PICK up \in [0..(n - 1) -> SUBSET Nat] : IsTable(up, s, n - 1)
  BY <1>6
<1>8. s[n].parent \in 0..(n - 1) /\ \A k \in 1..(n - 1) : s[k].parent \in 0..(n - 1)
  BY <1>1, <1>3, <1>5 DEF IsTree
<1> HIDE DEF Has, T
<1> DEFINE more == [k \in 0..n |-> IF k = n THEN {n} \cup up[s[n].parent] ELSE up[k]]
<1>9. more \in [0..n -> SUBSET Nat]
  <2>1. {n} \cup up[s[n].parent] \in SUBSET Nat
    BY <1>3, <1>7, <1>8
  <2>2. \A k \in 0..n : k # n => up[k] \in SUBSET Nat
    BY <1>3, <1>7
  <2> QED BY <2>1, <2>2
<1>10. more[n] = {n} \cup up[s[n].parent] /\ \A k \in 0..(n - 1) : more[k] = up[k]
  BY <1>3
<1>11. \A k \in 0..n : k = n \/ k \in 0..(n - 1)
  BY <1>3
<1> HIDE DEF more
<1>12. IsTable(more, s, n)
  <2>1. ASSUME NEW k \in 0..(n - 1)
        PROVE  more[k] = IF k = 0 THEN {} ELSE {k} \cup more[s[k].parent]
    <3>1. more[k] = IF k = 0 THEN {} ELSE {k} \cup up[s[k].parent]
      BY <1>7, <1>10 DEF IsTable
    <3>2. k # 0 => up[s[k].parent] = more[s[k].parent]
      BY <1>8, <1>10
    <3> QED BY <3>1, <3>2
  <2>2. more[n] = {n} \cup more[s[n].parent]
    BY <1>8, <1>10
  <2> QED BY <1>5, <1>11, <2>1, <2>2 DEF IsTable
<1>13. Has(n)
  BY <1>9, <1>12 DEF Has
<1> QED BY <1>3, <1>13

\* A branch is the message and the branch of its parent.
LEMMA BranchUnfolds ==
  ASSUME NEW s, IsTree(s)
  PROVE  /\ BranchIn(s, 0) = {}
         /\ \A m \in 1..Len(s) : BranchIn(s, m) = {m} \cup BranchIn(s, s[m].parent)
<1> DEFINE Is(up) == up = [k \in 0..Len(s) |->
                            IF k = 0 THEN {} ELSE {k} \cup up[s[k].parent]]
           table == CHOOSE up : Is(up)
<1>1. PICK up \in [0..Len(s) -> SUBSET Nat] : IsTable(up, s, Len(s))
  BY TableExists
<1>2. Is(up)
  BY <1>1 DEF IsTable
<1>3. Is(table)
  BY <1>2
<1>4. \A m : BranchIn(s, m) = table[m]
  BY DEF BranchIn
<1> HIDE DEF table
<1>5. \A m \in 0..Len(s) : table[m] = IF m = 0 THEN {} ELSE {m} \cup table[s[m].parent]
  BY <1>3
<1>6. 0 \in 0..Len(s) /\ \A m \in 1..Len(s) : m \in 0..Len(s) /\ m # 0
  BY DEF IsTree
<1> QED BY <1>4, <1>5, <1>6

\* A message more leaves the branches of the others alone.
LEMMA BranchesStay ==
  ASSUME NEW s, NEW t, IsTree(s), IsTree(t), Len(t) = Len(s) + 1,
         \A k \in 1..Len(s) : t[k] = s[k]
  PROVE  \A m \in 0..Len(s) : BranchIn(t, m) = BranchIn(s, m)
<1> DEFINE T == {m \in 0..Len(s) : BranchIn(t, m) # BranchIn(s, m)}
<1> SUFFICES ASSUME T # {} PROVE FALSE
  OBVIOUS
<1>1. Len(s) \in Nat /\ T \in SUBSET Nat
  BY DEF IsTree
<1>2. PICK m \in T : \A j \in T : m <= j
  BY <1>1, LeastNatural
<1>3. m \in 0..Len(s) /\ BranchIn(t, m) # BranchIn(s, m)
  BY <1>2
<1>4. m # 0
  BY <1>3, BranchUnfolds
<1>5. m \in 1..Len(s) /\ m \in 1..Len(t) /\ t[m] = s[m]
  BY <1>1, <1>3, <1>4
<1>6. s[m].parent \in 0..Len(s) /\ s[m].parent \in Nat /\ s[m].parent < m
  BY <1>1, <1>5 DEF IsTree
<1>7. s[m].parent \notin T
  BY <1>1, <1>2, <1>6
<1>8. BranchIn(t, s[m].parent) = BranchIn(s, s[m].parent)
  BY <1>6, <1>7
<1>9. /\ BranchIn(s, m) = {m} \cup BranchIn(s, s[m].parent)
      /\ BranchIn(t, m) = {m} \cup BranchIn(t, t[m].parent)
  BY <1>5, BranchUnfolds
<1> QED BY <1>3, <1>5, <1>8, <1>9

-----------------------------------------------------------------------------
(* The scene.  Whoever summarises does so from the active leaf, and the    *)
(* scene is of its branch.                                                 *)

Summarises ==
  \A r \in Requests : req[r].pc = "summarising" /\ session # "deleted" =>
    req[r].seen = leaf /\ leaf # 0

\* A request begins to wait for the model and leaves the scene alone.
Resumes(r) ==
  /\ UNCHANGED <<scene, cuts>>
  /\ lock = None \/ (req[r].pc = "routing" /\ lock = r)
  /\ \/ UNCHANGED <<messages, leaf>>
     \/ Grown("user", r) /\ req'[r].pc = "generating"
        /\ (req'[r].kind = "branch" \/ messages'[leaf'].parent = leaf)
  /\ req'[r].pc # "summarising" /\ lock' = r
  /\ \A q \in Requests : q # r => req'[q] = req[q]

\* A transcript is a tree.
LEMMA Tree ==
  ASSUME NEW s \in Seq(MessageType), \A m \in 1..Len(s) : s[m].parent < m
  PROVE  IsTree(s)
<1>1. Len(s) \in Nat
  OBVIOUS
<1>2. \A m \in 1..Len(s) : s[m] \in MessageType
  BY ElementOfSeq
<1> QED BY <1>1, <1>2 DEF IsTree, MessageType

\* A message that goes on from the leaf carries its branch on.
LEMMA BranchGoesOn ==
  ASSUME TypeOK, TypeOK', WithinTree, SwipesAreNumbered,
         NEW role \in {"user", "character"}, NEW r \in Requests, Grown(role, r)
  PROVE  /\ leaf' # 0 /\ leaf' \in Branch(leaf)'
         /\ messages'[leaf'].parent = leaf => Branch(leaf) \subseteq Branch(leaf)'
<1>1. /\ Len(messages) \in Nat /\ leaf' = Len(messages) + 1 /\ Len(messages') = leaf'
      /\ \A m \in 1..Len(messages) : messages'[m] = messages[m]
  BY GrownTree DEF Messages
<1>2. IsTree(messages) /\ Branch(leaf) = BranchIn(messages, leaf)
  BY Tree DEF TypeOK, Messages, Branch, BranchIn
<1>3. IsTree(messages') /\ Branch(leaf)' = BranchIn(messages', leaf')
  <2>1. IsTree(messages')
    BY Tree DEF TypeOK, Messages
  <2>2. Branch(leaf)' = BranchIn(messages', leaf')
    BY DEF Branch, BranchIn
  <2> QED BY <2>1, <2>2
<1>4. leaf' \in 1..Len(messages') /\ leaf' # 0 /\ leaf \in 0..Len(messages)
  <2>1. leaf \in 0..Len(messages)
    BY DEF TypeOK
  <2> QED BY <1>1, <2>1
<1>5. BranchIn(messages', leaf') = {leaf'} \cup BranchIn(messages', messages'[leaf'].parent)
  BY <1>3, <1>4, BranchUnfolds
<1>6. BranchIn(messages', leaf) = BranchIn(messages, leaf)
  BY <1>1, <1>2, <1>3, <1>4, BranchesStay
<1> QED BY <1>2, <1>3, <1>4, <1>5, <1>6

\* Before a request begins nobody edits and nobody summarises.
LEMMA ResumesKeepsScene ==
  ASSUME Inv, TypeOK', Summarises, SceneOfBranch, NEW r \in Requests, Resumes(r)
  PROVE  Summarises' /\ SceneOfBranch'
<1>1. \A q \in Requests : req'[q].pc # "summarising"
  BY NoneAssumption DEF Resumes, Inv, LockIsOwned, Waiting
<1>2. ~Editing
  BY NoneAssumption DEF Resumes, Editing
<1>3. CASE UNCHANGED <<messages, leaf>>
  <2>1. Branch(leaf)' = Branch(leaf)
    BY <1>3 DEF Branch
  <2> QED BY <1>1, <1>2, <2>1 DEF Resumes, Summarises, SceneOfBranch
<1>4. CASE Grown("user", r) /\ req'[r].pc = "generating" /\ req'[r].kind = "branch"
  <2>1. Editing'
    BY <1>4, NoneAssumption DEF Resumes, Editing
  <2> QED BY <1>1, <2>1 DEF Summarises, SceneOfBranch
<1>5. CASE Grown("user", r) /\ messages'[leaf'].parent = leaf
  <2>1. Branch(leaf) \subseteq Branch(leaf)'
    BY <1>5, BranchGoesOn DEF Inv, Numbered
  <2> QED BY <1>1, <1>2, <2>1 DEF Resumes, Summarises, SceneOfBranch
<1> QED BY <1>3, <1>4, <1>5 DEF Resumes

\* Every request but a change of the leaf begins like this.
LEMMA RequestResumes ==
  ASSUME Inv, NEW r \in Requests, Request(r) \/ Routed(r),
         ~\E m \in Messages : Activate(r, m), ~(Routed(r) /\ session = "deleted")
  PROVE  Resumes(r)
<1> USE DEF Inv
<1>1. Begins(r)
  BY BeginTurnBegins, BeginRoomBegins, BeginSwipeBegins, BeginContinueBegins,
     BeginBranchBegins, RoutedBegins DEF Request
<1>2. UNCHANGED <<scene, cuts>>
  BY DEF Request, Routed, BeginTurn, BeginRoom, BeginSwipe, BeginContinue, BeginBranch, Admit
<1>3. req \in [Requests -> ReqType]
  BY DEF TypeOK, ReqType
<1> DEFINE Writes == /\ req'[r].pc = "generating" /\ leaf' = Len(messages) + 1
                     /\ req'[r].kind = "branch" \/ req'[r].kind \in Turns
           Waits == req'[r].pc = "routing" \/ req'[r].pc = "generating"
<1>4. Waits /\ (UNCHANGED <<messages, leaf>> \/ Writes)
  <2>1. ASSUME NEW kind \in Kinds, BeginTurn(r, kind) PROVE Waits /\ Writes
    BY <1>3, <2>1 DEF BeginTurn, Generating, Doing, Turns, Add
  <2>2. ASSUME NEW kind \in Kinds, BeginRoom(r, kind)
        PROVE  Waits /\ UNCHANGED <<messages, leaf>>
    BY <1>3, <2>2 DEF BeginRoom, Doing
  <2>3. ASSUME NEW kind \in Kinds, NEW m \in Messages, BeginSwipe(r, kind, m)
        PROVE  Waits /\ UNCHANGED <<messages, leaf>>
    BY <1>3, <2>3 DEF BeginSwipe, Generating, Doing
  <2>4. ASSUME BeginContinue(r) PROVE Waits /\ UNCHANGED <<messages, leaf>>
    BY <1>3, <2>4 DEF BeginContinue, Generating, Doing
  <2>5. ASSUME NEW m \in Messages, BeginBranch(r, m) PROVE Waits /\ Writes
    BY <1>3, <2>5 DEF BeginBranch, Generating, Doing, Add
  <2>6. ASSUME Routed(r) PROVE Waits /\ (UNCHANGED <<messages, leaf>> \/ Writes)
    <3>1. PICK n \in 1..MaxSpeakers :
            IF req[r].kind = "room-turn"
            THEN Add("user", leaf, 0, 0, r) /\ Generating(r, "room-turn", leaf', 0, 0, n)
            ELSE Generating(r, "room-continue", req[r].anchor, 0, 0, n)
                 /\ UNCHANGED <<messages, leaf>>
      BY <2>6 DEF Routed
    <3>2. CASE req[r].kind = "room-turn"
      BY <1>3, <3>1, <3>2 DEF Generating, Doing, Add, Turns
    <3>3. CASE req[r].kind # "room-turn"
      BY <1>3, <3>1, <3>3 DEF Generating, Doing
    <3> QED BY <3>2, <3>3
  <2> QED BY <2>1, <2>2, <2>3, <2>4, <2>5, <2>6 DEF Request
<1> HIDE DEF Waits
<1>5. Len(messages) \in Nat
  BY MessageTyped DEF TypeOK
<1>6. \/ UNCHANGED <<messages, leaf>>
      \/ Grown("user", r) /\ req'[r].pc = "generating"
         /\ (req'[r].kind = "branch" \/ messages'[leaf'].parent = leaf)
  BY <1>1, <1>4, <1>5 DEF Begins
<1>7. /\ lock = None \/ (req[r].pc = "routing" /\ lock = r)
      /\ lock' = r /\ \A q \in Requests : q # r => req'[q] = req[q]
  BY <1>1 DEF Begins, OnlyReq
<1> QED BY <1>2, <1>4, <1>6, <1>7 DEF Resumes, Waits

\* A reply goes on from the leaf, or its scene is derived anew.
LEMMA ReplyKeepsScene ==
  ASSUME Inv, TypeOK', LockIsOwned', Summarises, SceneOfBranch, NEW r \in Requests,
         Replied(r)
  PROVE  Summarises' /\ SceneOfBranch'
<1> USE DEF Inv
<1>1. /\ Replies(r) /\ Grown("character", r) /\ messages'[leaf'].parent = req[r].anchor
      /\ session # "deleted" /\ req[r].pc = "generating" /\ cuts' = cuts
      /\ UNCHANGED lock
  BY RepliedReplies DEF Replies, Replied
<1>2. /\ leaf' # 0 /\ leaf' \in Branch(leaf)'
      /\ messages'[leaf'].parent = leaf => Branch(leaf) \subseteq Branch(leaf)'
  BY <1>1, BranchGoesOn DEF Numbered
<1>3. /\ req[r].kind \in Turns => messages'[leaf'].parent = leaf
      /\ req[r].kind \in Turns \cup Rebranching
  BY <1>1 DEF Follows, TypeOK
<1>4. lock = r /\ (req[r].kind \in Turns => ~Editing)
  BY <1>1, NoneAssumption DEF LockIsOwned, Editing, Waiting, Turns
<1>5. \A q \in Requests : q # r => req'[q].pc # "summarising"
  BY <1>1, <1>4 DEF LockIsOwned, Waiting
<1>6. CASE req[r].left > 1
  <2>1. Goes(r, leaf') /\ scene' = scene
    BY <1>6 DEF Replied
  <2>2. req'[r].pc = "generating"
    <3>1. leaf' \in Nat
      BY <1>1 DEF Grown
    <3> QED BY <1>6, <2>1, <3>1, GoesSets
  <2>3. req[r].kind \in Turns
    BY <1>1, <1>6 DEF Numbered, Rooms, Turns
  <2> QED BY <1>1, <1>2, <1>3, <1>4, <1>5, <2>1, <2>2, <2>3 DEF Summarises, SceneOfBranch
<1>7. CASE ~(req[r].left > 1)
  <2>1. Summarising(r, req[r].kind, leaf')
        /\ scene' = IF req[r].kind \in Rebranching THEN 0 ELSE scene
    BY <1>7 DEF Replied, Summarising, KeptScene
  <2>2. req'[r].seen = leaf'
    <3>1. leaf' \in Nat
      BY <1>1 DEF Grown
    <3> QED BY <1>3, <2>1, <3>1, SummarisingSets
  <2>3. Summarises'
    BY <1>2, <1>5, <2>2 DEF Summarises
  <2> QED BY <1>1, <1>2, <1>3, <1>4, <2>1, <2>3 DEF SceneOfBranch
<1> QED BY <1>6, <1>7

\* Whoever summarised leaves the scene of the active leaf behind; another end
\* leaves the scene alone, in memory or because there is no scene.
LEMMA EndKeepsScene ==
  ASSUME Inv, Inv', Summarises, SceneOfBranch, NEW r \in Requests,
         AbortObserved(r) \/ Fails(r) \/ Synthesized(r)
  PROVE  Summarises' /\ SceneOfBranch'
<1> USE DEF Inv
<1>1. Ends /\ UNCHANGED <<session, messages, leaf, cuts>>
  BY AbortFailSynthesisEnds DEF AbortObserved, Fails, Synthesized
<1>2. Summarises'
  BY <1>1 DEF Ends, Summarises, Waiting
<1>3. Branch(leaf)' = Branch(leaf)
  BY <1>1 DEF Branch
<1>4. CASE AbortObserved(r)
  <2>1. lock = r /\ req[r].kind # "branch" /\ scene' = scene
    BY <1>4 DEF AbortObserved, Silenced, Streamed, LockIsOwned, Waiting
  <2> QED BY <1>1, <1>2, <1>3, <2>1 DEF SceneOfBranch, Editing
<1>5. CASE Fails(r)
  <2>1. messages = <<>> /\ scene' = scene /\ scene \in 0..Len(messages)
    BY <1>5 DEF Fails, WithinTree, TypeOK
  <2>2. scene' = 0
    BY <2>1
  <2> QED BY <1>2, <2>2 DEF SceneOfBranch
<1>6. CASE Synthesized(r)
  <2>1. lock = r /\ req[r].pc = "summarising" /\ ~Editing
    BY <1>6 DEF Synthesized, LockIsOwned, Waiting, Editing
  <2>2. scene' = 0 \/ scene' = scene \/ (scene' = leaf /\ leaf # 0)
    BY <1>6, <2>1 DEF Synthesized, Summarises
  <2>3. leaf # 0 => leaf \in Branch(leaf)
    <3>1. IsTree(messages) /\ Branch(leaf) = BranchIn(messages, leaf)
      BY Tree DEF TypeOK, Messages, Branch, BranchIn
    <3>2. leaf # 0 => leaf \in 1..Len(messages)
      BY DEF TypeOK
    <3> QED BY <3>1, <3>2, BranchUnfolds
  <2> QED BY <1>1, <1>2, <1>3, <2>1, <2>2, <2>3 DEF SceneOfBranch
<1> QED BY <1>4, <1>5, <1>6

\* A change of the leaf drops the scene; a request without the lock leaves it
\* alone or, with the session, takes it away; after a crash nobody asks.
LEMMA OthersKeepScene ==
  ASSUME Inv, Inv', Summarises, SceneOfBranch,
         \/ \E r \in Requests, m \in Messages : Activate(r, m) \/ ActivateCut(r, m)
         \/ \E r \in Requests : ReplyCut(r)
         \/ Stop \/ Delete \/ Cancel \/ Disconnect \/ Crash \/ UNCHANGED vars
  PROVE  Summarises' /\ SceneOfBranch'
<1> USE DEF Inv
<1>1. ASSUME NEW r \in Requests, NEW m \in Messages, Activate(r, m)
      PROVE  Summarises' /\ SceneOfBranch'
  <2>1. Begins(r) /\ Summarising(r, "activate", m) /\ leaf' = m /\ scene' = 0 /\ lock = None
    BY <1>1, ActivateBegins DEF Activate, Summarising, KeptScene, Rebranching, Admit, Acquire
  <2>2. m \in Nat /\ m # 0
    BY MessageTyped DEF TypeOK, Messages
  <2>3. req'[r].seen = m /\ \A q \in Requests : q # r => req'[q] = req[q]
    BY <2>1, <2>2, SummarisingSets DEF Rebranching
  <2>4. \A q \in Requests : req[q].pc # "summarising"
    BY <2>1, NoneAssumption DEF LockIsOwned, Waiting
  <2>5. Summarises'
    BY <2>1, <2>2, <2>3, <2>4 DEF Summarises
  <2> QED BY <2>1, <2>5 DEF SceneOfBranch
<1>2. CASE Lost /\ (Ends \/ \E r \in Requests : ReplyCut(r))
  <2>1. cuts' # 0
    BY <1>2, CutsAssumption DEF Lost, TypeOK
  <2>2. \A q \in Requests : req'[q].pc # "summarising"
    <3>1. lock' = None
      BY <1>2 DEF Lost
    <3> QED BY <3>1, NoneAssumption DEF LockIsOwned, Waiting
  <2> QED BY <2>1, <2>2 DEF Summarises, SceneOfBranch
<1>3. CASE Stop \/ Delete \/ Cancel \/ Disconnect \/ UNCHANGED vars
  <2>1. UNCHANGED <<lock, req, cuts>>
    BY <1>3 DEF Stop, Delete, Cancel, Disconnect, vars
  <2>2. CASE Delete
    BY <2>1, <2>2 DEF Delete, Summarises, SceneOfBranch
  <2>3. CASE Stop \/ Cancel \/ Disconnect \/ UNCHANGED vars
    <3>1. UNCHANGED <<messages, leaf, scene>> /\ (session = "deleted" => session' = "deleted")
      BY <2>3 DEF Stop, Cancel, Disconnect, vars
    <3>2. Branch(leaf)' = Branch(leaf)
      BY <3>1 DEF Branch
    <3> QED BY <2>1, <3>1, <3>2 DEF Summarises, SceneOfBranch, Editing
  <2> QED BY <1>3, <2>2, <2>3
<1>4. ASSUME NEW r \in Requests, NEW m \in Messages, ActivateCut(r, m)
      PROVE  Summarises' /\ SceneOfBranch'
  BY <1>2, <1>4, ActivateCutEnds DEF ActivateCut
<1>5. CASE Crash
  BY <1>2, <1>5, CrashEnds DEF Crash
<1>6. ASSUME NEW r \in Requests, ReplyCut(r) PROVE Summarises' /\ SceneOfBranch'
  BY <1>2, <1>6 DEF ReplyCut
<1> QED BY <1>1, <1>3, <1>4, <1>5, <1>6

\* Unless the process stopped between a change of the leaf and the reset that
\* follows it, the synthesized scene is derived from a message of the branch the
\* reader is on, however often branches were edited, swiped and left.
THEOREM SceneIsOfBranch == Spec => []SceneOfBranch
<1>1. Init => Summarises /\ SceneOfBranch
  BY DEF Init, New, Doing, Summarises, SceneOfBranch
<1>2. ASSUME Inv, Inv', Summarises, SceneOfBranch, [Next]_vars
      PROVE  Summarises' /\ SceneOfBranch'
  <2>1. TypeOK' /\ LockIsOwned'
    BY <1>2 DEF Inv
  <2>2. ASSUME NEW r \in Requests, Request(r) \/ Routed(r)
        PROVE  Summarises' /\ SceneOfBranch'
    <3>1. CASE Routed(r) /\ session = "deleted"
      <4>1. Resumes(r)
        BY <1>2, <3>1, RoutedInVain DEF Resumes
      <4> QED BY <1>2, <2>1, <4>1, ResumesKeepsScene
    <3>2. CASE ~(Routed(r) /\ session = "deleted")
      BY <1>2, <2>1, <2>2, <3>2, RequestResumes, ResumesKeepsScene, OthersKeepScene
    <3> QED BY <3>1, <3>2
  <2>3. ASSUME NEW r \in Requests, Answer(r) PROVE Summarises' /\ SceneOfBranch'
    BY <1>2, <2>1, <2>2, <2>3, ReplyKeepsScene, EndKeepsScene DEF Answer
  <2>4. CASE UNCHANGED vars
    BY <1>2, <2>4, OthersKeepScene
  <2> QED BY <1>2, <2>2, <2>3, <2>4, OthersKeepScene DEF Next
<1>3. (Inv /\ Inv' /\ [Next]_vars /\ Summarises /\ SceneOfBranch)
        => (Summarises /\ SceneOfBranch)'
  BY <1>2
<1> QED BY <1>1, <1>3, Invariance, PTL DEF Spec
=============================================================================
