---------------------------- MODULE TotalsProofs ----------------------------
(***************************************************************************)
(* Two components whose proofs rest on sums over a finite set: the token   *)
(* accounts of TurnBudget, and Encounter, where the reactions to one move  *)
(* cost a total.  They share no variable, and the names that both would    *)
(* have carry a prefix in TurnBudget.                                      *)
(*                                                                         *)
(* A sum is a recursive function on the subsets of its domain; the first   *)
(* part shows what it is when one entry changes.                           *)
(*                                                                         *)
(* TurnBudget, for every number of calls, every policy and price and every *)
(* usage, in one process (two processes may each spend up to the limit,    *)
(* see the module): BudgetInv compares three totals, what is stored, what  *)
(* is charged and what was paid.                                           *)
(*                                                                         *)
(* Encounter, for every number of combatants and any strengths: first what *)
(* a command does to one body, then who is able to play next, then Inv,    *)
(* where at most one turn a round and the mirrored health need each other, *)
(* and one lemma per action.  Every step of it is Kept: it preserves Inv   *)
(* and respects the fates of those it touches.                             *)
(***************************************************************************)
EXTENDS Encounter, TurnBudget, FiniteSetTheorems, WellFoundedInduction, TLAPS

-----------------------------------------------------------------------------
(* Sums over a finite domain.                                              *)

Pick(s) == CHOOSE x \in s : TRUE

\* A set of naturals that is not empty has a least member.
LEMMA LeastNatural ==
  ASSUME NEW T \in SUBSET Nat, T # {}
  PROVE  \E x \in T : \A y \in T : x <= y
<1>1. PICK x \in T : \A y \in T : <<y, x>> \notin OpToRel(<, Nat)
  BY NatLessThanWellFounded, WFMin
<1>2. \A y \in T : ~(y < x)
  BY <1>1 DEF OpToRel
<1> QED BY <1>2

\* A subset that is not empty has one member more than what is left of it.
LEMMA WithoutPick ==
  ASSUME NEW D, IsFiniteSet(D), NEW s \in SUBSET D, s # {}
  PROVE  /\ Pick(s) \in s /\ s \ {Pick(s)} \in SUBSET D
         /\ Cardinality(s) \in Nat \ {0}
         /\ Cardinality(s \ {Pick(s)}) = Cardinality(s) - 1
<1>1. IsFiniteSet(s)
  BY FS_Subset
<1>2. Pick(s) \in s
  BY DEF Pick
<1> HIDE DEF Pick
<1>3. Cardinality(s) \in Nat /\ Cardinality(s) # 0
  BY <1>1, FS_CardinalityType, FS_EmptySet
<1>4. Cardinality(s \ {Pick(s)}) = Cardinality(s) - 1
  BY <1>1, <1>2, FS_RemoveElement
<1> QED BY <1>2, <1>3, <1>4

\* What holds of the empty set, and of a set when it holds of what is left of
\* it, holds of every subset.
LEMMA SubsetInduction ==
  ASSUME NEW D, IsFiniteSet(D), NEW G, {} \in G,
         \A s \in SUBSET D : s # {} /\ s \ {Pick(s)} \in G => s \in G
  PROVE  SUBSET D \subseteq G
<1> DEFINE T == {n \in Nat : \E s \in SUBSET D : s \notin G /\ Cardinality(s) = n}
<1> SUFFICES ASSUME NEW t \in SUBSET D, t \notin G PROVE FALSE
  OBVIOUS
<1>1. Cardinality(t) \in T
  BY FS_Subset, FS_CardinalityType
<1>2. PICK n \in T : \A m \in T : n <= m
  <2>1. T \in SUBSET Nat /\ T # {}
    BY <1>1
  <2> HIDE DEF T
  <2> QED BY <2>1, LeastNatural
<1>3. PICK s \in SUBSET D : s \notin G /\ Cardinality(s) = n
  BY <1>2
<1>4. s # {}
  BY <1>3
<1>5. /\ s \ {Pick(s)} \in SUBSET D /\ s \ {Pick(s)} \notin G
      /\ Cardinality(s \ {Pick(s)}) = n - 1 /\ n - 1 \in Nat
  BY <1>3, <1>4, WithoutPick
<1>6. n - 1 \in T
  BY <1>5
<1> QED BY <1>2, <1>5, <1>6

\* t is a table of the sums of v over the subsets of D.
Sums(t, v, D) ==
  \A s \in SUBSET D :
    t[s] = IF s = {} THEN 0 ELSE v[Pick(s)] + t[s \ {Pick(s)}]

\* There is such a table of numbers: otherwise there would be a least n such
\* that the sets of n members have none.
LEMMA TableExists ==
  ASSUME NEW D, IsFiniteSet(D), NEW v \in [D -> Nat]
  PROVE  \E t \in [SUBSET D -> Nat] : Sums(t, v, D)
<1> DEFINE Small(n) == {s \in SUBSET D : Cardinality(s) <= n}
           IsTable(t, n) == \A s \in Small(n) :
             t[s] = IF s = {} THEN 0 ELSE v[Pick(s)] + t[s \ {Pick(s)}]
           Has(n) == \E t \in [Small(n) -> Nat] : IsTable(t, n)
           T == {n \in Nat : ~Has(n)}
<1>1. \A s \in SUBSET D : Cardinality(s) \in Nat
  BY FS_Subset, FS_CardinalityType
<1>2. \A n \in Nat : \A s \in Small(n) :
        s # {} => Pick(s) \in D /\ s \ {Pick(s)} \in Small(n) /\ s \ {Pick(s)} \in Small(n - 1)
  <2> SUFFICES ASSUME NEW n \in Nat, NEW s \in Small(n), s # {}
               PROVE  Pick(s) \in D /\ s \ {Pick(s)} \in Small(n) /\ s \ {Pick(s)} \in Small(n - 1)
    OBVIOUS
  <2>1. s \in SUBSET D /\ Cardinality(s) <= n
    OBVIOUS
  <2>2. /\ Pick(s) \in s /\ s \ {Pick(s)} \in SUBSET D
        /\ Cardinality(s) \in Nat \ {0}
        /\ Cardinality(s \ {Pick(s)}) = Cardinality(s) - 1
    BY <2>1, WithoutPick
  <2> HIDE DEF Pick
  <2> QED BY <2>1, <2>2
<1>3. \A n \in Nat : Has(n)
  <2> SUFFICES ASSUME T # {} PROVE FALSE
    OBVIOUS
  <2>1. PICK n \in T : \A m \in T : n <= m
    <3>1. T \in SUBSET Nat
      OBVIOUS
    <3> HIDE DEF T
    <3> QED BY <3>1, LeastNatural
  <2>2. n \in Nat /\ ~Has(n)
    BY <2>1
  <2>3. Has(0)
    <3>1. \A s \in Small(0) : s = {}
      <4> SUFFICES ASSUME NEW s \in Small(0), s # {} PROVE FALSE
        OBVIOUS
      <4>1. Cardinality(s) \in Nat \ {0} /\ Cardinality(s) <= 0
        BY WithoutPick
      <4> QED BY <4>1
    <3>2. [s \in Small(0) |-> 0] \in [Small(0) -> Nat] /\ IsTable([s \in Small(0) |-> 0], 0)
      BY <3>1
    <3> QED BY <3>2
  <2>4. n # 0
    <3> HIDE DEF Has
    <3> QED BY <2>2, <2>3
  <2>5. n - 1 \in Nat /\ n - 1 \notin T
    <3> HIDE DEF T, Has
    <3> QED BY <2>1, <2>2, <2>4
  <2>6. PICK t \in [Small(n - 1) -> Nat] : IsTable(t, n - 1)
    BY <2>5
  <2> DEFINE more == [s \in Small(n) |-> IF s = {} THEN 0 ELSE v[Pick(s)] + t[s \ {Pick(s)}]]
  <2>7. \A s \in Small(n - 1) : s \in Small(n) /\ more[s] = t[s]
    <3> SUFFICES ASSUME NEW s \in Small(n - 1) PROVE s \in Small(n) /\ more[s] = t[s]
      OBVIOUS
    <3>1. s \in Small(n)
      BY <1>1, <2>2
    <3>2. t[s] = IF s = {} THEN 0 ELSE v[Pick(s)] + t[s \ {Pick(s)}]
      BY <2>6
    <3> HIDE DEF Small, Pick
    <3> QED BY <3>1, <3>2
  <2>8. more \in [Small(n) -> Nat]
    <3>1. \A s \in Small(n) : s # {} => v[Pick(s)] \in Nat /\ t[s \ {Pick(s)}] \in Nat
      <4> HIDE DEF Small, Pick
      <4> QED BY <1>2, <2>2, <2>6
    <3>2. \A s \in Small(n) : (IF s = {} THEN 0 ELSE v[Pick(s)] + t[s \ {Pick(s)}]) \in Nat
      <4> SUFFICES ASSUME NEW s \in Small(n), s # {} PROVE v[Pick(s)] + t[s \ {Pick(s)}] \in Nat
        BY Zenon
      <4>1. v[Pick(s)] \in Nat /\ t[s \ {Pick(s)}] \in Nat
        BY <3>1
      <4> HIDE DEF Pick
      <4> QED BY <4>1
    <3> HIDE DEF Small
    <3> QED BY <3>2, Zenon
  <2>9. IsTable(more, n)
    <3> SUFFICES ASSUME NEW s \in Small(n)
                 PROVE  more[s] = IF s = {} THEN 0 ELSE v[Pick(s)] + more[s \ {Pick(s)}]
      OBVIOUS
    <3>1. more[s] = IF s = {} THEN 0 ELSE v[Pick(s)] + t[s \ {Pick(s)}]
      <4> HIDE DEF Small, Pick
      <4> QED OBVIOUS
    <3>2. s # {} => more[s \ {Pick(s)}] = t[s \ {Pick(s)}]
      <4> HIDE DEF Small, Pick, more
      <4> QED BY <1>2, <2>2, <2>7
    <3> HIDE DEF Small, Pick, more
    <3> QED BY <3>1, <3>2
  <2> HIDE DEF more, IsTable
  <2> QED BY <2>2, <2>8, <2>9
<1>4. PICK t \in [Small(Cardinality(D)) -> Nat] : IsTable(t, Cardinality(D))
  BY <1>3, FS_CardinalityType
<1>5. Small(Cardinality(D)) = SUBSET D
  <2>1. \A s \in SUBSET D : Cardinality(s) <= Cardinality(D)
    BY FS_Subset
  <2> QED BY <2>1
<1>6. Sums(t, v, D)
  BY <1>4, <1>5 DEF Sums
<1> QED BY <1>4, <1>5, <1>6

\* The sum of a function is the last entry of the table of its sums.
LEMMA SumUnfolds ==
  ASSUME NEW D, IsFiniteSet(D), NEW v \in [D -> Nat]
  PROVE  \E t : /\ \A s \in SUBSET D : t[s] \in Nat
                /\ Sums(t, v, D) /\ SumFunction(v) = t[D]
<1> DEFINE Is(t) == t = [s \in SUBSET D |->
                          IF s = {} THEN 0 ELSE v[Pick(s)] + t[s \ {Pick(s)}]]
           table == CHOOSE t : Is(t)
<1>1. PICK t \in [SUBSET D -> Nat] : Sums(t, v, D)
  BY TableExists
<1>2. Is(t)
  <2>1. \A s \in SUBSET D : t[s] = IF s = {} THEN 0 ELSE v[Pick(s)] + t[s \ {Pick(s)}]
    BY <1>1 DEF Sums
  <2> HIDE DEF Pick
  <2> QED BY <2>1
<1>3. Is(table)
  <2> HIDE DEF Is
  <2> QED BY <1>2
<1>4. SumFunction(v) = table[D]
  <2>1. DOMAIN v = D
    OBVIOUS
  <2> QED BY <2>1, Zenon DEF SumFunction, SumFunctionOnSet, FoldFunctionOnSet,
             MapThenFoldSet, Pick
<1> HIDE DEF table
<1>5. Sums(table, v, D)
  BY <1>3, Zenon DEF Sums
<1> DEFINE G == {s \in SUBSET D : table[s] \in Nat}
<1>6. {} \in G
  <2>1. table[{}] = 0
    BY <1>5 DEF Sums
  <2> QED BY <2>1
<1>7. ASSUME NEW s \in SUBSET D, s # {}, s \ {Pick(s)} \in G PROVE s \in G
  <2>1. v[Pick(s)] \in Nat
    BY <1>7, WithoutPick
  <2>2. table[s] = v[Pick(s)] + table[s \ {Pick(s)}]
    BY <1>5, <1>7 DEF Sums
  <2> HIDE DEF Pick
  <2> QED BY <1>7, <2>1, <2>2
<1>8. SUBSET D \subseteq G
  <2> HIDE DEF G
  <2> QED BY <1>6, <1>7, SubsetInduction
<1> QED BY <1>4, <1>5, <1>8

\* When one entry changes the sum changes by as much.
LEMMA SumUpdate ==
  ASSUME NEW D, IsFiniteSet(D), NEW v \in [D -> Nat], NEW w \in [D -> Nat], NEW c \in D,
         \A d \in D : d # c => w[d] = v[d]
  PROVE  /\ SumFunction(v) \in Nat /\ SumFunction(w) \in Nat
         /\ SumFunction(w) + v[c] = SumFunction(v) + w[c]
<1>1. PICK t : (\A s \in SUBSET D : t[s] \in Nat) /\ Sums(t, v, D) /\ SumFunction(v) = t[D]
  BY SumUnfolds
<1>2. PICK u : (\A s \in SUBSET D : u[s] \in Nat) /\ Sums(u, w, D) /\ SumFunction(w) = u[D]
  BY SumUnfolds
<1> DEFINE G == {s \in SUBSET D : IF c \in s THEN u[s] + v[c] = t[s] + w[c] ELSE u[s] = t[s]}
<1>3. {} \in G
  BY <1>1, <1>2 DEF Sums
<1>4. ASSUME NEW s \in SUBSET D, s # {}, s \ {Pick(s)} \in G PROVE s \in G
  <2> DEFINE x == Pick(s)
             r == s \ {x}
  <2>1. x \in s /\ x \in D /\ r \in SUBSET D /\ r \in G
    BY <1>4, WithoutPick
  <2>2. t[s] = v[x] + t[r] /\ u[s] = w[x] + u[r]
    BY <1>1, <1>2, <1>4 DEF Sums
  <2>3. /\ t[r] \in Nat /\ u[r] \in Nat /\ v[x] \in Nat /\ w[x] \in Nat
        /\ v[c] \in Nat /\ w[c] \in Nat
    BY <1>1, <1>2, <2>1
  <2>4. c \in r <=> c \in s /\ c # x
    OBVIOUS
  <2>5. IF c \in r THEN u[r] + v[c] = t[r] + w[c] ELSE u[r] = t[r]
    BY <2>1
  <2> HIDE DEF x, r
  <2>6. IF c \in s THEN u[s] + v[c] = t[s] + w[c] ELSE u[s] = t[s]
    BY <2>1, <2>2, <2>3, <2>4, <2>5
  <2> QED BY <2>6
<1>5. SUBSET D \subseteq G
  <2> HIDE DEF G
  <2> QED BY <1>3, <1>4, SubsetInduction
<1>6. D \in G
  BY <1>5
<1> QED BY <1>1, <1>2, <1>6

\* A sum of zeros.
LEMMA SumOfZeros ==
  ASSUME NEW D, IsFiniteSet(D), NEW v \in [D -> Nat], \A d \in D : v[d] = 0
  PROVE  SumFunction(v) = 0
<1>1. PICK t : (\A s \in SUBSET D : t[s] \in Nat) /\ Sums(t, v, D) /\ SumFunction(v) = t[D]
  BY SumUnfolds
<1> DEFINE G == {s \in SUBSET D : t[s] = 0}
<1>2. {} \in G
  BY <1>1 DEF Sums
<1>3. ASSUME NEW s \in SUBSET D, s # {}, s \ {Pick(s)} \in G PROVE s \in G
  <2>1. Pick(s) \in D
    BY <1>3, WithoutPick
  <2>2. t[s] = v[Pick(s)] + t[s \ {Pick(s)}]
    BY <1>1, <1>3 DEF Sums
  <2> HIDE DEF Pick
  <2> QED BY <1>3, <2>1, <2>2
<1>4. SUBSET D \subseteq G
  <2> HIDE DEF G
  <2> QED BY <1>2, <1>3, SubsetInduction
<1> QED BY <1>1, <1>4

\* The sum of a finite function to the naturals is a natural.
LEMMA SumIsNatural ==
  ASSUME NEW D, IsFiniteSet(D), NEW v \in [D -> Nat]
  PROVE  SumFunction(v) \in Nat
<1>1. PICK t : (\A s \in SUBSET D : t[s] \in Nat) /\ SumFunction(v) = t[D]
  BY SumUnfolds
<1> QED BY <1>1

-----------------------------------------------------------------------------
(* TurnBudget: totals of the calls, and the limits.                        *)

Counted(f) == \A d \in Calls : f[d].prompt \in Nat /\ f[d].completion \in Nat

\* The totals when the account of one call changes.
LEMMA TotalsUpdate ==
  ASSUME NEW f, NEW g, Counted(f), Counted(g), NEW c \in Calls,
         \A d \in Calls : d # c => g[d] = f[d]
  PROVE  /\ Prompts(f) \in Nat /\ Prompts(g) \in Nat
         /\ Completions(f) \in Nat /\ Completions(g) \in Nat
         /\ Prompts(g) + f[c].prompt = Prompts(f) + g[c].prompt
         /\ Completions(g) + f[c].completion = Completions(f) + g[c].completion
<1>1. IsFiniteSet(Calls)
  BY PolicyAssumption
<1>2. /\ Prompts(f) \in Nat /\ Prompts(g) \in Nat
      /\ Prompts(g) + f[c].prompt = Prompts(f) + g[c].prompt
  <2> DEFINE v == [d \in Calls |-> f[d].prompt]
             w == [d \in Calls |-> g[d].prompt]
  <2>1. /\ v \in [Calls -> Nat] /\ w \in [Calls -> Nat]
        /\ \A d \in Calls : d # c => w[d] = v[d]
        /\ v[c] = f[c].prompt /\ w[c] = g[c].prompt
    BY DEF Counted
  <2>2. Prompts(f) = SumFunction(v) /\ Prompts(g) = SumFunction(w)
    BY DEF Prompts
  <2> HIDE DEF v, w
  <2>3. /\ SumFunction(v) \in Nat /\ SumFunction(w) \in Nat
        /\ SumFunction(w) + v[c] = SumFunction(v) + w[c]
    BY <1>1, <2>1, SumUpdate
  <2> QED BY <2>1, <2>2, <2>3
<1>3. /\ Completions(f) \in Nat /\ Completions(g) \in Nat
      /\ Completions(g) + f[c].completion = Completions(f) + g[c].completion
  <2> DEFINE v == [d \in Calls |-> f[d].completion]
             w == [d \in Calls |-> g[d].completion]
  <2>1. /\ v \in [Calls -> Nat] /\ w \in [Calls -> Nat]
        /\ \A d \in Calls : d # c => w[d] = v[d]
        /\ v[c] = f[c].completion /\ w[c] = g[c].completion
    BY DEF Counted
  <2>2. Completions(f) = SumFunction(v) /\ Completions(g) = SumFunction(w)
    BY DEF Completions
  <2> HIDE DEF v, w
  <2>3. /\ SumFunction(v) \in Nat /\ SumFunction(w) \in Nat
        /\ SumFunction(w) + v[c] = SumFunction(v) + w[c]
    BY <1>1, <2>1, SumUpdate
  <2> QED BY <2>1, <2>2, <2>3
<1> QED BY <1>2, <1>3

\* The totals of calls that count nothing.
LEMMA TotalsOfNothing ==
  ASSUME NEW f, \A d \in Calls : f[d].prompt = 0 /\ f[d].completion = 0
  PROVE  Prompts(f) = 0 /\ Completions(f) = 0
<1>1. IsFiniteSet(Calls)
  BY PolicyAssumption
<1> DEFINE v == [d \in Calls |-> f[d].prompt]
           w == [d \in Calls |-> f[d].completion]
<1>2. /\ v \in [Calls -> Nat] /\ \A d \in Calls : v[d] = 0
      /\ w \in [Calls -> Nat] /\ \A d \in Calls : w[d] = 0
  OBVIOUS
<1>3. Prompts(f) = SumFunction(v) /\ Completions(f) = SumFunction(w)
  BY DEF Prompts, Completions
<1> HIDE DEF v, w
<1> QED BY <1>1, <1>2, <1>3, SumOfZeros

Below(a, b) == a.prompt <= b.prompt /\ a.completion <= b.completion

Within(u) == Total(u) <= MaxTotalTokens /\ Cost(u) <= MaxCost

\* A product grows with its factor.
LEMMA ProductGrows ==
  ASSUME NEW m \in Nat, NEW n \in Nat, NEW k \in Nat, m <= n
  PROVE  m * k \in Nat /\ n * k \in Nat /\ m * k <= n * k
<1>1. n - m \in Nat /\ n = m + (n - m)
  OBVIOUS
<1>2. n * k = m * k + (n - m) * k
  BY <1>1
<1>3. m * k \in Nat /\ (n - m) * k \in Nat
  BY <1>1
<1> QED BY <1>2, <1>3

\* Whoever uses no more tokens pays no more.
LEMMA WithinBelow ==
  ASSUME NEW a, NEW b, a.prompt \in Nat, a.completion \in Nat,
         b.prompt \in Nat, b.completion \in Nat, Below(a, b), Within(b)
  PROVE  Within(a)
<1>1. /\ a.prompt * PromptPrice \in Nat /\ b.prompt * PromptPrice \in Nat
      /\ a.prompt * PromptPrice <= b.prompt * PromptPrice
  BY ProductGrows, PolicyAssumption DEF Below
<1>2. /\ a.completion * CompletionPrice \in Nat /\ b.completion * CompletionPrice \in Nat
      /\ a.completion * CompletionPrice <= b.completion * CompletionPrice
  BY ProductGrows, PolicyAssumption DEF Below
<1>3. Cost(a) <= MaxCost
  BY <1>1, <1>2, PolicyAssumption DEF Within, Cost
<1>4. Total(a) <= MaxTotalTokens
  BY PolicyAssumption DEF Within, Total, Below
<1> QED BY <1>3, <1>4 DEF Within

-----------------------------------------------------------------------------
(* TurnBudget: the inductive invariant, for the one process p.             *)

\* One server process plays the turn.
OneProcess == \E p \in Processes : Processes = {p}

Paid == [prompt |-> Prompts(paid), completion |-> Completions(paid)]

\* A call that was not settled is neither stored nor paid, and what is not
\* reserved counts nothing.
Accounts(p) ==
  /\ \A c \in Calls : call[c].stage \in {"new", "flying"} => 
       recorded[c] = NoTokens /\ paid[c] = NoTokens
  /\ \A c \in Calls : p \notin known \/ ~held[p][c].active => held[p][c] = NoReservation

\* What is stored was charged, and what was charged was paid.
Balanced(p) ==
  /\ Below(StoredUsage, Paid)
  /\ p \in known => Below(StoredUsage, spent[p]) /\ Below(spent[p], Paid)

\* Without an overrun, what is stored is within the limits, so that a budget
\* rebuilt from it is.
Limited(p) ==
  overran = {} =>
    /\ Within(StoredUsage)
    /\ p \in known => Within(Active(spent[p], held[p]))

BudgetInv(p) == TBTypeOK /\ Accounts(p) /\ Balanced(p) /\ Limited(p)

\* Every account counts natural numbers.
LEMMA Counting ==
  ASSUME TBTypeOK, NEW p \in Processes
  PROVE  /\ Counted(recorded) /\ Counted(paid) /\ Counted(held[p])
         /\ spent[p].prompt \in Nat /\ spent[p].completion \in Nat
BY DEF TBTypeOK, Tokens, Counted

\* The totals are natural numbers.
LEMMA TotalsTyped ==
  ASSUME NEW f, Counted(f)
  PROVE  Prompts(f) \in Nat /\ Completions(f) \in Nat
<1>1. CASE Calls = {}
  BY <1>1, TotalsOfNothing
<1>2. CASE Calls # {}
  BY <1>2, TotalsUpdate
<1> QED BY <1>1, <1>2

\* A new budget, and one that was rebuilt, stand between what is stored and
\* what was paid, and with the reservations within the limits.
LEMMA RebuiltSound ==
  ASSUME NEW p \in Processes, BudgetInv(p)
  PROVE  /\ Rebuilt(p) \in Tokens
         /\ Below(StoredUsage, Rebuilt(p)) /\ Below(Rebuilt(p), Paid)
         /\ overran = {} => Within(Active(Rebuilt(p), held[p]))
<1>1. /\ Prompts(recorded) \in Nat /\ Completions(recorded) \in Nat
      /\ Prompts(held[p]) \in Nat /\ Completions(held[p]) \in Nat
  BY Counting, TotalsTyped DEF BudgetInv
<1>2. CASE p \in known
  <2>1. Rebuilt(p) = spent[p] /\ spent[p] \in Tokens
    BY <1>2 DEF Rebuilt, BudgetInv, TBTypeOK
  <2> QED BY <1>2, <2>1 DEF BudgetInv, Balanced, Limited
<1>3. CASE p \notin known
  <2>1. Rebuilt(p) = StoredUsage
    BY <1>3 DEF Rebuilt
  <2>2. StoredUsage \in Tokens /\ Below(StoredUsage, StoredUsage)
    BY <1>1 DEF StoredUsage, Tokens, Below
  <2>3. Prompts(held[p]) = 0 /\ Completions(held[p]) = 0
    BY <1>3, TotalsOfNothing DEF BudgetInv, Accounts, NoReservation
  <2>4. Active(StoredUsage, held[p]) = StoredUsage
    BY <1>1, <2>3 DEF Active, Plus, StoredUsage
  <2> QED BY <2>1, <2>2, <2>4 DEF BudgetInv, Balanced, Limited
<1> QED BY <1>2, <1>3

\* What Active adds up.
LEMMA ActiveTyped ==
  ASSUME NEW u, u.prompt \in Nat, u.completion \in Nat, NEW f, Counted(f)
  PROVE  /\ Active(u, f).prompt = u.prompt + Prompts(f)
         /\ Active(u, f).completion = u.completion + Completions(f)
         /\ Active(u, f).prompt \in Nat /\ Active(u, f).completion \in Nat
<1>1. Prompts(f) \in Nat /\ Completions(f) \in Nat
  BY TotalsTyped
<1> QED BY <1>1 DEF Active, Plus

-----------------------------------------------------------------------------
(* TurnBudget: the actions.                                                *)

\* A call is sent, or denied.
LEMMA DispatchKeeps ==
  ASSUME NEW p \in Processes, BudgetInv(p), NEW c \in Calls, Dispatch(p, c)
  PROVE  /\ BudgetInv(p)'
         /\ \A d \in Calls : call[d].stage = "new" /\ call'[d].stage = "flying" =>
              Total(StoredUsage) < MaxTotalTokens
<1>1. PICK prompt \in PromptEstimates :
        LET request == [prompt |-> prompt, completion |-> CompletionLimit] IN
        /\ call[c].stage = "new"
        /\ IF Admitted(p, c, request)
             THEN /\ held' = [held EXCEPT ![p][c] =
                       [prompt |-> prompt, completion |-> CompletionLimit, active |-> TRUE]]
                  /\ call' = [call EXCEPT ![c].stage = "flying"]
                  /\ UNCHANGED turnState
             ELSE /\ call' = [call EXCEPT ![c].stage = "done"]
                  /\ turnState' = "narrating"
                  /\ UNCHANGED held
  BY DEF Dispatch
<1>2. /\ known' = known \cup {p} /\ spent' = [spent EXCEPT ![p] = Rebuilt(p)]
      /\ UNCHANGED <<recorded, losses, paid, overran>>
  BY DEF Dispatch
<1>3. /\ TBTypeOK /\ Accounts(p) /\ Balanced(p) /\ Limited(p)
      /\ known' \subseteq Processes /\ p \in known'
  BY <1>2 DEF BudgetInv, TBTypeOK
<1>4. /\ Rebuilt(p) \in Tokens
      /\ Below(StoredUsage, Rebuilt(p)) /\ Below(Rebuilt(p), Paid)
      /\ overran = {} => Within(Active(Rebuilt(p), held[p]))
  BY RebuiltSound
<1>5. spent' \in [Processes -> Tokens] /\ spent'[p] = Rebuilt(p)
  BY <1>2, <1>3, <1>4 DEF TBTypeOK
<1>6. StoredUsage' = StoredUsage /\ Paid' = Paid
  BY <1>2 DEF StoredUsage, Paid
<1>7. Balanced(p)'
  BY <1>3, <1>4, <1>5, <1>6 DEF Balanced, Below
<1>8. CASE ~ Admitted(p, c, [prompt |-> prompt, completion |-> CompletionLimit])
  <2>1. /\ call' = [call EXCEPT ![c].stage = "done"] /\ turnState' = "narrating" /\ held' = held
    BY <1>1, <1>8
  <2>2. /\ call' \in [Calls -> [stage : Stage, at : Processes]]
        /\ call'[c].stage = "done" /\ \A d \in Calls : d # c => call'[d] = call[d]
    BY <1>3, <2>1 DEF TBTypeOK, Stage
  <2>3. TBTypeOK'
    BY <1>2, <1>3, <1>5, <2>1, <2>2 DEF TBTypeOK
  <2>4. Accounts(p)'
    BY <1>2, <1>3, <2>1, <2>2 DEF Accounts
  <2>5. Active(spent[p], held[p])' = Active(Rebuilt(p), held[p])
    BY <1>5, <2>1 DEF Active, Prompts, Completions
  <2>6. Limited(p)'
    BY <1>2, <1>3, <1>4, <1>6, <2>5 DEF Limited, Within, Total, Cost
  <2> QED BY <1>7, <2>2, <2>3, <2>4, <2>6 DEF BudgetInv
<1>9. CASE Admitted(p, c, [prompt |-> prompt, completion |-> CompletionLimit])
  <2> DEFINE request == [prompt |-> prompt, completion |-> CompletionLimit]
             new == [prompt |-> prompt, completion |-> CompletionLimit, active |-> TRUE]
             total == Active(Rebuilt(p), held[p])
  <2>1. /\ held' = [held EXCEPT ![p][c] = new] /\ turnState' = turnState
        /\ call' = [call EXCEPT ![c].stage = "flying"]
    BY <1>1, <1>9
  <2>2. /\ call' \in [Calls -> [stage : Stage, at : Processes]]
        /\ call'[c].stage = "flying" /\ \A d \in Calls : d # c => call'[d] = call[d]
    BY <1>3, <2>1 DEF TBTypeOK, Stage
  <2>3. prompt \in Nat /\ CompletionLimit \in Nat \ {0}
    BY PolicyAssumption
  <2>4. new \in [prompt : Nat, completion : Nat, active : BOOLEAN]
    BY <2>3
  <2>5. /\ held' \in [Processes -> [Calls -> [prompt : Nat, completion : Nat, active : BOOLEAN]]]
        /\ held'[p] = [held[p] EXCEPT ![c] = new]
    <3> HIDE DEF new
    <3> QED BY <1>3, <2>1, <2>4 DEF TBTypeOK
  <2>6. held'[p][c] = new /\ \A d \in Calls : d # c => held'[p][d] = held[p][d]
    <3> HIDE DEF new
    <3> QED BY <1>3, <2>5 DEF TBTypeOK
  <2>7. TBTypeOK'
    BY <1>2, <1>3, <1>5, <2>1, <2>2, <2>5 DEF TBTypeOK
  <2>8. held[p][c].prompt = 0 /\ held[p][c].completion = 0
    BY <1>3, <1>9 DEF Admitted, Accounts, NoReservation
  <2>9. Accounts(p)'
    BY <1>1, <1>2, <1>3, <2>2, <2>6 DEF Accounts
  <2>10. Counted(held[p]) /\ Counted(held'[p])
    BY <1>3, <2>5 DEF TBTypeOK, Counted
  <2>11. /\ Prompts(held[p]) \in Nat /\ Completions(held[p]) \in Nat
         /\ Prompts(held'[p]) = Prompts(held[p]) + prompt
         /\ Completions(held'[p]) = Completions(held[p]) + CompletionLimit
    <3>1. /\ Prompts(held[p]) \in Nat /\ Prompts(held'[p]) \in Nat
          /\ Completions(held[p]) \in Nat /\ Completions(held'[p]) \in Nat
          /\ Prompts(held'[p]) + held[p][c].prompt = Prompts(held[p]) + held'[p][c].prompt
          /\ Completions(held'[p]) + held[p][c].completion
               = Completions(held[p]) + held'[p][c].completion
      BY <2>6, <2>10, TotalsUpdate
    <3> QED BY <2>3, <2>6, <2>8, <3>1
  <2>12. /\ total.prompt = Rebuilt(p).prompt + Prompts(held[p])
         /\ total.completion = Rebuilt(p).completion + Completions(held[p])
         /\ Rebuilt(p).prompt \in Nat /\ Rebuilt(p).completion \in Nat
    BY <1>4, <2>10, ActiveTyped DEF Tokens
  <2>13. /\ Active(spent'[p], held'[p]).prompt = Plus(total, request).prompt
         /\ Active(spent'[p], held'[p]).completion = Plus(total, request).completion
    <3>1. /\ Active(spent'[p], held'[p]).prompt = Rebuilt(p).prompt + Prompts(held'[p])
          /\ Active(spent'[p], held'[p]).completion
               = Rebuilt(p).completion + Completions(held'[p])
      BY <1>5, <2>10, <2>12, ActiveTyped
    <3> HIDE DEF total
    <3> QED BY <2>3, <2>11, <2>12, <3>1 DEF Plus
  <2>14. Within(Plus(total, request))
    BY <1>9 DEF Admitted, Within
  <2>15. Within(Active(spent[p], held[p]))'
    <3> HIDE DEF total, request
    <3> QED BY <2>13, <2>14 DEF Within, Total, Cost, Active, Prompts, Completions
  <2>16. Limited(p)'
    BY <1>2, <1>3, <1>6, <2>15 DEF Limited, Within, Total, Cost
  <2>17. Total(StoredUsage) < MaxTotalTokens
    <3>1. StoredUsage.prompt \in Nat /\ StoredUsage.completion \in Nat
      BY <1>3, Counting, TotalsTyped DEF StoredUsage
    <3>2. Total(Plus(total, request)) <= MaxTotalTokens
      BY <2>14 DEF Within
    <3>3. Total(Plus(total, request)) =
            (total.prompt + prompt) + (total.completion + CompletionLimit)
      BY DEF Total, Plus
    <3>4. /\ StoredUsage.prompt <= Rebuilt(p).prompt
          /\ StoredUsage.completion <= Rebuilt(p).completion
      BY <1>4 DEF Below
    <3> HIDE DEF total, request
    <3> QED BY <2>3, <2>11, <2>12, <3>1, <3>2, <3>3, <3>4, PolicyAssumption DEF Total
  <2> QED BY <1>7, <2>7, <2>9, <2>16, <2>17 DEF BudgetInv
<1> QED BY <1>8, <1>9

\* What a call may be charged.
LEMMA ChargesTyped ==
  ASSUME NEW r \in [prompt : Nat, completion : Nat, active : BOOLEAN],
         NEW u \in Charges(r)
  PROVE  u \in Tokens
<1>1. CASE u \in Usages
  BY <1>1, PolicyAssumption DEF Tokens
<1>2. CASE u \in {[prompt |-> r.prompt, completion |-> n] : n \in {0, r.completion}}
  BY <1>2 DEF Tokens
<1> QED BY <1>1, <1>2 DEF Charges

\* A call is charged with what it used, once.
LEMMA SettleKeeps ==
  ASSUME NEW p \in Processes, BudgetInv(p), NEW c \in Calls, Settle(p, c)
  PROVE  BudgetInv(p)' /\ \A d \in Calls : call[d].stage = "new" => call'[d].stage # "flying"
<1> DEFINE res == held[p][c]
<1>1. /\ call[c].stage = "flying" /\ p \in known
      /\ held' = [held EXCEPT ![p][c] = NoReservation]
      /\ call' = [call EXCEPT ![c].stage = "done"]
      /\ UNCHANGED <<known, turnState, losses>>
  BY DEF Settle
<1>2. PICK usage \in Charges(res) :
        /\ spent' = [spent EXCEPT ![p] = Plus(@, usage)]
        /\ paid' = [paid EXCEPT ![c] = usage]
        /\ recorded' \in {recorded, [recorded EXCEPT ![c] = usage]}
        /\ overran' = IF usage.prompt > res.prompt \/ usage.completion > res.completion
                        THEN overran \cup {c} ELSE overran
  BY DEF Settle
<1>3. TBTypeOK /\ Accounts(p) /\ Balanced(p) /\ Limited(p)
  BY DEF BudgetInv
<1>4. /\ res \in [prompt : Nat, completion : Nat, active : BOOLEAN]
      /\ res.prompt \in Nat /\ res.completion \in Nat
  BY <1>3 DEF TBTypeOK
<1>5. usage \in Tokens /\ usage.prompt \in Nat /\ usage.completion \in Nat
  <2>1. usage \in Tokens
    BY <1>4, ChargesTyped
  <2> QED BY <2>1 DEF Tokens
<1> HIDE DEF res
<1>6. /\ spent'[p].prompt = spent[p].prompt + usage.prompt
      /\ spent'[p].completion = spent[p].completion + usage.completion
      /\ spent[p].prompt \in Nat /\ spent[p].completion \in Nat
      /\ spent' \in [Processes -> Tokens]
  <2>1. spent \in [Processes -> Tokens] /\ spent[p].prompt \in Nat /\ spent[p].completion \in Nat
    BY <1>3, Counting DEF TBTypeOK
  <2>2. spent' = [spent EXCEPT ![p] = Plus(spent[p], usage)]
    BY <1>2
  <2>3. Plus(spent[p], usage) \in Tokens
    BY <1>5, <2>1 DEF Plus, Tokens
  <2>4. spent' \in [Processes -> Tokens] /\ spent'[p] = Plus(spent[p], usage)
    BY <2>1, <2>2, <2>3
  <2> QED BY <2>1, <2>4 DEF Plus
<1>7. /\ held' \in [Processes -> [Calls -> [prompt : Nat, completion : Nat, active : BOOLEAN]]]
      /\ held'[p] = [held[p] EXCEPT ![c] = NoReservation]
      /\ held'[p][c] = NoReservation /\ \A d \in Calls : d # c => held'[p][d] = held[p][d]
  <2>1. NoReservation \in [prompt : Nat, completion : Nat, active : BOOLEAN]
    BY DEF NoReservation
  <2> QED BY <1>1, <1>3, <2>1 DEF TBTypeOK
<1>8. /\ call' \in [Calls -> [stage : Stage, at : Processes]]
      /\ call'[c].stage = "done" /\ \A d \in Calls : d # c => call'[d] = call[d]
  <2>1. call \in [Calls -> [stage : Stage, at : Processes]]
    BY <1>3 DEF TBTypeOK
  <2> QED BY <1>1, <2>1 DEF Stage
<1>9. /\ paid \in [Calls -> Tokens] /\ paid' \in [Calls -> Tokens] /\ paid[c] = NoTokens
      /\ paid'[c] = usage /\ \A d \in Calls : d # c => paid'[d] = paid[d]
  BY <1>1, <1>2, <1>3, <1>5 DEF TBTypeOK, Accounts
<1>10. /\ recorded \in [Calls -> Tokens] /\ recorded' \in [Calls -> Tokens]
       /\ recorded[c] = NoTokens
       /\ recorded'[c] \in {NoTokens, usage} /\ \A d \in Calls : d # c => recorded'[d] = recorded[d]
  <2>1. recorded \in [Calls -> Tokens]
    BY <1>3 DEF TBTypeOK
  <2>2. recorded[c] = NoTokens
    BY <1>1, <1>3 DEF Accounts
  <2>3. CASE recorded' = recorded
    BY <2>1, <2>2, <2>3
  <2>4. CASE recorded' = [recorded EXCEPT ![c] = usage]
    BY <1>5, <2>1, <2>2, <2>4
  <2> QED BY <1>2, <2>3, <2>4
<1>11. TBTypeOK'
  <2>1. overran' \subseteq Calls
    BY <1>2, <1>3 DEF TBTypeOK
  <2> QED BY <1>1, <1>3, <1>6, <1>7, <1>8, <1>9, <1>10, <2>1 DEF TBTypeOK
<1>12. Accounts(p)'
  BY <1>1, <1>3, <1>7, <1>8, <1>9, <1>10 DEF Accounts
<1>13. /\ Counted(paid) /\ Counted(paid') /\ Counted(recorded) /\ Counted(recorded')
       /\ Counted(held[p]) /\ Counted(held'[p])
  BY <1>7, <1>9, <1>10, <1>3 DEF Counted, Tokens, TBTypeOK
<1>14. /\ Prompts(paid) \in Nat /\ Completions(paid) \in Nat
       /\ Prompts(paid') = Prompts(paid) + usage.prompt
       /\ Completions(paid') = Completions(paid) + usage.completion
  <2>1. /\ Prompts(paid) \in Nat /\ Prompts(paid') \in Nat
        /\ Completions(paid) \in Nat /\ Completions(paid') \in Nat
        /\ Prompts(paid') + paid[c].prompt = Prompts(paid) + paid'[c].prompt
        /\ Completions(paid') + paid[c].completion = Completions(paid) + paid'[c].completion
    BY <1>9, <1>13, TotalsUpdate
  <2> QED BY <1>5, <1>9, <2>1 DEF NoTokens
<1>15. /\ Prompts(recorded) \in Nat /\ Completions(recorded) \in Nat
       /\ Prompts(recorded') \in Nat /\ Completions(recorded') \in Nat
       /\ Prompts(recorded') <= Prompts(recorded) + usage.prompt
       /\ Completions(recorded') <= Completions(recorded) + usage.completion
  <2>1. /\ Prompts(recorded) \in Nat /\ Prompts(recorded') \in Nat
        /\ Completions(recorded) \in Nat /\ Completions(recorded') \in Nat
        /\ Prompts(recorded') + recorded[c].prompt = Prompts(recorded) + recorded'[c].prompt
        /\ Completions(recorded') + recorded[c].completion
             = Completions(recorded) + recorded'[c].completion
    BY <1>10, <1>13, TotalsUpdate
  <2>2. /\ recorded[c].prompt = 0 /\ recorded[c].completion = 0
        /\ recorded'[c].prompt \in {0, usage.prompt}
        /\ recorded'[c].completion \in {0, usage.completion}
    BY <1>10 DEF NoTokens
  <2> QED BY <1>5, <2>1, <2>2
<1>16. /\ Prompts(held[p]) \in Nat /\ Completions(held[p]) \in Nat
       /\ Prompts(held'[p]) \in Nat /\ Completions(held'[p]) \in Nat
       /\ Prompts(held'[p]) + res.prompt = Prompts(held[p])
       /\ Completions(held'[p]) + res.completion = Completions(held[p])
  <2>1. /\ Prompts(held[p]) \in Nat /\ Prompts(held'[p]) \in Nat
        /\ Completions(held[p]) \in Nat /\ Completions(held'[p]) \in Nat
        /\ Prompts(held'[p]) + held[p][c].prompt = Prompts(held[p]) + held'[p][c].prompt
        /\ Completions(held'[p]) + held[p][c].completion
             = Completions(held[p]) + held'[p][c].completion
    BY <1>7, <1>13, TotalsUpdate
  <2> QED BY <1>7, <2>1 DEF res, NoReservation
<1>17. Below(StoredUsage, spent[p]) /\ Below(spent[p], Paid)
  BY <1>1, <1>3 DEF Balanced
<1>18. /\ StoredUsage'.prompt <= spent'[p].prompt /\ spent'[p].prompt <= Paid'.prompt
       /\ StoredUsage'.completion <= spent'[p].completion
       /\ spent'[p].completion <= Paid'.completion
  BY <1>5, <1>6, <1>14, <1>15, <1>17 DEF Below, StoredUsage, Paid
<1>19. Balanced(p)'
  <2>1. Below(StoredUsage, spent[p])' /\ Below(spent[p], Paid)'
    BY <1>18 DEF Below, StoredUsage, Paid
  <2>2. /\ StoredUsage'.prompt \in Nat /\ StoredUsage'.completion \in Nat
        /\ spent'[p].prompt \in Nat /\ spent'[p].completion \in Nat
        /\ Paid'.prompt \in Nat /\ Paid'.completion \in Nat
    BY <1>5, <1>6, <1>14, <1>15 DEF StoredUsage, Paid
  <2>3. StoredUsage'.prompt <= Paid'.prompt /\ StoredUsage'.completion <= Paid'.completion
    BY <1>18, <2>2
  <2>4. Below(StoredUsage, Paid)'
    BY <2>3 DEF Below, StoredUsage, Paid
  <2> QED BY <2>1, <2>4 DEF Balanced
<1>20. Limited(p)'
  <2> SUFFICES ASSUME overran' = {}
               PROVE  Within(StoredUsage)' /\ Within(Active(spent[p], held[p]))'
    BY DEF Limited
  <2>1. overran = {} /\ usage.prompt <= res.prompt /\ usage.completion <= res.completion
    BY <1>2, <1>4, <1>5
  <2>2. Within(Active(spent[p], held[p]))
    BY <1>1, <1>3, <2>1 DEF Limited
  <2> DEFINE old == Active(spent[p], held[p])
             new == Active(spent'[p], held'[p])
             rec == [prompt |-> Prompts(recorded'), completion |-> Completions(recorded')]
  <2>3. /\ old.prompt = spent[p].prompt + Prompts(held[p])
        /\ old.completion = spent[p].completion + Completions(held[p])
        /\ old.prompt \in Nat /\ old.completion \in Nat
    BY <1>6, <1>13, ActiveTyped
  <2>4. /\ new.prompt = spent'[p].prompt + Prompts(held'[p])
        /\ new.completion = spent'[p].completion + Completions(held'[p])
        /\ new.prompt \in Nat /\ new.completion \in Nat
    <3>1. spent'[p].prompt \in Nat /\ spent'[p].completion \in Nat
      BY <1>5, <1>6
    <3> QED BY <1>13, <3>1, ActiveTyped
  <2>5. /\ rec.prompt = Prompts(recorded') /\ rec.completion = Completions(recorded')
        /\ rec.prompt \in Nat /\ rec.completion \in Nat
    BY <1>15
  <2>6. Within(old)
    BY <2>2
  <2>7. rec.prompt <= spent'[p].prompt /\ rec.completion <= spent'[p].completion
    BY <1>18, <2>5 DEF StoredUsage
  <2> HIDE DEF old, new, rec
  <2>8. Below(new, old)
    BY <1>4, <1>5, <1>6, <1>16, <2>1, <2>3, <2>4 DEF Below
  <2>9. Within(new)
    BY <2>3, <2>4, <2>6, <2>8, WithinBelow
  <2>10. Below(rec, new)
    BY <1>5, <1>6, <1>16, <2>4, <2>5, <2>7 DEF Below
  <2>11. Within(rec)
    BY <2>4, <2>5, <2>9, <2>10, WithinBelow
  <2> QED BY <2>9, <2>11 DEF new, rec, Within, Total, Cost, Active, StoredUsage,
             Prompts, Completions
<1> QED BY <1>8, <1>1, <1>11, <1>12, <1>19, <1>20 DEF BudgetInv

\* A call whose reservation is gone is lost, and nothing is charged.
LEMMA SettleUnknownKeeps ==
  ASSUME NEW p \in Processes, BudgetInv(p), NEW c \in Calls, SettleUnknown(p, c)
  PROVE  BudgetInv(p)' /\ \A d \in Calls : call[d].stage = "new" => call'[d].stage # "flying"
<1>1. /\ call[c].stage = "flying" /\ call' = [call EXCEPT ![c].stage = "lost"]
      /\ UNCHANGED <<known, spent, held, recorded, turnState, losses, paid, overran>>
  BY DEF SettleUnknown
<1>2. /\ call' \in [Calls -> [stage : Stage, at : Processes]]
      /\ call'[c].stage = "lost" /\ \A d \in Calls : d # c => call'[d] = call[d]
  BY <1>1 DEF BudgetInv, TBTypeOK, Stage
<1>3. TBTypeOK'
  BY <1>1, <1>2 DEF BudgetInv, TBTypeOK
<1>4. Accounts(p)'
  BY <1>1, <1>2 DEF BudgetInv, Accounts
<1>5. Balanced(p)' /\ Limited(p)'
  BY <1>1 DEF BudgetInv, Balanced, Limited, Below, Within, StoredUsage, Paid, Active,
     Total, Cost
<1> QED BY <1>1, <1>2, <1>3, <1>4, <1>5 DEF BudgetInv

\* A budget is discarded, and the calls under way may be lost with it.
LEMMA ForgetKeeps ==
  ASSUME NEW p \in Processes, BudgetInv(p), Forget(p),
         UNCHANGED <<recorded, turnState, paid, overran>>,
         call' \in [Calls -> [stage : Stage, at : Processes]],
         \A d \in Calls : call'[d].stage \in {call[d].stage, "lost"}
  PROVE  BudgetInv(p)'
<1>1. /\ known' = known \ {p} /\ spent' = [spent EXCEPT ![p] = NoTokens]
      /\ held' = [held EXCEPT ![p] = [c \in Calls |-> NoReservation]]
  BY DEF Forget
<1>2. TBTypeOK'
  <2>1. NoReservation \in [prompt : Nat, completion : Nat, active : BOOLEAN] /\ NoTokens \in Tokens
    BY DEF NoReservation, NoTokens, Tokens
  <2> QED BY <1>1, <2>1 DEF BudgetInv, TBTypeOK
<1>3. Accounts(p)'
  <2>1. \A c \in Calls : held'[p][c] = NoReservation
    BY <1>1 DEF BudgetInv, TBTypeOK
  <2> QED BY <2>1 DEF BudgetInv, Accounts
<1>4. p \notin known'
  BY <1>1
<1>5. Balanced(p)' /\ Limited(p)'
  BY <1>4 DEF BudgetInv, Balanced, Limited, Below, Within, StoredUsage, Paid, Total, Cost
<1> QED BY <1>2, <1>3, <1>5 DEF BudgetInv

LEMMA ClearCrashKeeps ==
  ASSUME NEW p \in Processes, BudgetInv(p), Clear(p) \/ Restart(p)
  PROVE  BudgetInv(p)' /\ \A d \in Calls : call[d].stage = "new" => call'[d].stage # "flying"
<1>1. Forget(p) /\ UNCHANGED <<recorded, turnState, paid, overran>>
  BY DEF Clear, Restart
<1>2. /\ call' \in [Calls -> [stage : Stage, at : Processes]]
      /\ \A d \in Calls : call'[d].stage \in {call[d].stage, "lost"}
  <2>1. CASE Clear(p)
    BY <2>1 DEF Clear, BudgetInv, TBTypeOK
  <2>2. CASE Restart(p)
    <3>1. /\ call \in [Calls -> [stage : Stage, at : Processes]]
          /\ call' = [d \in Calls |-> IF call[d].stage = "flying" /\ call[d].at = p
                                       THEN [call[d] EXCEPT !.stage = "lost"] ELSE call[d]]
      BY <2>2 DEF Restart, BudgetInv, TBTypeOK
    <3> QED BY <3>1 DEF Stage
  <2> QED BY <2>1, <2>2
<1>3. \A d \in Calls : call[d].stage = "new" => call'[d].stage # "flying"
  BY <1>2
<1> QED BY <1>1, <1>2, <1>3, ForgetKeeps

-----------------------------------------------------------------------------
(* TurnBudget: the theorems.                                               *)

\* What OverageStopsDispatches says of one step.
Stops ==
  \A c \in Calls :
    call[c].stage = "new" /\ call'[c].stage = "flying" => Total(StoredUsage) < MaxTotalTokens

LEMMA BudgetInitially ==
  ASSUME NEW p \in Processes, TBInit
  PROVE  BudgetInv(p)
<1>1. TBTypeOK
  BY DEF TBInit, TBTypeOK, NoTokens, NoReservation, Tokens, Stage
<1>2. Accounts(p)
  BY DEF TBInit, Accounts
<1>3. /\ Prompts(recorded) = 0 /\ Completions(recorded) = 0
      /\ Prompts(paid) = 0 /\ Completions(paid) = 0
  <2>1. /\ \A d \in Calls : recorded[d].prompt = 0 /\ recorded[d].completion = 0
        /\ \A d \in Calls : paid[d].prompt = 0 /\ paid[d].completion = 0
    BY DEF TBInit, NoTokens
  <2> QED BY <2>1, TotalsOfNothing
<1>4. known = {}
  BY DEF TBInit
<1>5. StoredUsage.prompt = 0 /\ StoredUsage.completion = 0
  BY <1>3 DEF StoredUsage
<1>6. Within(StoredUsage)
  BY <1>5, PolicyAssumption DEF Within, Total, Cost
<1> QED BY <1>1, <1>2, <1>3, <1>4, <1>6 DEF BudgetInv, Balanced, Limited, Below, StoredUsage, Paid

LEMMA BudgetInductive ==
  ASSUME NEW p, Processes = {p}, BudgetInv(p), [TBNext]_TBvars
  PROVE  BudgetInv(p)' /\ (Stops \/ UNCHANGED TBvars)
<1>1. p \in Processes
  OBVIOUS
<1>2. CASE TBNext
  <2>1. \/ \E c \in Calls : Dispatch(p, c) \/ Settle(p, c) \/ SettleUnknown(p, c)
        \/ Clear(p) \/ Restart(p)
    BY <1>2 DEF TBNext
  <2>2. ASSUME NEW c \in Calls, Dispatch(p, c) PROVE BudgetInv(p)' /\ Stops
    BY <1>1, <2>2, DispatchKeeps DEF Stops
  <2>3. ASSUME NEW c \in Calls, Settle(p, c) PROVE BudgetInv(p)' /\ Stops
    BY <1>1, <2>3, SettleKeeps DEF Stops
  <2>4. ASSUME NEW c \in Calls, SettleUnknown(p, c) PROVE BudgetInv(p)' /\ Stops
    BY <1>1, <2>4, SettleUnknownKeeps DEF Stops
  <2>5. ASSUME Clear(p) \/ Restart(p) PROVE BudgetInv(p)' /\ Stops
    BY <1>1, <2>5, ClearCrashKeeps DEF Stops
  <2> QED BY <2>1, <2>2, <2>3, <2>4, <2>5
<1>3. CASE UNCHANGED TBvars
  BY <1>3 DEF TBvars, BudgetInv, TBTypeOK, Accounts, Balanced, Limited, Below,
              Within, Paid, StoredUsage, Active, Total, Cost
<1> QED BY <1>2, <1>3

LEMMA BudgetInvImplies ==
  ASSUME NEW p, Processes = {p}, BudgetInv(p)
  PROVE  BudgetIsSound
<1>1. \A q \in known : q = p
  BY DEF BudgetInv, TBTypeOK
<1>2. OnlyOverrunsExceed
  BY <1>1 DEF BudgetInv, Limited, Within, OnlyOverrunsExceed
<1>3. EachCallChargedOnce
  <2>1. p \in known => Below(StoredUsage, spent[p]) /\ Below(spent[p], Paid)
    BY DEF BudgetInv, Balanced
  <2>2. Paid.prompt = Prompts(paid) /\ Paid.completion = Completions(paid)
    BY DEF Paid
  <2> QED BY <1>1, <2>1, <2>2 DEF Below, EachCallChargedOnce
<1> QED BY <1>2, <1>3 DEF BudgetInv, BudgetIsSound

\* For every set of calls, every policy, price and usage, and however often the
\* budget is lost: without an overrun a turn stays within its tokens and its cost,
\* and no call is charged twice, in a process that has the turn for itself.
THEOREM BudgetSound == OneProcess => (TBSpec => []BudgetIsSound)
<1> SUFFICES ASSUME NEW p, Processes = {p}
             PROVE  TBSpec => []BudgetIsSound
  BY DEF OneProcess
<1>1. TBInit => BudgetInv(p)
  BY BudgetInitially
<1>2. BudgetInv(p) /\ [TBNext]_TBvars => BudgetInv(p)'
  BY BudgetInductive
<1>3. BudgetInv(p) => BudgetIsSound
  BY BudgetInvImplies
<1> QED BY <1>1, <1>2, <1>3, PTL DEF TBSpec

\* Once the stored usage is at the limit, no request leaves that process.
THEOREM OverageStops == OneProcess => (TBSpec => OverageStopsDispatches)
<1> SUFFICES ASSUME NEW p, Processes = {p}
             PROVE  TBSpec => OverageStopsDispatches
  BY DEF OneProcess
<1>1. TBInit => BudgetInv(p)
  BY BudgetInitially
<1>2. BudgetInv(p) /\ [TBNext]_TBvars => BudgetInv(p)'
  BY BudgetInductive
<1>3. BudgetInv(p) /\ [TBNext]_TBvars => [Stops]_TBvars
  BY BudgetInductive
<1> QED BY <1>1, <1>2, <1>3, PTL DEF TBSpec, OverageStopsDispatches, Stops
-----------------------------------------------------------------------------
(* Encounter: what happens to one combatant.                               *)

Bodies == [hp : 0..MaxHp, state : States, saved : 0..3, failed : 0..3]

\* What DyingIsConsistent says of one actor while the combat is on.
Sound(f) ==
  /\ f.state = "active" => f.hp > 0 /\ f.saved = 0 /\ f.failed = 0
  /\ f.state \in {"unconscious", "stable", "dead"} => f.hp = 0
  /\ (f.failed = 3) = (f.state = "dead")

\* f is a row that combatant c may have.
Fits(c, f) ==
  /\ f \in Bodies
  /\ c \in Actors => Sound(f)
  /\ c \in Templates => f.state \in {"active", "defeated"}

\* A command may turn f into g: a stable actor that fails is dying again.
Follows(c, f, g) ==
  /\ Fits(c, g)
  /\ c \in Actors /\ f.state = "stable" /\ g.failed > f.failed
       => g.state \in {"unconscious", "dead"}

LEMMA FreshBodies ==
  /\ \A h \in 0..MaxHp : /\ Whole(h) \in Bodies
                         /\ Whole(h).state = "active" /\ Whole(h).hp = h
                         /\ Whole(h).saved = 0 /\ Whole(h).failed = 0
                         /\ h > 0 => Sound(Whole(h))
  /\ Dead \in Bodies /\ Sound(Dead) /\ Dead.state = "dead" /\ Dead.hp = 0
  /\ Down \in Bodies /\ Sound(Down) /\ Down.state = "unconscious" /\ Down.hp = 0
  /\ Down.failed = 0
<1>1. \A h \in 0..MaxHp : /\ Whole(h) \in Bodies
                          /\ Whole(h).state = "active" /\ Whole(h).hp = h
                          /\ Whole(h).saved = 0 /\ Whole(h).failed = 0
  BY HitPointsAssumption DEF Whole, Bodies, States, Living
<1>2. 0 \in 0..MaxHp
  BY HitPointsAssumption
<1>3. Whole(0) \in Bodies /\ Whole(0).hp = 0 /\ Whole(0).saved = 0 /\ Whole(0).failed = 0
  BY <1>1, <1>2
<1>4. /\ Dead \in Bodies /\ Dead.state = "dead" /\ Dead.hp = 0 /\ Dead.saved = 0
      /\ Dead.failed = 3
  <2>1. "dead" \in States /\ 3 \in 0..3
    BY DEF States
  <2>2. [Whole(0) EXCEPT !.state = "dead", !.failed = 3] \in Bodies
    BY <1>3, <2>1 DEF Bodies
  <2> QED BY <1>3, <2>2 DEF Dead, Bodies
<1>5. /\ Down \in Bodies /\ Down.state = "unconscious" /\ Down.hp = 0 /\ Down.saved = 0
      /\ Down.failed = 0
  BY <1>3 DEF Down, Bodies, States, Living
<1> QED BY <1>1, <1>4, <1>5 DEF Sound

\* A row with some of its columns changed.
LEMMA ColumnsOf ==
  ASSUME NEW f \in Bodies
  PROVE  f.hp \in 0..MaxHp /\ f.state \in States /\ f.saved \in 0..3 /\ f.failed \in 0..3
BY DEF Bodies

LEMMA HpChanged ==
  ASSUME NEW f \in Bodies, NEW h \in 0..MaxHp
  PROVE  LET g == [f EXCEPT !.hp = h] IN
         /\ g \in Bodies
         /\ g.hp = h /\ g.state = f.state /\ g.saved = f.saved /\ g.failed = f.failed
BY DEF Bodies

LEMMA StateChanged ==
  ASSUME NEW f \in Bodies, NEW s \in States
  PROVE  LET g == [f EXCEPT !.state = s] IN
         /\ g \in Bodies
         /\ g.hp = f.hp /\ g.state = s /\ g.saved = f.saved /\ g.failed = f.failed
BY DEF Bodies

LEMMA HpAndStateChanged ==
  ASSUME NEW f \in Bodies, NEW h \in 0..MaxHp, NEW s \in States
  PROVE  LET g == [f EXCEPT !.hp = h, !.state = s] IN
         /\ g \in Bodies
         /\ g.hp = h /\ g.state = s /\ g.saved = f.saved /\ g.failed = f.failed
BY DEF Bodies

LEMMA SavesChanged ==
  ASSUME NEW f \in Bodies, NEW s \in States, NEW m \in 0..3, NEW n \in 0..3
  PROVE  LET g == [f EXCEPT !.failed = n, !.saved = m, !.state = s] IN
         /\ g \in Bodies
         /\ g.hp = f.hp /\ g.state = s /\ g.saved = m /\ g.failed = n
BY DEF Bodies

LEMMA FailuresChanged ==
  ASSUME NEW f \in Bodies, NEW s \in States, NEW n \in 0..3
  PROVE  LET g == [f EXCEPT !.failed = n, !.state = s] IN
         /\ g \in Bodies
         /\ g.hp = f.hp /\ g.state = s /\ g.saved = f.saved /\ g.failed = n
BY DEF Bodies

LEMMA BlowOnDying ==
  ASSUME NEW f \in Bodies, Sound(f), f.hp = 0, f.state \in Living, NEW n \in {1, 2}
  PROVE  /\ DyingBlow(f, n) \in Bodies /\ Sound(DyingBlow(f, n))
         /\ DyingBlow(f, n).state \in {"unconscious", "dead"}
<1>1. f.failed \in 0..3
  BY ColumnsOf
<1> DEFINE s == IF f.failed + n >= 3 THEN "dead" ELSE "unconscious"
           m == UpTo3(f.failed + n)
<1>2. s \in States /\ m \in 0..3 /\ (m = 3) = (s = "dead") /\ s \in {"unconscious", "dead"}
  BY <1>1 DEF UpTo3, Lesser, States, Living
<1>3. DyingBlow(f, n) = [f EXCEPT !.failed = m, !.state = s]
  BY DEF DyingBlow
<1> HIDE DEF s, m
<1>4. /\ DyingBlow(f, n) \in Bodies /\ DyingBlow(f, n).state = s
      /\ DyingBlow(f, n).failed = m /\ DyingBlow(f, n).hp = 0
  <2>1. /\ [f EXCEPT !.failed = m, !.state = s] \in Bodies
        /\ [f EXCEPT !.failed = m, !.state = s].state = s
        /\ [f EXCEPT !.failed = m, !.state = s].failed = m
        /\ [f EXCEPT !.failed = m, !.state = s].hp = f.hp
    BY <1>2 DEF Bodies
  <2> QED BY <1>3, <2>1
<1> QED BY <1>2, <1>4 DEF Sound

\* One blow.
LEMMA HurtFollows ==
  ASSUME NEW c \in Combatants, NEW f, Fits(c, f), f.state \in Living,
         NEW d \in Nat, NEW grave \in BOOLEAN
  PROVE  LET g == Hurt(c, f, d, grave) IN
         /\ Fits(c, g)
         /\ c \in Actors => g.state \in Living \cup {"dead"}
         /\ c \in Actors /\ f.state = "stable" =>
              (g.state = "stable" /\ g.failed = f.failed) \/ g.state \in {"unconscious", "dead"}
         /\ c \in Actors /\ f.state = "unconscious" => g.state \in {"unconscious", "dead"}
         /\ c \in Actors /\ f.state = "active" /\ d < f.hp + MaxHp => g.state \in Able
<1> DEFINE hp == AtLeastZero(f.hp - d)
           g == Hurt(c, f, d, grave)
<1>1. f \in Bodies /\ f.hp \in 0..MaxHp /\ f.state \in States /\ f.failed \in 0..3
  BY ColumnsOf DEF Fits
<1>2. hp \in 0..MaxHp /\ (hp = 0 <=> f.hp <= d) /\ (hp > 0 => hp = f.hp - d)
  BY <1>1, HitPointsAssumption DEF AtLeastZero
<1>3. CASE c \in Templates
  <2>1. c \notin Actors
    BY <1>3, CombatantsAssumption
  <2> DEFINE s == IF hp = 0 THEN "defeated" ELSE "active"
  <2>2. g = [f EXCEPT !.hp = hp, !.state = s]
    BY <1>3, <2>1 DEF Hurt
  <2>3. s \in States /\ s \in {"active", "defeated"}
    BY DEF States, Living
  <2> HIDE DEF s, hp, g
  <2>4. g \in Bodies /\ g.state = s
    BY <1>1, <1>2, <2>2, <2>3 DEF Bodies
  <2>5. Fits(c, g)
    BY <2>1, <2>3, <2>4 DEF Fits
  <2> QED BY <2>1, <2>5 DEF g
<1>4. CASE c \in Actors
  <2>1. c \notin Templates /\ Sound(f)
    BY <1>4, CombatantsAssumption DEF Fits
  <2>2. CASE f.hp > 0 /\ hp = 0
    <3>1. g = IF d - f.hp >= MaxHp THEN Dead ELSE Down
      BY <1>4, <2>1, <2>2 DEF Hurt
    <3>2. f.state = "active"
      BY <2>1, <2>2 DEF Sound, Living
    <3>3. d < f.hp + MaxHp => ~(d - f.hp >= MaxHp)
      BY <1>1, HitPointsAssumption
    <3>4. g \in Bodies /\ Sound(g) /\ g.state \in {"unconscious", "dead"}
      BY <3>1, FreshBodies
    <3>5. d < f.hp + MaxHp => g.state = "unconscious"
      BY <3>1, <3>3, FreshBodies
    <3> HIDE DEF g, hp
    <3>6. Fits(c, g)
      BY <2>1, <3>4 DEF Fits
    <3> QED BY <3>2, <3>4, <3>5, <3>6 DEF g, Able, Living
  <2>3. CASE f.hp = 0 /\ d > 0
    <3>1. g = DyingBlow(f, IF grave THEN 2 ELSE 1)
      BY <1>4, <2>1, <2>3 DEF Hurt
    <3>2. g \in Bodies /\ Sound(g) /\ g.state \in {"unconscious", "dead"}
      <4>1. (IF grave THEN 2 ELSE 1) \in {1, 2}
        OBVIOUS
      <4> HIDE DEF g, hp
      <4> QED BY <1>1, <2>1, <2>3, <3>1, <4>1, BlowOnDying
    <3>3. f.state # "active"
      BY <2>1, <2>3 DEF Sound
    <3> HIDE DEF g, hp
    <3>4. Fits(c, g)
      BY <2>1, <3>2 DEF Fits
    <3> QED BY <3>2, <3>3, <3>4 DEF g, Living
  <2>4. CASE ~(f.hp > 0 /\ hp = 0) /\ ~(f.hp = 0 /\ d > 0)
    <3>1. g = [f EXCEPT !.hp = hp]
      BY <1>4, <2>1, <2>4 DEF Hurt
    <3> HIDE DEF g
    <3>2. /\ g \in Bodies /\ g.hp = hp /\ g.state = f.state /\ g.saved = f.saved
          /\ g.failed = f.failed
      BY <1>1, <1>2, <3>1, HpChanged
    <3>3. f.hp > 0 => hp > 0
      BY <1>2, <2>4
    <3>4. f.hp = 0 => hp = 0
      BY <1>1, <1>2
    <3> HIDE DEF hp
    <3>5. Sound(g)
      BY <1>1, <1>2, <2>1, <3>2, <3>3, <3>4 DEF Sound
    <3>6. Fits(c, g)
      BY <2>1, <3>2, <3>5 DEF Fits
    <3> QED BY <3>2, <3>6 DEF g, Living, Able
  <2> QED BY <1>1, <2>2, <2>3, <2>4
<1> QED BY <1>3, <1>4 DEF Combatants

\* A sequence of blows, one or two.
LEMMA HurtAllFollows ==
  ASSUME NEW c \in Actors, NEW f, Fits(c, f), f.state \in Living,
         NEW h \in HurtAll(c, f)
  PROVE  Follows(c, f, h)
<1>1. c \in Combatants
  BY DEF Combatants
<1>3. Damages \subseteq Nat
  BY HitPointsAssumption
<1>4. ASSUME NEW x \in Damages
      PROVE  LET g == Hurt(c, f, x, FALSE) IN
             /\ Fits(c, g)
             /\ f.state = "stable" =>
                  (g.state = "stable" /\ g.failed = f.failed) \/ g.state \in {"unconscious", "dead"}
             /\ g.state \in Living \cup {"dead"}
  BY <1>1, <1>3, HurtFollows
<1>5. CASE \E x \in Damages : h = Hurt(c, f, x, FALSE)
  <2>1. /\ Fits(c, h)
        /\ f.state = "stable" =>
             (h.state = "stable" /\ h.failed = f.failed) \/ h.state \in {"unconscious", "dead"}
    BY <1>4, <1>5
  <2>2. h.failed \in Int
    BY <2>1, ColumnsOf DEF Fits
  <2> QED BY <2>1, <2>2 DEF Follows
<1>6. CASE \E x, y \in Damages : /\ Hurt(c, f, x, FALSE).state \notin {"dead", "defeated"}
                                 /\ h = Hurt(c, Hurt(c, f, x, FALSE), y, FALSE)
  <2>1. PICK x \in Damages, y \in Damages :
               /\ Hurt(c, f, x, FALSE).state \notin {"dead", "defeated"}
               /\ h = Hurt(c, Hurt(c, f, x, FALSE), y, FALSE)
    BY <1>6
  <2> DEFINE g == Hurt(c, f, x, FALSE)
  <2>2. /\ Fits(c, g) /\ g.state \in Living
        /\ f.state = "stable" =>
             (g.state = "stable" /\ g.failed = f.failed) \/ g.state = "unconscious"
    BY <1>4, <2>1
  <2>3. h = Hurt(c, g, y, FALSE) /\ y \in Nat
    BY <1>3, <2>1
  <2> HIDE DEF g
  <2>4. /\ Fits(c, h)
        /\ g.state = "stable" =>
             (h.state = "stable" /\ h.failed = g.failed) \/ h.state \in {"unconscious", "dead"}
        /\ g.state = "unconscious" => h.state \in {"unconscious", "dead"}
    BY <1>1, <2>2, <2>3, HurtFollows
  <2>5. h.failed \in Int
    BY <2>4, ColumnsOf DEF Fits
  <2> QED BY <2>2, <2>4, <2>5 DEF Follows
<1>7. \/ \E x \in Damages : h = Hurt(c, f, x, FALSE)
      \/ \E x, y \in Damages : /\ Hurt(c, f, x, FALSE).state \notin {"dead", "defeated"}
                               /\ h = Hurt(c, Hurt(c, f, x, FALSE), y, FALSE)
  <2>1. \A g : \A i \in Struck(c, g) : \E x \in Damages : i = Hurt(c, g, x, FALSE)
    BY DEF Struck
  <2>2. \/ h \in Struck(c, f)
        \/ \E g \in Struck(c, f) : g.state \notin {"dead", "defeated"} /\ h \in Struck(c, g)
    BY Zenon DEF HurtAll
  <2>3. CASE h \in Struck(c, f)
    BY <2>1, <2>3
  <2>4. CASE \E g \in Struck(c, f) : g.state \notin {"dead", "defeated"} /\ h \in Struck(c, g)
    <3>1. PICK g \in Struck(c, f) : g.state \notin {"dead", "defeated"} /\ h \in Struck(c, g)
      BY <2>4
    <3>2. PICK x \in Damages : g = Hurt(c, f, x, FALSE)
      BY <2>1, <3>1
    <3>3. PICK y \in Damages : h = Hurt(c, g, y, FALSE)
      BY <2>1, <3>1
    <3> QED BY <3>1, <3>2, <3>3
  <2> QED BY <2>2, <2>3, <2>4
<1> QED BY <1>5, <1>6, <1>7

\* Damage of a power.
LEMMA HurtByPowerFollows ==
  ASSUME NEW c \in Combatants, NEW f, Fits(c, f), f.state \in Living, NEW d \in Nat
  PROVE  LET g == HurtByPower(c, f, d) IN
         /\ Follows(c, f, g)
         /\ c \in Actors /\ f.state = "active" => g.state \in Able
<1> DEFINE g == HurtByPower(c, f, d)
           x == Lesser(d, f.hp)
<1>1. f.hp \in 0..MaxHp /\ f.failed \in 0..3
  BY ColumnsOf DEF Fits
<1>2. x \in Nat /\ x < f.hp + MaxHp
  BY <1>1, HitPointsAssumption DEF Lesser
<1> HIDE DEF x
<1>3. CASE c \in Actors /\ f.hp = 0
  <2>1. g = f
    BY <1>3 DEF HurtByPower
  <2> QED BY <1>1, <1>3, <2>1 DEF Follows, Fits, Sound
<1>4. CASE ~(c \in Actors /\ f.hp = 0)
  <2>1. g = Hurt(c, f, x, FALSE)
    BY <1>4 DEF HurtByPower, x
  <2> HIDE DEF g
  <2>2. /\ Fits(c, g)
        /\ c \in Actors /\ f.state = "active" => g.state \in Able
    BY <1>2, <2>1, HurtFollows
  <2>3. c \in Actors => f.state # "stable"
    BY <1>4 DEF Fits, Sound
  <2> QED BY <2>2, <2>3 DEF Follows, g
<1> QED BY <1>3, <1>4

\* Healing.
LEMMA HealedFollows ==
  ASSUME NEW c \in Combatants, NEW f, Fits(c, f), f.state \in Living, NEW h \in Nat
  PROVE  LET g == Healed(f, h) IN
         Follows(c, f, g) /\ (f.state = "active" => g.state = "active")
<1> DEFINE hp == Lesser(MaxHp, f.hp + h)
           g == Healed(f, h)
<1>1. f \in Bodies /\ f.hp \in 0..MaxHp /\ f.failed \in 0..3
  BY ColumnsOf DEF Fits
<1>2. hp \in 0..MaxHp /\ f.hp <= hp
  BY <1>1, HitPointsAssumption DEF Lesser
<1>3. CASE f.hp = 0 /\ hp > 0
  <2>1. g = Whole(hp)
    BY <1>3 DEF Healed
  <2> HIDE DEF hp, g
  <2>2. g \in Bodies /\ g.state = "active" /\ g.failed = 0 /\ Sound(g)
    BY <1>2, <1>3, <2>1, FreshBodies
  <2> QED BY <1>1, <2>2 DEF Follows, Fits, g
<1>4. CASE ~(f.hp = 0 /\ hp > 0)
  <2>1. g = [f EXCEPT !.hp = hp]
    BY <1>4 DEF Healed
  <2> HIDE DEF hp, g
  <2>2. /\ g \in Bodies /\ g.hp = hp /\ g.state = f.state /\ g.saved = f.saved
        /\ g.failed = f.failed
    BY <1>1, <1>2, <2>1, HpChanged
  <2>3. c \in Actors => Sound(g)
    <3>1. c \in Actors => Sound(f)
      BY DEF Fits
    <3> QED BY <1>1, <1>2, <1>4, <2>2, <3>1 DEF Sound, Living
  <2> QED BY <1>1, <2>2, <2>3 DEF Follows, Fits, g
<1> QED BY <1>3, <1>4

\* Opportunity attacks.
LEMMA GrazedFollows ==
  ASSUME NEW c \in Actors, NEW f, Fits(c, f), f.state = "active", NEW d \in Nat
  PROVE  LET g == Grazed(f, d) IN Follows(c, f, g) /\ g.state \in Able
<1> DEFINE hp == AtLeastZero(f.hp - d)
           s == IF hp = 0 THEN "unconscious" ELSE f.state
           g == Grazed(f, d)
<1>1. f \in Bodies /\ f.hp \in 0..MaxHp /\ f.failed \in 0..3 /\ Sound(f)
  BY ColumnsOf DEF Fits
<1>2. f.hp > 0 /\ f.saved = 0 /\ f.failed = 0
  BY <1>1 DEF Sound
<1>3. hp \in 0..MaxHp
  BY <1>1, HitPointsAssumption DEF AtLeastZero
<1>4. g = [f EXCEPT !.hp = hp, !.state = s]
  BY <1>2 DEF Grazed
<1>5. s \in States /\ s \in Able /\ s \in {"active", "unconscious"} /\ (s = "active" <=> hp # 0)
  BY DEF States, Living, Able
<1> HIDE DEF s, hp, g
<1>6. g \in Bodies /\ g.hp = hp /\ g.state = s /\ g.saved = 0 /\ g.failed = 0
  BY <1>1, <1>2, <1>3, <1>4, <1>5 DEF Bodies
<1>7. Sound(g)
  BY <1>3, <1>5, <1>6 DEF Sound
<1> QED BY <1>5, <1>6, <1>7, CombatantsAssumption DEF Follows, Fits, g

\* What a consumable does to its target.
LEMMA ThrownFollows ==
  ASSUME NEW c \in Combatants, NEW f, Fits(c, f), f.state = "active", NEW d \in Nat
  PROVE  Follows(c, f, Thrown(f, d))
<1> DEFINE hp == AtLeastZero(f.hp - d)
           s == IF hp = 0 THEN "defeated" ELSE f.state
           g == Thrown(f, d)
<1>1. f \in Bodies /\ f.hp \in 0..MaxHp /\ f.failed \in 0..3
  BY ColumnsOf DEF Fits
<1>2. hp \in 0..MaxHp
  BY <1>1, HitPointsAssumption DEF AtLeastZero
<1>3. g = [f EXCEPT !.hp = hp, !.state = s]
  BY DEF Thrown
<1>4. s \in States /\ s \in {"active", "defeated"} /\ (s = "active" <=> hp # 0)
  BY DEF States, Living
<1> HIDE DEF s, hp, g
<1>5. g \in Bodies /\ g.hp = hp /\ g.state = s /\ g.saved = f.saved /\ g.failed = f.failed
  BY <1>1, <1>2, <1>3, <1>4 DEF Bodies
<1>6. c \in Actors => Sound(g)
  BY <1>2, <1>4, <1>5 DEF Sound, Fits
<1> QED BY <1>4, <1>5, <1>6 DEF Follows, Fits, g

\* A death saving throw.
LEMMA DeathSaveFollows ==
  ASSUME NEW c \in Actors, NEW f, Fits(c, f), f.state = "unconscious",
         NEW roll \in {"one", "failure", "success", "twenty"}
  PROVE  Follows(c, f, DeathSave(f, roll))
<1> DEFINE n == UpTo3(f.failed + (CASE roll = "one" -> 2 [] roll = "failure" -> 1 [] OTHER -> 0))
           m == UpTo3(f.saved + (IF roll = "success" THEN 1 ELSE 0))
           s == IF n = 3 THEN "dead" ELSE IF m = 3 THEN "stable" ELSE "unconscious"
           g == DeathSave(f, roll)
<1>1. f \in Bodies /\ f.hp = 0 /\ f.failed \in 0..3 /\ f.saved \in 0..3
  BY ColumnsOf DEF Fits, Sound
<1>2. c \notin Templates
  BY CombatantsAssumption
<1>3. CASE roll = "twenty"
  <2>1. g = Whole(1)
    BY <1>3 DEF DeathSave
  <2>2. 1 \in 0..MaxHp /\ 1 > 0
    BY HitPointsAssumption
  <2> HIDE DEF g
  <2>3. g \in Bodies /\ Sound(g)
    BY <2>1, <2>2, FreshBodies
  <2> QED BY <1>2, <2>3 DEF Follows, Fits, g
<1>4. CASE roll # "twenty"
  <2>1. (CASE roll = "one" -> 2 [] roll = "failure" -> 1 [] OTHER -> 0) \in 0..2
    OBVIOUS
  <2>2. n \in 0..3
    BY <1>1, <2>1 DEF UpTo3, Lesser
  <2>3. m \in 0..3
    BY <1>1 DEF UpTo3, Lesser
  <2>4. g = [f EXCEPT !.failed = n, !.saved = m, !.state = s]
    BY <1>4 DEF DeathSave
  <2>5. s \in States /\ s \in {"dead", "stable", "unconscious"} /\ (n = 3) = (s = "dead")
    BY DEF States, Living
  <2> HIDE DEF n, m, s, g
  <2>6. g \in Bodies /\ g.hp = 0 /\ g.state = s /\ g.saved = m /\ g.failed = n
    BY <1>1, <2>2, <2>3, <2>4, <2>5 DEF Bodies
  <2>7. Sound(g)
    BY <2>5, <2>6 DEF Sound
  <2> QED BY <1>2, <2>6, <2>7 DEF Follows, Fits, g
<1> QED BY <1>3, <1>4

\* Stabilization, and flight.
LEMMA StabilizedFollows ==
  ASSUME NEW c \in Actors, NEW f, Fits(c, f), f.state = "unconscious"
  PROVE  LET g == [Down EXCEPT !.state = "stable"] IN Follows(c, f, g) /\ g.hp = f.hp
<1> DEFINE g == [Down EXCEPT !.state = "stable"]
<1>1. "stable" \in States
  BY DEF States, Living
<1>2. g \in Bodies /\ g.hp = 0 /\ g.state = "stable" /\ g.failed = 0
  BY <1>1, FreshBodies DEF Bodies
<1> HIDE DEF g
<1>3. f.hp = 0 /\ c \notin Templates
  BY CombatantsAssumption DEF Fits, Sound
<1>4. Sound(g)
  BY <1>2 DEF Sound
<1> QED BY <1>2, <1>3, <1>4 DEF Follows, Fits, g

LEMMA FledFollows ==
  ASSUME NEW c \in Actors, NEW f, Fits(c, f), f.state = "active"
  PROVE  LET g == [f EXCEPT !.state = "fled"] IN Follows(c, f, g) /\ g.hp = f.hp
<1> DEFINE g == [f EXCEPT !.state = "fled"]
<1>1. f \in Bodies /\ "fled" \in States
  BY DEF States, Living, Fits
<1>2. g \in Bodies /\ g.hp = f.hp /\ g.state = "fled" /\ g.failed = f.failed
  BY <1>1 DEF Bodies
<1> HIDE DEF g
<1>3. f.failed = 0 /\ c \notin Templates
  BY CombatantsAssumption DEF Fits, Sound
<1>4. Sound(g)
  BY <1>2, <1>3 DEF Sound
<1> QED BY <1>2, <1>3, <1>4 DEF Follows, Fits, g

\* Opportunity attacks cost hit points.
LEMMA GrazedLess ==
  ASSUME NEW f \in Bodies, NEW d \in Nat
  PROVE  Grazed(f, d).hp <= f.hp
<1>1. f.hp \in 0..MaxHp
  BY ColumnsOf
<1>2. AtLeastZero(f.hp - d) <= f.hp
  BY <1>1, HitPointsAssumption DEF AtLeastZero
<1> QED BY <1>1, <1>2, HitPointsAssumption DEF Grazed, Bodies

-----------------------------------------------------------------------------
(* Encounter: whose turn it is.                                            *)

Numbers == 1..Cardinality(Combatants)
Ordered == order \in Seq(Combatants) /\ order \in Bijection(Numbers, Combatants)

\* The bodies of a combat that is on.
AllFit(b) ==
  /\ b \in [Combatants -> Bodies]
  /\ \A c \in Templates \cup fighters : Fits(c, b[c])

\* Less than two sides means one side, or none.
LEMMA OneTeam ==
  ASSUME team \in [Combatants -> Sides], NEW S \in SUBSET Combatants
  PROVE  Cardinality(TeamsOf(S)) < 2 <=> \A c, d \in S : team[c] = team[d]
<1> DEFINE T == TeamsOf(S)
<1>1. T \subseteq {"allies", "enemies"}
  BY DEF TeamsOf, Sides
<1>2. IsFiniteSet({"allies"}) /\ Cardinality({"allies"}) = 1
  BY FS_Singleton
<1>3. {"allies", "enemies"} = {"allies"} \cup {"enemies"}
  OBVIOUS
<1>4. Cardinality({"allies", "enemies"}) = 2
  BY <1>2, <1>3, FS_AddElement
<1>5. ASSUME NEW c \in S, NEW d \in S, team[c] # team[d] PROVE Cardinality(T) = 2
  <2>1. team[c] \in T /\ team[d] \in T
    BY DEF TeamsOf
  <2> HIDE DEF T
  <2>2. T = {"allies", "enemies"}
    BY <1>1, <1>5, <2>1
  <2> QED BY <1>4, <2>2
<1>6. ASSUME \A c, d \in S : team[c] = team[d] PROVE Cardinality(T) < 2
  <2>1. CASE S = {}
    <3>1. T = {}
      BY <2>1 DEF TeamsOf
    <3> HIDE DEF T
    <3> QED BY <3>1, FS_EmptySet
  <2>2. CASE S # {}
    <3>1. PICK c \in S : TRUE
      BY <2>2
    <3>2. T = {team[c]}
      BY <1>6 DEF TeamsOf
    <3>3. Cardinality({team[c]}) = 1
      BY FS_Singleton
    <3> QED BY <3>2, <3>3
  <2> QED BY <2>1, <2>2
<1> QED BY <1>5, <1>6

\* Every combatant has a place of its own in the order.
LEMMA Places ==
  ASSUME Ordered
  PROVE  /\ Cardinality(Combatants) \in Nat /\ Len(order) = Cardinality(Combatants)
         /\ \A c \in Combatants : Place(c) \in Numbers /\ order[Place(c)] = c
<1>1. Cardinality(Combatants) \in Nat
  BY CombatantsAssumption, FS_CardinalityType
<1>2. order \in [Numbers -> Combatants] /\ \A c \in Combatants : \E i \in Numbers : order[i] = c
  BY DEF Ordered, Bijection, Injection, Surjection
<1>3. Len(order) = Cardinality(Combatants)
  BY <1>1, <1>2 DEF Ordered, Numbers
<1>4. ASSUME NEW c \in Combatants PROVE Place(c) \in Numbers /\ order[Place(c)] = c
  <2>1. DOMAIN order = Numbers
    BY <1>2
  <2>2. \E i \in DOMAIN order : order[i] = c
    BY <1>2, <2>1
  <2>3. Place(c) \in DOMAIN order /\ order[Place(c)] = c
    BY <2>2 DEF Place
  <2> QED BY <2>1, <2>3
<1> QED BY <1>1, <1>3, <1>4

LEMMA DistanceIsNatural ==
  ASSUME Ordered, current \in Combatants, NEW d \in Combatants
  PROVE  Distance(d) \in Nat
<1>1. /\ Cardinality(Combatants) \in Nat /\ Len(order) = Cardinality(Combatants)
      /\ Place(d) \in 1..Cardinality(Combatants) /\ Place(current) \in 1..Cardinality(Combatants)
  BY Places DEF Numbers
<1> DEFINE x == Place(d) - Place(current) - 1
           n == Cardinality(Combatants)
<1>2. x \in Int /\ n \in Nat /\ n > 0
  BY <1>1
<1>3. Distance(d) = x % n
  BY <1>1 DEF Distance
<1> HIDE DEF x, n
<1>4. x % n \in Nat
  BY <1>2
<1> QED BY <1>3, <1>4

\* planTurnAdvance finds a combatant that is able whenever there is one.
LEMMA NextTurnIsAble ==
  ASSUME Ordered, current \in Combatants, fighters \subseteq Combatants,
         NEW b, ~Terminal(b), In(b, Able) # {}
  PROVE  NextTurn(b) \in In(b, Able)
<1> DEFINE S == In(b, Able)
           D == {Distance(d) : d \in S}
<1>1. S \subseteq Combatants /\ S # {}
  BY DEF In
<1>2. \A d \in S : Distance(d) \in Nat
  BY <1>1, DistanceIsNatural
<1> HIDE DEF S
<1>3. D \in SUBSET Nat /\ D # {}
  BY <1>1, <1>2
<1>4. PICK x \in D : \A y \in D : x <= y
  <2> HIDE DEF D
  <2> QED BY <1>3, LeastNatural
<1>5. PICK d \in S : x = Distance(d)
  BY <1>4
<1>6. \A e \in S : Distance(d) <= Distance(e)
  BY <1>4, <1>5
<1>7. NextTurn(b) = CHOOSE f \in S : \A e \in S : Distance(f) <= Distance(e)
  BY DEF NextTurn, S
<1>8. (CHOOSE f \in S : \A e \in S : Distance(f) <= Distance(e)) \in S
  BY <1>5, <1>6
<1> QED BY <1>7, <1>8 DEF S

\* The turn is given up when the combat is terminal or nobody is able: then all
\* who live are stable, and no enemy made from a template is.
LEMMA NoTurnMeansOver ==
  ASSUME Ordered, current \in Combatants, fighters \subseteq Combatants,
         team \in [Combatants -> Sides], NEW b, AllFit(b)
  PROVE  /\ NextTurn(b) = None => Terminal(b) \/ FallenDuel(b)
         /\ NextTurn(b) # None => NextTurn(b) \in In(b, Able)
<1>1. ASSUME ~Terminal(b), In(b, Able) = {} PROVE FallenDuel(b)
  <2>1. In(b, Living) \subseteq Combatants /\ In(b, {"active"}) = {}
    BY <1>1 DEF In, Able
  <2>2. PICK c \in In(b, Living), d \in In(b, Living) : team[c] # team[d]
    BY <1>1, <2>1, OneTeam DEF Terminal
  <2>3. ASSUME NEW e \in In(b, Living) PROVE e \in Actors
    <3>1. e \in fighters /\ b[e].state \in Living /\ b[e].state # "active"
      BY <2>1 DEF In
    <3>2. e \in Templates => b[e].state \in {"active", "defeated"}
      BY <3>1 DEF AllFit, Fits
    <3> QED BY <2>1, <3>1, <3>2 DEF Combatants, Living
  <2>4. Cardinality(TeamsOf(In(b, {"active"}))) < 2
    BY <2>1, OneTeam
  <2> QED BY <2>2, <2>3, <2>4 DEF FallenDuel
<1>2. ~Terminal(b) /\ In(b, Able) # {} => NextTurn(b) \in In(b, Able)
  BY NextTurnIsAble
<1>3. Terminal(b) \/ In(b, Able) = {} => NextTurn(b) = None
  BY DEF NextTurn
<1>4. None \notin In(b, Able)
  BY CombatantsAssumption DEF In
<1> QED BY <1>1, <1>2, <1>3, <1>4

Economies == [who : fighters \cup {None}, acted : BOOLEAN, quick : BOOLEAN,
              disengaged : BOOLEAN]

\* Everyone has had at most one turn in this round, and who comes after c none.
Rounds(t, c) ==
  /\ t \in [Combatants -> Nat]
  /\ \A d \in Combatants : t[d] <= 1
  /\ \A d \in Combatants : Place(d) > Place(c) => t[d] = 0

\* A combat that is on and has a current combatant.
Playing ==
  /\ fighters \subseteq Combatants /\ current \in fighters
  /\ team \in [Combatants -> Sides] /\ Ordered /\ AllFit(body)
  /\ Rounds(turns, current) /\ reacted \subseteq fighters
  /\ economy \in Economies /\ economy.who = current

\* What a command with the outcome b makes of the turn.
Goes(b) ==
  /\ economy' \in Economies /\ reacted' \subseteq fighters
  /\ \/ /\ current' \in fighters /\ Rounds(turns', current')
        /\ b[current'].state \in Able /\ economy'.who = current'
     \/ /\ current' = None /\ turns' = turns
        /\ Terminal(b) \/ FallenDuel(b)
        /\ economy' = Closed

LEMMA TurnIsEconomy ==
  ASSUME NEW c \in fighters \cup {None}
  PROVE  Turn(c) \in Economies /\ Turn(c).who = c
BY DEF Turn, Economies

\* persistTurnAdvance opens the turn of somebody who had none in that round.
LEMMA Passes ==
  ASSUME Playing, NEW b, AllFit(b), Pass(NextTurn(b))
  PROVE  Goes(b)
<1> DEFINE n == NextTurn(b)
<1>1. /\ Ordered /\ current \in Combatants /\ fighters \subseteq Combatants
      /\ team \in [Combatants -> Sides] /\ Rounds(turns, current) /\ reacted \subseteq fighters
  BY DEF Playing
<1>2. /\ n = None => Terminal(b) \/ FallenDuel(b)
      /\ n # None => n \in fighters /\ b[n].state \in Able
  BY <1>1, NoTurnMeansOver DEF In
<1>3. Pass(n)
  OBVIOUS
<1> HIDE DEF n
<1>4. CASE n = None
  <2>1. current' = None /\ economy' = Closed /\ turns' = turns /\ reacted' = reacted
    BY <1>3, <1>4 DEF Pass
  <2>2. economy' \in Economies
    BY <2>1, TurnIsEconomy DEF Closed
  <2> QED BY <1>1, <1>2, <1>4, <2>1, <2>2 DEF Goes
<1>5. CASE n # None
  <2>1. n \in fighters /\ n \in Combatants /\ b[n].state \in Able
    BY <1>1, <1>2, <1>5
  <2>2. /\ current' = n /\ economy' = Turn(n)
        /\ turns' = IF Wraps(n) THEN [c \in Combatants |-> IF c = n THEN 1 ELSE 0]
                                ELSE [turns EXCEPT ![n] = @ + 1]
        /\ reacted' = IF Wraps(n) THEN {} ELSE reacted
    BY <1>3, <1>5 DEF Pass
  <2>3. economy' \in Economies /\ economy'.who = n
    BY <2>1, <2>2, TurnIsEconomy
  <2>4. reacted' \subseteq fighters
    BY <1>1, <2>2
  <2>5. \A d \in Combatants : Place(d) \in Nat
    BY <1>1, Places DEF Numbers
  <2>6. Rounds(turns', n)
    <3>1. CASE Wraps(n)
      <4>1. turns' = [c \in Combatants |-> IF c = n THEN 1 ELSE 0]
        BY <2>2, <3>1
      <4> QED BY <2>1, <2>5, <4>1 DEF Rounds
    <3>2. CASE ~Wraps(n)
      <4>1. turns' = [turns EXCEPT ![n] = @ + 1] /\ Place(n) > Place(current)
        BY <1>1, <2>1, <2>2, <2>5, <3>2 DEF Wraps
      <4>2. turns[n] = 0 /\ turns \in [Combatants -> Nat]
        BY <1>1, <2>1, <4>1 DEF Rounds
      <4>3. \A d \in Combatants : turns'[d] = IF d = n THEN 1 ELSE turns[d]
        BY <4>1, <4>2
      <4>4. turns' \in [Combatants -> Nat]
        <5>1. turns[n] + 1 \in Nat
          BY <4>2
        <5> QED BY <4>1, <4>2, <5>1
      <4>5. \A d \in Combatants : Place(d) > Place(n) => d # n /\ turns[d] = 0
        BY <1>1, <2>1, <2>5, <4>1 DEF Rounds
      <4> QED BY <1>1, <4>3, <4>4, <4>5 DEF Rounds
    <3> QED BY <3>1, <3>2
  <2> QED BY <2>1, <2>2, <2>3, <2>4, <2>6 DEF Goes
<1> QED BY <1>4, <1>5

LEMMA KeepsTurn ==
  ASSUME Playing, NEW b, AllFit(b), b[current].state \in Able,
         NEW row \in Economies, row.who = current, Keep(b, row)
  PROVE  Goes(b)
<1>1. CASE NextTurn(b) = None
  <2>1. Pass(NextTurn(b))
    BY <1>1 DEF Keep
  <2> QED BY <2>1, Passes
<1>2. CASE NextTurn(b) # None
  <2>1. economy' = row /\ current' = current /\ turns' = turns /\ reacted' = reacted
    BY <1>2 DEF Keep
  <2>2. current \in fighters /\ Rounds(turns, current) /\ reacted \subseteq fighters
    BY DEF Playing
  <2> QED BY <2>1, <2>2 DEF Goes
<1> QED BY <1>1, <1>2

-----------------------------------------------------------------------------
(* Encounter: the inductive invariant.                                     *)

\* Before the combat is on nobody has a turn, and every body is as created.
Quiet ==
  status \in {"none", "preparing", "cancelled"} =>
    /\ current = None /\ economy = Closed
    /\ turns = [c \in Combatants |-> 0] /\ reacted = {} /\ raised = {}

Fresh ==
  status = "preparing" =>
    fighters # {} /\ \A c \in Combatants : body[c].state = "active"

Placed == status # "none" => order \in Bijection(Numbers, Combatants)

EnemiesStandOrFall == \A c \in Templates : body[c].state \in {"active", "defeated"}

\* Only a level raises a health above the maximum.
Unraised == \A a \in Actors \ raised : health[a] <= MaxHp

LaterWait ==
  current # None => \A c \in Combatants : Place(c) > Place(current) => turns[c] = 0

Inv ==
  /\ TypeOK
  /\ CombatCanGoOn /\ OneTurnARound
  /\ DyingIsConsistent /\ HealthIsMirrored
  /\ Quiet /\ Fresh /\ Placed /\ EnemiesStandOrFall /\ Unraised /\ LaterWait

\* What a command of the combat makes of the health, its outcome being b.
Cured(b) ==
  /\ health' \in [Actors -> 0..MaxHp + 1]
  /\ \A a \in Actors \ raised : health'[a] <= MaxHp
  /\ \A a \in Actors \cap fighters :
       IF a \in raised THEN health'[a] > b[a].hp ELSE health'[a] = b[a].hp

\* A step keeps the invariant and respects the fates.
Kept == Inv' /\ BlowsEndStability /\ OutStaysOut

LEMMA BodiesFit ==
  ASSUME Inv, status = "active"
  PROVE  AllFit(body) /\ body \in [Combatants -> Bodies]
<1>1. body \in [Combatants -> Bodies] /\ fighters \subseteq Combatants
  BY DEF Inv, TypeOK, Bodies
<1>2. ASSUME NEW c \in Templates \cup fighters PROVE Fits(c, body[c])
  <2>1. body[c] \in Bodies
    BY <1>1 DEF Combatants
  <2>2. c \in Templates => body[c].state \in {"active", "defeated"}
    BY DEF Inv, EnemiesStandOrFall
  <2>3. ASSUME c \in Actors PROVE Sound(body[c])
    <3>1. c \in Actors \cap fighters
      BY <2>3, CombatantsAssumption
    <3> QED BY <3>1 DEF Inv, DyingIsConsistent, Sound
  <2> QED BY <2>1, <2>2, <2>3 DEF Fits
<1> QED BY <1>1, <1>2 DEF AllFit

LEMMA CombatIsOn ==
  ASSUME Inv, status = "active", current # None
  PROVE  Playing /\ body[current].state \in Able
<1>1. AllFit(body)
  BY BodiesFit
<1>2. /\ fighters \subseteq Combatants /\ current \in fighters /\ reacted \subseteq fighters
      /\ team \in [Combatants -> Sides]
      /\ turns \in [Combatants -> Nat] /\ economy \in Economies /\ order \in Seq(Combatants)
  BY DEF Inv, TypeOK, Economies
<1>3. order \in Bijection(Numbers, Combatants)
  BY DEF Inv, Placed
<1>4. Rounds(turns, current)
  BY <1>2 DEF Inv, OneTurnARound, LaterWait, Rounds
<1>5. body[current].state \in Able /\ economy.who = current
  BY DEF Inv, CombatCanGoOn
<1> QED BY <1>1, <1>2, <1>3, <1>4, <1>5 DEF Playing, Ordered

\* A command that mirrors what it changes, and one that changes no hit points.
LEMMA MirroredCured ==
  ASSUME Inv, status = "active", NEW b, AllFit(b), Mirrors(b)
  PROVE  Cured(b)
<1>1. /\ health \in [Actors -> 0..MaxHp + 1] /\ b \in [Combatants -> Bodies]
      /\ body \in [Combatants -> Bodies]
      /\ \A a \in Actors \ raised : health[a] <= MaxHp
  BY BodiesFit DEF Inv, TypeOK, Unraised, AllFit
<1>2. health' = [a \in Actors |-> IF a \in Changed(b) THEN b[a].hp ELSE health[a]]
  BY DEF Mirrors
<1>3. ASSUME NEW a \in Actors
      PROVE  b[a].hp \in 0..MaxHp /\ health[a] \in 0..MaxHp + 1
  <2>1. b[a] \in Bodies
    BY <1>1 DEF Combatants
  <2> QED BY <1>1, <2>1 DEF Bodies
<1>4. \A a \in Actors : health'[a] = IF a \in Changed(b) THEN b[a].hp ELSE health[a]
  BY <1>2
<1>5. \A a \in Actors : health'[a] \in 0..MaxHp + 1
  BY <1>3, <1>4, HitPointsAssumption
<1>6. health' \in [Actors -> 0..MaxHp + 1]
  BY <1>2, <1>4, <1>5
<1>7. \A a \in Actors \ raised : health'[a] <= MaxHp
  BY <1>1, <1>3, <1>4
<1>8. \A a \in Actors \cap fighters :
        IF a \in raised THEN health'[a] > b[a].hp ELSE health'[a] = b[a].hp
  <2> TAKE a \in Actors \cap fighters
  <2>1. IF a \in raised THEN health[a] > body[a].hp ELSE health[a] = body[a].hp
    BY DEF Inv, HealthIsMirrored
  <2>2. /\ health[a] \in 0..MaxHp + 1 /\ b[a].hp \in 0..MaxHp
        /\ body[a].hp \in 0..MaxHp
    <3>1. body[a] \in Bodies
      BY <1>1 DEF Combatants
    <3> QED BY <1>3, <3>1 DEF Bodies
  <2>3. CASE a \in Changed(b)
    <3>1. health[a] = body[a].hp
      BY <2>3 DEF Mirrors
    <3> QED BY <1>4, <2>1, <2>2, <2>3, <3>1
  <2>4. CASE a \notin Changed(b)
    BY <1>4, <2>1, <2>4 DEF Changed
  <2> QED BY <2>3, <2>4
<1> QED BY <1>6, <1>7, <1>8 DEF Cured

LEMMA UnhurtCured ==
  ASSUME Inv, status = "active", NEW b, health' = health,
         \A a \in Actors \cap fighters : b[a].hp = body[a].hp
  PROVE  Cured(b)
BY DEF Inv, TypeOK, Unraised, HealthIsMirrored, Cured

\* A command of the combat with the outcome b keeps the invariant.
LEMMA Played ==
  ASSUME Inv, status = "active", Commands,
         NEW b, body' = b, AllFit(b), Goes(b), Cured(b)
  PROVE  Inv'
<1>1. /\ status' = "active" /\ fighters' = fighters /\ team' = team /\ order' = order
      /\ raised' = raised
  BY DEF Commands
<1>2. /\ body' \in [Combatants -> Bodies] /\ fighters \subseteq Combatants
      /\ \A c \in Templates \cup fighters : Fits(c, body'[c])
  BY DEF AllFit, Inv, TypeOK
<1>3. turns' \in [Combatants -> Nat] /\ current' \in fighters \cup {None}
  BY DEF Goes, Rounds, Inv, TypeOK
<1>4. TypeOK'
  BY <1>1, <1>2, <1>3 DEF Inv, TypeOK, Goes, Cured, Economies, Bodies
<1>5. CombatCanGoOn'
  <2>1. CASE current' = None
    <3>1. (Terminal(b) \/ FallenDuel(b)) /\ economy' = Closed
      BY <2>1, <1>2, CombatantsAssumption DEF Goes
    <3>2. (Terminal(b) => Terminal(body)') /\ (FallenDuel(b) => FallenDuel(body)')
      BY <1>1 DEF Terminal, FallenDuel, TeamsOf, In
    <3> QED BY <2>1, <3>1, <3>2 DEF CombatCanGoOn, Closed, Turn
  <2>2. CASE current' # None
    BY <2>2 DEF Goes, CombatCanGoOn
  <2> QED BY <2>1, <2>2
<1>6. OneTurnARound'
  BY DEF Goes, Rounds, Inv, OneTurnARound
<1>7. LaterWait'
  <2>1. CASE current' = None
    BY <2>1 DEF LaterWait
  <2>2. CASE current' # None
    <3>1. Rounds(turns', current')
      BY <2>2 DEF Goes
    <3> QED BY <1>1, <3>1 DEF LaterWait, Rounds, Place
  <2> QED BY <2>1, <2>2
<1>8. DyingIsConsistent'
  <2>1. \A a \in Actors \cap fighters : Sound(body'[a])
    BY <1>2 DEF Fits
  <2> QED BY <1>1, <2>1 DEF DyingIsConsistent, Sound
<1>9. HealthIsMirrored' /\ Unraised'
  BY <1>1 DEF Cured, HealthIsMirrored, Unraised
<1>10. EnemiesStandOrFall'
  BY <1>2 DEF EnemiesStandOrFall, Fits
<1>11. Quiet' /\ Fresh' /\ Placed'
  BY <1>1 DEF Quiet, Fresh, Placed, Inv
<1> QED BY <1>4, <1>5, <1>6, <1>7, <1>8, <1>9, <1>10, <1>11 DEF Inv

\* A command that turns the row of one living combatant into g.
LEMMA OneChanged ==
  ASSUME AllFit(body), NEW c \in fighters, c \in Combatants,
         NEW g, Follows(c, body[c], g), NEW b, b = [body EXCEPT ![c] = g]
  PROVE  /\ AllFit(b) /\ b[c] = g
         /\ \A d \in Combatants : d # c => b[d] = body[d]
<1>1. body \in [Combatants -> Bodies] /\ g \in Bodies /\ Fits(c, g)
  BY DEF AllFit, Follows, Fits
<1>2. \A d \in Combatants : b[d] = IF d = c THEN g ELSE body[d]
  BY <1>1
<1>3. b \in [Combatants -> Bodies]
  BY <1>1
<1>4. ASSUME NEW d \in Templates \cup fighters PROVE Fits(d, b[d])
  <2>1. Fits(d, body[d])
    BY DEF AllFit
  <2>2. b[d] = IF d = c THEN g ELSE body[d]
    BY <1>1
  <2> QED BY <1>1, <2>1, <2>2
<1> QED BY <1>2, <1>3, <1>4 DEF AllFit

LEMMA OneStruck ==
  ASSUME Inv, status = "active", Commands, NEW c \in fighters, body[c].state \in Living,
         NEW g, Follows(c, body[c], g), NEW b, b = [body EXCEPT ![c] = g], body' = b,
         Goes(b), Cured(b)
  PROVE  Kept
<1>1. AllFit(body) /\ body \in [Combatants -> Bodies] /\ fighters \subseteq Combatants
  BY BodiesFit DEF Inv, TypeOK
<1>2. AllFit(b) /\ b[c] = g /\ \A d \in Combatants : d # c => b[d] = body[d]
  BY <1>1, OneChanged
<1>3. Inv'
  BY <1>2, Played
<1>4. BlowsEndStability
  <2> SUFFICES ASSUME NEW a \in Actors, body[a].state = "stable",
                      b[a].failed > body[a].failed
               PROVE  b[a].state \in {"unconscious", "dead"}
    BY DEF BlowsEndStability
  <2>1. a \in Combatants /\ body[a].failed \in Int
    BY <1>1, ColumnsOf DEF Combatants
  <2>2. a = c
    BY <1>2, <2>1
  <2> QED BY <1>2, <2>2 DEF Follows
<1>5. OutStaysOut
  BY <1>1, <1>2 DEF OutStaysOut
<1> QED BY <1>3, <1>4, <1>5 DEF Kept

LEMMA NobodyStruck ==
  ASSUME Inv, status = "active", Commands, body' = body, health' = health, Goes(body)
  PROVE  Kept
<1>1. AllFit(body) /\ body \in [Combatants -> Bodies]
  BY BodiesFit
<1>2. Inv'
  BY <1>1, UnhurtCured, Played
<1>3. \A a \in Actors : body[a].failed \in Int
  BY <1>1, ColumnsOf DEF Combatants
<1> QED BY <1>2, <1>3 DEF Kept, BlowsEndStability, OutStaysOut

-----------------------------------------------------------------------------
(* Encounter: the commands of a combat.                                    *)

LEMMA ActorPlays ==
  ASSUME Inv, ActorTurn
  PROVE  /\ Playing /\ status = "active" /\ fighters \subseteq Combatants
         /\ current \in Actors /\ current \in fighters /\ current \in Combatants
         /\ body[current].state = "active"
         /\ AllFit(body) /\ Fits(current, body[current])
<1>1. current # None /\ status = "active" /\ current \in Actors /\ body[current].state = "active"
  BY CombatantsAssumption DEF ActorTurn, Combatants
<1>2. Playing
  BY <1>1, CombatIsOn
<1>3. fighters \subseteq Combatants /\ current \in fighters /\ AllFit(body)
  BY <1>2 DEF Playing
<1>4. Fits(current, body[current])
  BY <1>3 DEF AllFit
<1> QED BY <1>1, <1>2, <1>3, <1>4

\* The targets are living combatants.
LEMMA TargetFits ==
  ASSUME AllFit(body), fighters \subseteq Combatants, NEW S \in SUBSET Living,
         NEW c \in In(body, S)
  PROVE  c \in fighters /\ c \in Combatants /\ body[c].state \in Living /\ Fits(c, body[c])
BY DEF In, AllFit

LEMMA Spent ==
  ASSUME Playing, NEW e, e \in {Acted, [economy EXCEPT !.acted = TRUE], [economy EXCEPT !.quick = TRUE]}
                                \cup {[Acted EXCEPT !.disengaged = @ \/ x] : x \in BOOLEAN}
  PROVE  e \in Economies /\ e.who = current
<1>1. economy \in Economies /\ economy.who = current
  BY DEF Playing
<1>2. Acted \in Economies /\ Acted.who = current
  BY <1>1 DEF Acted, Economies
<1>3. ASSUME NEW x \in BOOLEAN
      PROVE  /\ [Acted EXCEPT !.disengaged = Acted.disengaged \/ x] \in Economies
             /\ [Acted EXCEPT !.disengaged = Acted.disengaged \/ x].who = current
  <2>1. (Acted.disengaged \/ x) \in BOOLEAN
    OBVIOUS
  <2> QED BY <1>2, <2>1 DEF Economies
<1>4. [economy EXCEPT !.quick = TRUE] \in Economies /\ [economy EXCEPT !.quick = TRUE].who = current
  BY <1>1 DEF Economies
<1> QED BY <1>2, <1>3, <1>4 DEF Acted

LEMMA AttackKeeps ==
  ASSUME Inv, Attack
  PROVE  Kept
<1>1. ActorTurn /\ Commands
  BY DEF Attack
<1>2. PICK c \in Foes \cap Reachable, d \in Damages, grave \in BOOLEAN :
        LET b == [body EXCEPT ![c] = Hurt(c, body[c], d, grave)]
        IN  Keep(b, Acted) /\ Mirrors(b)
  BY DEF Attack
<1>3. /\ Playing /\ status = "active" /\ fighters \subseteq Combatants
      /\ current \in Combatants /\ body[current].state = "active" /\ AllFit(body)
  BY <1>1, ActorPlays
<1>4. c \in fighters /\ c \in Combatants /\ body[c].state \in Living /\ Fits(c, body[c])
  <2>1. c \in In(body, Living)
    BY <1>2 DEF Reachable
  <2> QED BY <1>3, <2>1, TargetFits
<1>5. c # current
  BY <1>2 DEF Foes
<1> DEFINE g == Hurt(c, body[c], d, grave)
           b == [body EXCEPT ![c] = g]
<1>6. Follows(c, body[c], g)
  <2>1. d \in Nat
    BY HitPointsAssumption
  <2>2. /\ Fits(c, g)
        /\ c \in Actors /\ body[c].state = "stable" =>
             (g.state = "stable" /\ g.failed = body[c].failed) \/ g.state \in {"unconscious", "dead"}
    BY <1>4, <2>1, HurtFollows
  <2>3. g.failed \in Int
    BY <2>2, ColumnsOf DEF Fits
  <2> HIDE DEF g
  <2> QED BY <2>2, <2>3 DEF Follows
<1>7. Keep(b, Acted) /\ Mirrors(b) /\ body' = b
  BY <1>2 DEF Keep
<1> HIDE DEF g
<1>8. b = [body EXCEPT ![c] = g]
  OBVIOUS
<1> HIDE DEF b
<1>9. /\ AllFit(b) /\ b[c] = g
      /\ \A e \in Combatants : e # c => b[e] = body[e]
  <2>1. AllFit(body) /\ c \in fighters /\ c \in Combatants
    BY <1>3, <1>4
  <2>2. AllFit(b)
    BY <1>6, <1>8, <2>1, OneChanged
  <2>3. b[c] = g /\ \A e \in Combatants : e # c => b[e] = body[e]
    BY <1>8, <2>1 DEF AllFit
  <2> QED BY <2>2, <2>3
<1>10. b[current].state \in Able
  BY <1>3, <1>5, <1>9 DEF Able
<1>11. Goes(b)
  BY <1>3, <1>7, <1>9, <1>10, Spent, KeepsTurn
<1>12. Cured(b)
  BY <1>3, <1>7, <1>9, MirroredCured
<1> QED BY <1>1, <1>3, <1>4, <1>6, <1>7, <1>8, <1>11, <1>12, OneStruck

LEMMA ManeuverKeeps ==
  ASSUME Inv, Maneuver
  PROVE  Kept
<1>1. ActorTurn /\ Commands /\ health' = health
  BY DEF Maneuver
<1>2. PICK disengage \in BOOLEAN : Keep(body, [Acted EXCEPT !.disengaged = @ \/ disengage])
  BY DEF Maneuver
<1>3. Playing /\ status = "active" /\ body[current].state \in Able /\ AllFit(body)
  BY <1>1, ActorPlays DEF Able
<1> DEFINE e == [Acted EXCEPT !.disengaged = @ \/ disengage]
<1>4. e \in Economies /\ e.who = current
  BY <1>3, Spent
<1>5. Keep(body, e) /\ body' = body
  BY <1>2 DEF Keep
<1> HIDE DEF e
<1>6. Goes(body)
  BY <1>3, <1>4, <1>5, KeepsTurn
<1> QED BY <1>1, <1>3, <1>5, <1>6, NobodyStruck

LEMMA StabilizeKeeps ==
  ASSUME Inv, Stabilize
  PROVE  Kept
<1>1. ActorTurn /\ Commands /\ health' = health
  BY DEF Stabilize
<1> DEFINE g == [Down EXCEPT !.state = "stable"]
<1>2. PICK a \in Friends \cap Actors \cap In(body, {"unconscious"}) :
        \E b \in {body, [body EXCEPT ![a] = g]} : Advance(b)
  BY DEF Stabilize
<1>3. /\ Playing /\ status = "active" /\ fighters \subseteq Combatants /\ AllFit(body)
  BY <1>1, ActorPlays
<1>4. CASE Advance(body)
  <2>1. Goes(body) /\ body' = body
    BY <1>3, <1>4, Passes DEF Advance
  <2> QED BY <1>1, <1>3, <2>1, NobodyStruck
<1>5. CASE Advance([body EXCEPT ![a] = g])
  <2>1. /\ a \in Actors /\ a \in fighters /\ a \in Combatants
        /\ body[a].state = "unconscious" /\ body[a].state \in Living
    BY <1>2 DEF In, Living, Combatants
  <2>2. Fits(a, body[a])
    BY <1>3, <2>1 DEF AllFit
  <2>3. Follows(a, body[a], g) /\ g.hp = body[a].hp
    BY <2>1, <2>2, StabilizedFollows
  <2> HIDE DEF g
  <2> DEFINE b == [body EXCEPT ![a] = g]
  <2>4. b = [body EXCEPT ![a] = g] /\ Advance(b)
    BY <1>5
  <2> HIDE DEF b
  <2>5. /\ AllFit(b) /\ b[a] = g
        /\ \A d \in Combatants : d # a => b[d] = body[d]
    <3>1. AllFit(body) /\ a \in fighters /\ a \in Combatants
      BY <1>3, <2>1
    <3>2. AllFit(b)
      BY <2>3, <2>4, <3>1, OneChanged
    <3>3. b[a] = g /\ \A d \in Combatants : d # a => b[d] = body[d]
      BY <2>4, <3>1 DEF AllFit
    <3> QED BY <3>2, <3>3
  <2>6. Goes(b) /\ body' = b
    BY <1>3, <2>4, <2>5, Passes DEF Advance
  <2>7. \A d \in Actors \cap fighters : b[d].hp = body[d].hp
    BY <2>3, <2>5 DEF Combatants
  <2>8. Cured(b)
    BY <1>1, <1>3, <2>7, UnhurtCured
  <2> QED BY <1>1, <1>3, <2>1, <2>3, <2>4, <2>6, <2>8, OneStruck
<1> QED BY <1>2, <1>4, <1>5

LEMMA FleeKeeps ==
  ASSUME Inv, Flee
  PROVE  Kept
<1>1. ActorTurn /\ Commands /\ health' = health
  BY DEF Flee
<1> DEFINE g == [body[current] EXCEPT !.state = "fled"]
           b == [body EXCEPT ![current].state = "fled"]
<1>2. Advance(b)
  BY DEF Flee
<1>3. /\ Playing /\ status = "active" /\ fighters \subseteq Combatants
      /\ current \in Actors /\ current \in fighters /\ current \in Combatants
      /\ body[current].state = "active" /\ body[current].state \in Living
      /\ AllFit(body) /\ Fits(current, body[current])
  BY <1>1, ActorPlays DEF Living
<1>4. Follows(current, body[current], g) /\ g.hp = body[current].hp
  BY <1>3, FledFollows
<1>5. b = [body EXCEPT ![current] = g]
  OBVIOUS
<1> HIDE DEF g, b
<1>6. /\ AllFit(b) /\ b[current] = g
      /\ \A d \in Combatants : d # current => b[d] = body[d]
  <2>1. AllFit(body) /\ current \in fighters /\ current \in Combatants
    BY <1>3
  <2>2. AllFit(b)
    BY <1>4, <1>5, <2>1, OneChanged
  <2>3. b[current] = g /\ \A d \in Combatants : d # current => b[d] = body[d]
    BY <1>5, <2>1 DEF AllFit
  <2> QED BY <2>2, <2>3
<1>7. Goes(b) /\ body' = b
  BY <1>2, <1>3, <1>6, Passes DEF Advance
<1>8. \A d \in Actors \cap fighters : b[d].hp = body[d].hp
  BY <1>4, <1>6 DEF Combatants
<1>9. Cured(b)
  BY <1>1, <1>3, <1>8, UnhurtCured
<1> QED BY <1>1, <1>3, <1>4, <1>5, <1>7, <1>9, OneStruck

LEMMA EndTurnKeeps ==
  ASSUME Inv, EndTurn
  PROVE  Kept
<1>1. ActorTurn /\ Commands /\ health' = health /\ Advance(body)
  BY DEF EndTurn
<1>2. Playing /\ status = "active" /\ AllFit(body)
  BY <1>1, ActorPlays
<1>3. Goes(body) /\ body' = body
  BY <1>1, <1>2, Passes DEF Advance
<1> QED BY <1>1, <1>2, <1>3, NobodyStruck

LEMMA SaveTurnKeeps ==
  ASSUME Inv, SaveTurn
  PROVE  Kept
<1>1. /\ Commands /\ status = "active" /\ current \in Actors
      /\ body[current].state = "unconscious"
  BY DEF SaveTurn
<1>2. PICK roll \in {"one", "failure", "success", "twenty"} :
        LET b == [body EXCEPT ![current] = DeathSave(body[current], roll)]
        IN  Advance(b) /\ Mirrors(b)
  BY DEF SaveTurn
<1>3. Playing
  BY <1>1, CombatantsAssumption, CombatIsOn DEF Combatants
<1>4. /\ fighters \subseteq Combatants /\ current \in fighters /\ current \in Combatants
      /\ AllFit(body) /\ Fits(current, body[current]) /\ body[current].state \in Living
  BY <1>1, <1>3 DEF Playing, AllFit, Living
<1> DEFINE g == DeathSave(body[current], roll)
           b == [body EXCEPT ![current] = g]
<1>5. Follows(current, body[current], g)
  BY <1>1, <1>4, DeathSaveFollows
<1>6. Advance(b) /\ Mirrors(b) /\ b = [body EXCEPT ![current] = g]
  BY <1>2
<1> HIDE DEF g, b
<1>7. AllFit(b)
  BY <1>4, <1>5, <1>6, OneChanged
<1>8. Goes(b) /\ body' = b
  BY <1>3, <1>6, <1>7, Passes DEF Advance
<1>9. Cured(b)
  BY <1>1, <1>6, <1>7, MirroredCured
<1> QED BY <1>1, <1>4, <1>5, <1>6, <1>8, <1>9, OneStruck

LEMMA EnemyTurnKeeps ==
  ASSUME Inv, EnemyTurn
  PROVE  Kept
<1>1. Commands /\ status = "active" /\ current \in Templates
  BY DEF EnemyTurn
<1>2. Playing
  BY <1>1, CombatantsAssumption, CombatIsOn DEF Combatants
<1>3. fighters \subseteq Combatants /\ AllFit(body)
  BY <1>2 DEF Playing
<1>4. CASE Advance(body) /\ UNCHANGED health
  <2>1. Goes(body) /\ body' = body
    BY <1>2, <1>3, <1>4, Passes DEF Advance
  <2> QED BY <1>1, <1>4, <2>1, NobodyStruck
<1>5. CASE \E c \in Foes \cap Actors \cap Reachable : \E f \in HurtAll(c, body[c]) :
             LET b == [body EXCEPT ![c] = f] IN Advance(b) /\ Mirrors(b)
  <2>a. PICK c \in Foes \cap Actors \cap Reachable : \E f \in HurtAll(c, body[c]) :
          Advance([body EXCEPT ![c] = f]) /\ Mirrors([body EXCEPT ![c] = f])
    BY <1>5
  <2>1. PICK g \in HurtAll(c, body[c]) :
          Advance([body EXCEPT ![c] = g]) /\ Mirrors([body EXCEPT ![c] = g])
    BY <2>a
  <2>2. c \in In(body, Living) /\ c \in Actors
    BY <2>a DEF Reachable
  <2>3. c \in fighters /\ c \in Combatants /\ body[c].state \in Living /\ Fits(c, body[c])
    BY <1>3, <2>2, TargetFits
  <2>4. Follows(c, body[c], g)
    BY <2>1, <2>2, <2>3, HurtAllFollows
  <2> DEFINE b == [body EXCEPT ![c] = g]
  <2>5. Advance(b) /\ Mirrors(b) /\ b = [body EXCEPT ![c] = g]
    BY <2>1
  <2> HIDE DEF b
  <2>6. AllFit(b)
    BY <1>3, <2>3, <2>4, <2>5, OneChanged
  <2>7. Goes(b) /\ body' = b
    BY <1>2, <2>5, <2>6, Passes DEF Advance
  <2>8. Cured(b)
    BY <1>1, <2>5, <2>6, MirroredCured
  <2> QED BY <1>1, <2>3, <2>4, <2>5, <2>7, <2>8, OneStruck
<1> QED BY <1>4, <1>5 DEF EnemyTurn

\* A power may strike or heal its own user, who stays able.
LEMMA PowerKeeps ==
  ASSUME Inv, Power
  PROVE  Kept
<1>1. ActorTurn /\ Commands
  BY DEF Power
<1>a. PICK cost \in {"acted", "quick"}, c \in Reachable :
        \E f \in {HurtByPower(c, body[c], d) : d \in Damages}
                 \cup (IF c \in Friends \cap Actors
                       THEN {Healed(body[c], h) : h \in Heals} ELSE {}) :
          LET b == [body EXCEPT ![c] = f]
          IN  Keep(b, [economy EXCEPT ![cost] = TRUE]) /\ Mirrors(b)
  BY DEF Power
<1>2. PICK g \in {HurtByPower(c, body[c], d) : d \in Damages}
                 \cup (IF c \in Friends \cap Actors
                       THEN {Healed(body[c], h) : h \in Heals} ELSE {}) :
        /\ Keep([body EXCEPT ![c] = g], [economy EXCEPT ![cost] = TRUE])
        /\ Mirrors([body EXCEPT ![c] = g])
  BY <1>a
<1>3. /\ Playing /\ status = "active" /\ fighters \subseteq Combatants /\ current \in Actors
      /\ current \in Combatants /\ body[current].state = "active" /\ AllFit(body)
  BY <1>1, ActorPlays
<1>4. c \in fighters /\ c \in Combatants /\ body[c].state \in Living /\ Fits(c, body[c])
  <2>1. c \in In(body, Living)
    BY <1>a DEF Reachable
  <2> QED BY <1>3, <2>1, TargetFits
<1>5. /\ Follows(c, body[c], g)
      /\ c \in Actors /\ body[c].state = "active" => g.state \in Able
  <2>1. CASE g \in {HurtByPower(c, body[c], d) : d \in Damages}
    <3>1. PICK d \in Damages : g = HurtByPower(c, body[c], d)
      BY <2>1
    <3>2. d \in Nat
      BY HitPointsAssumption
    <3> QED BY <1>4, <3>1, <3>2, HurtByPowerFollows
  <2>2. CASE g \notin {HurtByPower(c, body[c], d) : d \in Damages}
    <3>1. PICK h \in Heals : g = Healed(body[c], h)
      BY <1>2, <2>2
    <3>2. h \in Nat
      BY HitPointsAssumption
    <3> QED BY <1>4, <3>1, <3>2, HealedFollows DEF Able
  <2> QED BY <2>1, <2>2
<1> DEFINE b == [body EXCEPT ![c] = g]
           e == [economy EXCEPT ![cost] = TRUE]
<1>6. e \in Economies /\ e.who = current
  <2>1. CASE cost = "acted"
    <3>1. e = [economy EXCEPT !.acted = TRUE]
      BY <2>1
    <3> QED BY <1>3, <3>1, Spent
  <2>2. CASE cost = "quick"
    <3>1. e = [economy EXCEPT !.quick = TRUE]
      BY <2>2
    <3> QED BY <1>3, <3>1, Spent
  <2> QED BY <2>1, <2>2
<1>7. Keep(b, e) /\ Mirrors(b) /\ body' = b /\ b = [body EXCEPT ![c] = g]
  BY <1>2 DEF Keep
<1> HIDE DEF b, e
<1>8. AllFit(b)
  BY <1>3, <1>4, <1>5, <1>7, OneChanged
<1>9. b[current].state \in Able
  <2>1. b[c] = g /\ \A d \in Combatants : d # c => b[d] = body[d]
    BY <1>3, <1>4, <1>7 DEF AllFit
  <2> QED BY <1>3, <1>5, <2>1 DEF Able
<1>10. Goes(b)
  BY <1>3, <1>6, <1>7, <1>8, <1>9, KeepsTurn
<1>11. Cured(b)
  BY <1>3, <1>7, <1>8, MirroredCured
<1> QED BY <1>1, <1>3, <1>4, <1>5, <1>7, <1>10, <1>11, OneStruck

\* A consumable ends the combat by a rule of its own, which looks at the active
\* only: whoever of the other side lives is then a fallen actor.
LEMMA ConsumableKeeps ==
  ASSUME Inv, Consumable
  PROVE  Kept
<1>1. ActorTurn /\ Commands /\ turns' = turns /\ reacted' = reacted
  BY DEF Consumable
<1>a. PICK c \in In(body, {"active"}) :
        \E f \in IF c \in Foes THEN {Thrown(body[c], d) : d \in Damages}
                               ELSE {Healed(body[c], h) : h \in Heals} :
          LET b == [body EXCEPT ![c] = f]
              over == Cardinality(TeamsOf(In(b, {"active"}))) < 2
          IN  /\ body' = b /\ Mirrors(b)
              /\ current' = IF over THEN None ELSE current
              /\ economy' = IF over THEN Closed ELSE Acted
  BY DEF Consumable
<1>2. PICK g \in IF c \in Foes THEN {Thrown(body[c], d) : d \in Damages}
                               ELSE {Healed(body[c], h) : h \in Heals} :
        LET b == [body EXCEPT ![c] = g]
            over == Cardinality(TeamsOf(In(b, {"active"}))) < 2
        IN  /\ body' = b /\ Mirrors(b)
            /\ current' = IF over THEN None ELSE current
            /\ economy' = IF over THEN Closed ELSE Acted
  BY <1>a
<1>3. /\ Playing /\ status = "active" /\ fighters \subseteq Combatants /\ current \in Actors
      /\ current \in fighters /\ current \in Combatants /\ body[current].state = "active"
      /\ AllFit(body)
  BY <1>1, ActorPlays
<1>4. /\ c \in fighters /\ c \in Combatants /\ body[c].state = "active"
      /\ body[c].state \in Living /\ Fits(c, body[c])
  BY <1>3 DEF In, Living, AllFit
<1>5. Follows(c, body[c], g) /\ (c \notin Foes => g.state = "active")
  <2>1. CASE c \in Foes
    <3>1. PICK d \in Damages : g = Thrown(body[c], d)
      BY <1>2, <2>1
    <3>2. d \in Nat
      BY HitPointsAssumption
    <3> QED BY <1>4, <2>1, <3>1, <3>2, ThrownFollows
  <2>2. CASE c \notin Foes
    <3>1. PICK h \in Heals : g = Healed(body[c], h)
      BY <1>2, <2>2
    <3>2. h \in Nat
      BY HitPointsAssumption
    <3> QED BY <1>4, <3>1, <3>2, HealedFollows
  <2> QED BY <2>1, <2>2
<1> DEFINE b == [body EXCEPT ![c] = g]
           over == Cardinality(TeamsOf(In(b, {"active"}))) < 2
<1>6. /\ body' = b /\ Mirrors(b) /\ b = [body EXCEPT ![c] = g]
      /\ current' = IF over THEN None ELSE current
      /\ economy' = IF over THEN Closed ELSE Acted
  BY <1>2
<1> HIDE DEF b
<1>7. AllFit(b)
  BY <1>3, <1>4, <1>5, <1>6, OneChanged
<1>8. b[current].state = "active"
  <2>1. b[c] = g /\ \A d \in Combatants : d # c => b[d] = body[d]
    BY <1>3, <1>4, <1>6 DEF AllFit
  <2>2. c = current => c \notin Foes
    BY DEF Foes
  <2> QED BY <1>3, <1>5, <2>1, <2>2
<1>9. ASSUME over PROVE Terminal(b) \/ FallenDuel(b)
  <2>1. /\ In(b, {"active"}) \subseteq Combatants /\ In(b, Living) \subseteq Combatants
        /\ team \in [Combatants -> Sides]
    BY <1>3 DEF In, Playing
  <2>2. \A x, y \in In(b, {"active"}) : team[x] = team[y]
    BY <1>9, <2>1, OneTeam
  <2>3. current \in In(b, {"active"}) /\ current \in In(b, Living)
    BY <1>3, <1>8 DEF In, Living
  <2>4. SUFFICES ASSUME ~Terminal(b) PROVE FallenDuel(b)
    OBVIOUS
  <2>5. PICK x \in In(b, Living) : team[x] # team[current]
    <3>1. PICK y \in In(b, Living), z \in In(b, Living) : team[y] # team[z]
      BY <2>1, <2>4, OneTeam DEF Terminal
    <3> QED BY <2>3, <3>1
  <2>6. x \in Actors
    <3>1. x \in fighters /\ b[x].state \in Living /\ b[x].state # "active"
      BY <2>2, <2>3, <2>5 DEF In
    <3>2. x \in Templates => b[x].state \in {"active", "defeated"}
      BY <1>7, <3>1 DEF AllFit, Fits
    <3> QED BY <2>1, <3>1, <3>2 DEF Combatants, Living
  <2> QED BY <1>3, <1>9, <2>3, <2>5, <2>6 DEF FallenDuel
<1> HIDE DEF over
<1>10. Goes(b)
  <2>1. reacted' \subseteq fighters /\ Rounds(turns, current)
    BY <1>1, <1>3 DEF Playing
  <2>2. CASE over
    <3>1. current' = None /\ economy' = Closed /\ (Terminal(b) \/ FallenDuel(b))
      BY <1>6, <1>9, <2>2
    <3>2. economy' \in Economies
      BY <3>1, TurnIsEconomy DEF Closed
    <3> QED BY <1>1, <2>1, <3>1, <3>2 DEF Goes
  <2>3. CASE ~over
    <3>1. current' = current /\ economy' = Acted /\ turns' = turns
      BY <1>1, <1>6, <2>3
    <3>2. economy' \in Economies /\ economy'.who = current
      BY <1>3, <3>1, Spent
    <3>3. Rounds(turns', current')
      BY <2>1, <3>1
    <3>4. b[current'].state \in Able /\ current' \in fighters
      BY <1>3, <1>8, <3>1 DEF Able
    <3> QED BY <2>1, <3>1, <3>2, <3>3, <3>4 DEF Goes
  <2> QED BY <2>2, <2>3
<1>11. Cured(b)
  BY <1>3, <1>6, <1>7, MirroredCured
<1> QED BY <1>1, <1>3, <1>4, <1>5, <1>6, <1>10, <1>11, OneStruck

\* Opportunity attacks leave the health behind only of who has gained a level.
LEMMA LeaveKeeps ==
  ASSUME Inv, Leave
  PROVE  Kept
<1>1. ActorTurn /\ Commands /\ current' = current /\ economy' = economy /\ turns' = turns
  BY DEF Leave
<1>a. PICK R \in (SUBSET ((Foes \cap In(body, {"active"})) \ reacted)) \ {{}} :
        \E d \in [R -> Damages] :
          LET f == Grazed(body[current], SumFunction(d))
          IN  /\ body' = [body EXCEPT ![current] = f]
              /\ health' = IF InSync(current) THEN [health EXCEPT ![current] = f.hp] ELSE health
              /\ reacted' = reacted \cup R
  BY DEF Leave
<1>2. PICK d \in [R -> Damages] :
          LET f == Grazed(body[current], SumFunction(d))
          IN  /\ body' = [body EXCEPT ![current] = f]
              /\ health' = IF InSync(current) THEN [health EXCEPT ![current] = f.hp] ELSE health
              /\ reacted' = reacted \cup R
  BY <1>a
<1>3. /\ Playing /\ status = "active" /\ fighters \subseteq Combatants /\ current \in Actors
      /\ current \in fighters /\ current \in Combatants /\ body[current].state = "active"
      /\ body[current].state \in Living /\ AllFit(body) /\ Fits(current, body[current])
  BY <1>1, ActorPlays DEF Living
<1>4. SumFunction(d) \in Nat
  <2>1. R \subseteq fighters
    BY DEF Foes
  <2>2. IsFiniteSet(R)
    BY <1>3, <2>1, CombatantsAssumption, FS_Subset
  <2>3. d \in [R -> Nat]
    BY HitPointsAssumption
  <2> QED BY <2>2, <2>3, SumIsNatural
<1> DEFINE g == Grazed(body[current], SumFunction(d))
           b == [body EXCEPT ![current] = g]
<1>5. Follows(current, body[current], g) /\ g.state \in Able
  BY <1>3, <1>4, GrazedFollows
<1>6. /\ body' = b /\ b = [body EXCEPT ![current] = g]
      /\ health' = IF InSync(current) THEN [health EXCEPT ![current] = g.hp] ELSE health
      /\ reacted' = reacted \cup R
  BY <1>2
<1> HIDE DEF g, b
<1>7. AllFit(b)
  BY <1>3, <1>5, <1>6, OneChanged
<1>8. b[current] = g /\ \A e \in Combatants : e # current => b[e] = body[e]
  BY <1>3, <1>6 DEF AllFit
<1>9. Goes(b)
  <2>1. reacted' \subseteq fighters
    BY <1>3, <1>6 DEF Playing, Foes
  <2>2. economy' \in Economies /\ economy'.who = current /\ Rounds(turns', current')
    BY <1>1, <1>3 DEF Playing
  <2>3. current' \in fighters /\ b[current'].state \in Able
    BY <1>1, <1>3, <1>5, <1>8
  <2> QED BY <1>1, <2>1, <2>2, <2>3 DEF Goes
<1>10. Cured(b)
  <2>1. /\ health \in [Actors -> 0..MaxHp + 1]
        /\ \A a \in Actors \ raised : health[a] <= MaxHp
        /\ \A a \in Actors \cap fighters :
             IF a \in raised THEN health[a] > body[a].hp ELSE health[a] = body[a].hp
    BY <1>3 DEF Inv, TypeOK, Unraised, HealthIsMirrored
  <2>2. g.hp \in 0..MaxHp
    BY <1>5, ColumnsOf DEF Follows, Fits
  <2>3. CASE InSync(current)
    <3>1. health' = [health EXCEPT ![current] = g.hp]
      BY <1>6, <2>3
    <3>2. g.hp \in 0..MaxHp + 1 /\ g.hp <= MaxHp
      BY <2>2, HitPointsAssumption
    <3>3. \A a \in Actors : health'[a] = IF a = current THEN g.hp ELSE health[a]
      BY <2>1, <3>1
    <3>4. health' \in [Actors -> 0..MaxHp + 1]
      BY <2>1, <3>1, <3>2
    <3>5. current \notin raised
      <4>1. health[current] = body[current].hp /\ health[current] \in 0..MaxHp + 1
        BY <1>3, <2>1, <2>3 DEF InSync
      <4> QED BY <1>3, <2>1, <4>1
    <3> QED BY <1>8, <2>1, <3>2, <3>3, <3>4, <3>5 DEF Cured, Combatants
  <2>4. CASE ~InSync(current)
    <3>1. health' = health
      BY <1>6, <2>4
    <3>2. current \in raised
      BY <1>3, <2>1, <2>4 DEF InSync
    <3>3. g.hp <= body[current].hp /\ body[current].hp \in 0..MaxHp
      <4>1. body[current].hp \in 0..MaxHp
        BY <1>3, ColumnsOf DEF Fits
      <4>2. g = Grazed(body[current], SumFunction(d))
        BY DEF g
      <4>3. body[current] \in Bodies
        BY <1>3 DEF Fits
      <4> QED BY <1>4, <4>1, <4>2, <4>3, GrazedLess
    <3>4. ASSUME NEW a \in Actors \cap fighters
          PROVE  IF a \in raised THEN health'[a] > b[a].hp ELSE health'[a] = b[a].hp
      <4>1. CASE a = current
        <5>1. health[current] > body[current].hp /\ health[current] \in 0..MaxHp + 1
          BY <1>3, <2>1, <3>2
        <5>2. b[a].hp = g.hp
          BY <1>8, <4>1
        <5> QED BY <2>2, <3>1, <3>2, <3>3, <4>1, <5>1, <5>2
      <4>2. CASE a # current
        BY <1>8, <2>1, <3>1, <4>2 DEF Combatants
      <4> QED BY <4>1, <4>2
    <3> QED BY <2>1, <3>1, <3>4 DEF Cured
  <2> QED BY <2>3, <2>4
<1> QED BY <1>1, <1>3, <1>5, <1>6, <1>9, <1>10, OneStruck

-----------------------------------------------------------------------------
(* Encounter: the lifecycle, and health outside the encounter.             *)

LEMMA OrderIsSequence ==
  ASSUME NEW o \in Bijection(Numbers, Combatants)
  PROVE  o \in Seq(Combatants) /\ Len(o) = Cardinality(Combatants)
<1>1. Cardinality(Combatants) \in Nat
  BY CombatantsAssumption, FS_CardinalityType
<1>2. o \in [1..Cardinality(Combatants) -> Combatants]
  BY DEF Bijection, Injection, Numbers
<1> QED BY <1>1, <1>2

LEMMA CreateKeeps ==
  ASSUME Inv, Create
  PROVE  Kept
<1>1. /\ status = "none" /\ status' = "preparing"
      /\ fighters' \subseteq Combatants /\ fighters' # {} /\ team' \in [Combatants -> Sides]
      /\ order' \in Bijection(Numbers, Combatants)
      /\ body' = [c \in Combatants |-> IF c \in Actors THEN Whole(health[c]) ELSE Whole(MaxHp)]
      /\ current' = current /\ economy' = economy /\ turns' = turns /\ reacted' = reacted
      /\ health' = health /\ raised' = raised
  BY AssignmentsAssumption DEF Create, Numbers
<1>2. /\ current = None /\ economy = Closed
      /\ turns = [c \in Combatants |-> 0] /\ reacted = {} /\ raised = {}
  BY <1>1 DEF Inv, Quiet
<1>3. \A a \in Actors : health[a] \in 0..MaxHp
  BY <1>2, HitPointsAssumption DEF Inv, TypeOK, Unraised
<1>4. \A c \in Combatants : \E h \in 0..MaxHp : body'[c] = Whole(h)
  BY <1>1, <1>3, HitPointsAssumption
<1>5. \A c \in Combatants : /\ body'[c] \in Bodies /\ body'[c].state = "active"
                            /\ body'[c].saved = 0 /\ body'[c].failed = 0
  BY <1>4, FreshBodies
<1>6. body' \in [Combatants -> Bodies]
  BY <1>1, <1>5
<1>7. order' \in Seq(Combatants) /\ Len(order') = Cardinality(Combatants)
  BY <1>1, OrderIsSequence
<1>8. economy' \in [who : fighters' \cup {None}, acted : BOOLEAN, quick : BOOLEAN,
                    disengaged : BOOLEAN]
  BY <1>1, <1>2 DEF Closed, Turn
<1>9. TypeOK'
  BY <1>1, <1>2, <1>6, <1>7, <1>8 DEF Inv, TypeOK, Bodies
<1>10. Quiet' /\ Fresh' /\ Placed' /\ EnemiesStandOrFall' /\ Unraised' /\ LaterWait'
  BY <1>1, <1>2, <1>5
     DEF Inv, Quiet, Fresh, Placed, EnemiesStandOrFall, Unraised, LaterWait, Combatants
<1>11. CombatCanGoOn' /\ OneTurnARound' /\ HealthIsMirrored'
  BY <1>1 DEF Inv, CombatCanGoOn, OneTurnARound, HealthIsMirrored
<1>12. DyingIsConsistent'
  <2>1. \A a \in Actors : a \in Combatants
    BY DEF Combatants
  <2> QED BY <1>1, <1>5, <2>1 DEF DyingIsConsistent
<1>13. BlowsEndStability
  <2>1. \A a \in Actors : body[a].failed \in 0..3 /\ body'[a].failed = 0
    <3>1. \A a \in Actors : a \in Combatants /\ body[a] \in Bodies
      BY DEF Inv, TypeOK, Bodies, Combatants
    <3> QED BY <1>5, <3>1, ColumnsOf
  <2> QED BY <2>1 DEF BlowsEndStability
<1>14. OutStaysOut
  BY <1>1 DEF OutStaysOut
<1> QED BY <1>9, <1>10, <1>11, <1>12, <1>13, <1>14 DEF Kept, Inv

\* A step that leaves the bodies alone.
LEMMA SameBodies ==
  ASSUME Inv, Inv', body' = body
  PROVE  Kept
<1>1. \A a \in Actors : body[a].failed \in 0..3
  <2>1. \A a \in Actors : body[a] \in Bodies
    BY DEF Inv, TypeOK, Bodies, Combatants
  <2> QED BY <2>1, ColumnsOf
<1> QED BY <1>1 DEF Kept, BlowsEndStability, OutStaysOut

LEMMA StartKeeps ==
  ASSUME Inv, Start
  PROVE  Kept
<1>1. /\ status = "preparing" /\ Fit /\ status' = "active"
      /\ fighters' = fighters /\ team' = team /\ order' = order /\ body' = body
      /\ reacted' = reacted /\ health' = health /\ raised' = raised
  BY DEF Start
<1>2. PICK c \in In(body, {"active"}) :
        current' = c /\ economy' = Turn(c) /\ turns' = [turns EXCEPT ![c] = 1]
  BY DEF Start
<1>3. /\ turns = [d \in Combatants |-> 0] /\ raised = {}
      /\ fighters \subseteq Combatants /\ order \in Bijection(Numbers, Combatants)
      /\ order \in Seq(Combatants)
  BY <1>1 DEF Inv, Quiet, TypeOK, Placed
<1>4. c \in fighters /\ c \in Combatants /\ body[c].state = "active"
  BY <1>3 DEF In
<1>5. Ordered
  BY <1>3 DEF Ordered
<1>6. turns' \in [Combatants -> Nat]
      /\ \A d \in Combatants : turns'[d] = IF d = c THEN 1 ELSE 0
  BY <1>2, <1>3, <1>4
<1>7. OneTurnARound'
  BY <1>6 DEF OneTurnARound
<1>8. LaterWait'
  <2>1. \A d \in Combatants : Place(d)' = Place(d) /\ Place(d) \in Nat
    BY <1>1, <1>5, Places DEF Place, Numbers
  <2>2. \A d \in Combatants : Place(d) > Place(c) => turns'[d] = 0
    BY <1>4, <1>6, <2>1
  <2> QED BY <1>1, <1>2, <2>2 DEF LaterWait, Place
<1>9. TypeOK'
  <2>1. economy' \in [who : fighters \cup {None}, acted : BOOLEAN, quick : BOOLEAN,
                      disengaged : BOOLEAN]
    BY <1>2, <1>4 DEF Turn
  <2> QED BY <1>1, <1>2, <1>4, <1>6, <2>1 DEF Inv, TypeOK
<1>10. CombatCanGoOn'
  BY <1>1, <1>2, <1>4, CombatantsAssumption DEF CombatCanGoOn, Turn, Able
<1>11. \A a \in Actors \cap fighters : /\ a \in Combatants /\ body[a].state = "active"
                                       /\ health[a] > 0 /\ health[a] = body[a].hp
  BY <1>1, <1>3 DEF Fit, Inv, Fresh
<1>12. DyingIsConsistent'
  BY <1>1, <1>11 DEF DyingIsConsistent, Inv
<1>13. HealthIsMirrored'
  BY <1>1, <1>3, <1>11 DEF HealthIsMirrored
<1>14. Quiet' /\ Fresh' /\ Placed' /\ EnemiesStandOrFall' /\ Unraised'
  BY <1>1, <1>3 DEF Inv, Quiet, Fresh, Placed, EnemiesStandOrFall, Unraised
<1>15. Inv'
  BY <1>7, <1>8, <1>9, <1>10, <1>12, <1>13, <1>14 DEF Inv
<1> QED BY <1>1, <1>15, SameBodies

LEMMA CancelEndKeep ==
  ASSUME Inv, Cancel \/ EndCombat
  PROVE  Kept
<1>1. /\ fighters' = fighters /\ team' = team /\ order' = order /\ body' = body
      /\ current' = current
      /\ turns' = turns /\ reacted' = reacted /\ health' = health /\ raised' = raised
      /\ \/ status = "preparing" /\ status' = "cancelled" /\ economy' = economy
         \/ /\ status = "active" /\ status' = "completed" /\ economy' = Closed
            /\ current = None
  BY DEF Cancel, EndCombat
<1>2. Closed \in [who : fighters \cup {None}, acted : BOOLEAN, quick : BOOLEAN,
                  disengaged : BOOLEAN]
  BY DEF Closed, Turn
<1>3. TypeOK'
  BY <1>1, <1>2 DEF Inv, TypeOK
<1>4. DyingIsConsistent'
  BY <1>1 DEF Inv, DyingIsConsistent
<1>5. CombatCanGoOn' /\ OneTurnARound' /\ HealthIsMirrored'
  BY <1>1 DEF Inv, CombatCanGoOn, OneTurnARound, HealthIsMirrored
<1>6. Quiet' /\ Fresh' /\ Placed' /\ EnemiesStandOrFall' /\ Unraised'
  BY <1>1 DEF Inv, Quiet, Fresh, Placed, EnemiesStandOrFall, Unraised
<1>7. LaterWait'
  BY <1>1 DEF Inv, LaterWait, Place
<1>8. Inv'
  BY <1>3, <1>4, <1>5, <1>6, <1>7 DEF Inv
<1> QED BY <1>1, <1>8, SameBodies

\* Rests and resource commands, refused to whoever is in an active encounter,
\* and levels, which are not.
LEMMA HealthElsewhereKeeps ==
  ASSUME Inv, Elsewhere \/ LevelUp
  PROVE  Kept
<1>1. /\ status' = status /\ fighters' = fighters /\ team' = team /\ order' = order
      /\ body' = body
      /\ current' = current /\ economy' = economy /\ turns' = turns /\ reacted' = reacted
  BY DEF Elsewhere, LevelUp
<1>2. /\ health \in [Actors -> 0..MaxHp + 1] /\ raised \subseteq fighters
      /\ \A a \in Actors \ raised : health[a] <= MaxHp
  BY DEF Inv, TypeOK, Unraised
<1>3. /\ health' \in [Actors -> 0..MaxHp + 1] /\ raised' \subseteq fighters
      /\ \A a \in Actors \ raised' : health'[a] <= MaxHp
      /\ HealthIsMirrored'
      /\ status # "active" => raised' = raised
  <2>1. CASE Elsewhere
    <3>1. PICK a \in Actors, hp \in 0..MaxHp :
            Free(a) /\ health' = [health EXCEPT ![a] = hp] /\ raised' = raised
      BY <2>1 DEF Elsewhere
    <3>2. hp \in 0..MaxHp + 1 /\ hp <= MaxHp
      BY HitPointsAssumption
    <3>3. health' \in [Actors -> 0..MaxHp + 1]
      BY <1>2, <3>1, <3>2
    <3>4. \A e \in Actors : health'[e] = IF e = a THEN hp ELSE health[e]
      BY <1>2, <3>1
    <3>5. HealthIsMirrored'
      BY <1>1, <3>1, <3>4 DEF Inv, HealthIsMirrored, Free
    <3> QED BY <1>2, <3>1, <3>2, <3>3, <3>4, <3>5
  <2>2. CASE LevelUp
    <3>1. PICK a \in (Actors \cap fighters) \ raised :
            health' = [health EXCEPT ![a] = @ + 1] /\ raised' = raised \cup {a}
      BY <2>2 DEF LevelUp
    <3>2. health[a] \in 0..MaxHp + 1 /\ health[a] <= MaxHp
      BY <1>2
    <3>3. health[a] + 1 \in 0..MaxHp + 1
      BY <3>2, HitPointsAssumption
    <3>4. health' \in [Actors -> 0..MaxHp + 1]
      BY <1>2, <3>1, <3>3
    <3>5. \A e \in Actors : e # a => health'[e] = health[e]
      BY <1>2, <3>1
    <3>6. HealthIsMirrored'
      <4>1. health'[a] = health[a] + 1
        BY <1>2, <3>1
      <4>2. status = "active" => health[a] = body[a].hp
        BY <3>1 DEF Inv, HealthIsMirrored
      <4>3. \A e \in Actors \cap fighters : e # a => (e \in raised' <=> e \in raised)
        BY <3>1
      <4>4. status = "active" => health'[a] > body'[a].hp
        BY <1>1, <3>2, <4>1, <4>2, HitPointsAssumption
      <4> QED BY <1>1, <3>1, <3>5, <4>3, <4>4 DEF Inv, HealthIsMirrored
    <3>7. status = "active"
      BY <2>2 DEF LevelUp
    <3> QED BY <1>2, <3>1, <3>4, <3>5, <3>6, <3>7
  <2> QED BY <2>1, <2>2
<1>4. TypeOK'
  BY <1>1, <1>3 DEF Inv, TypeOK
<1>5. DyingIsConsistent' /\ OneTurnARound' /\ Fresh' /\ Placed' /\ EnemiesStandOrFall'
  BY <1>1 DEF Inv, DyingIsConsistent, OneTurnARound, Fresh, Placed, EnemiesStandOrFall
<1>6. CombatCanGoOn'
  <2>1. (Terminal(body) => Terminal(body)') /\ (FallenDuel(body) => FallenDuel(body)')
    BY <1>1 DEF Terminal, FallenDuel, TeamsOf, In
  <2> QED BY <1>1, <2>1 DEF Inv, CombatCanGoOn, Closed, Turn
<1>7. LaterWait'
  BY <1>1 DEF Inv, LaterWait, Place
<1>8. Quiet'
  BY <1>1, <1>3 DEF Inv, Quiet, Closed, Turn
<1>9. Unraised'
  BY <1>3 DEF Unraised
<1>10. Inv'
  BY <1>3, <1>4, <1>5, <1>6, <1>7, <1>8, <1>9 DEF Inv
<1> QED BY <1>1, <1>10, SameBodies

-----------------------------------------------------------------------------
(* Encounter: the theorems.                                                *)

LEMMA Initially == Init => Inv
<1> SUFFICES ASSUME Init PROVE Inv
  OBVIOUS
<1>1. /\ status = "none" /\ fighters = {} /\ order = <<>> /\ current = None
      /\ team \in [Combatants -> Sides]
      /\ body = [c \in Combatants |-> Whole(MaxHp)] /\ economy = Closed
      /\ turns = [c \in Combatants |-> 0] /\ reacted = {}
      /\ health \in [Actors -> 1..MaxHp] /\ raised = {}
  BY DEF Init, Sides
<1>2. Whole(MaxHp) \in Bodies /\ Whole(MaxHp).state = "active"
  BY FreshBodies, HitPointsAssumption
<1>3. body \in [Combatants -> Bodies]
  BY <1>1, <1>2
<1>4. Closed \in [who : fighters \cup {None}, acted : BOOLEAN, quick : BOOLEAN,
                  disengaged : BOOLEAN]
  BY DEF Closed, Turn
<1>5. order \in Seq(Combatants) /\ Len(order) = 0
  BY <1>1
<1>6. health \in [Actors -> 0..MaxHp + 1] /\ \A a \in Actors : health[a] <= MaxHp
  BY <1>1, HitPointsAssumption
<1>7. TypeOK
  BY <1>1, <1>3, <1>4, <1>5, <1>6 DEF TypeOK, Bodies
<1>8. CombatCanGoOn /\ OneTurnARound /\ DyingIsConsistent /\ HealthIsMirrored
  BY <1>1 DEF CombatCanGoOn, OneTurnARound, DyingIsConsistent, HealthIsMirrored
<1>9. Quiet /\ Fresh /\ Placed /\ EnemiesStandOrFall /\ Unraised /\ LaterWait
  BY <1>1, <1>2, <1>6
     DEF Quiet, Fresh, Placed, EnemiesStandOrFall, Unraised, LaterWait, Combatants
<1> QED BY <1>7, <1>8, <1>9 DEF Inv

LEMMA Inductive == Inv /\ [Next]_vars => Kept
<1> SUFFICES ASSUME Inv, [Next]_vars PROVE Kept
  OBVIOUS
<1>1. CASE Create
  BY <1>1, CreateKeeps
<1>2. CASE Start
  BY <1>2, StartKeeps
<1>3. CASE Cancel \/ EndCombat
  BY <1>3, CancelEndKeep
<1>4. CASE Attack
  BY <1>4, AttackKeeps
<1>5. CASE Maneuver
  BY <1>5, ManeuverKeeps
<1>6. CASE Stabilize
  BY <1>6, StabilizeKeeps
<1>7. CASE Flee
  BY <1>7, FleeKeeps
<1>8. CASE EndTurn
  BY <1>8, EndTurnKeeps
<1>9. CASE SaveTurn
  BY <1>9, SaveTurnKeeps
<1>10. CASE EnemyTurn
  BY <1>10, EnemyTurnKeeps
<1>11. CASE Power
  BY <1>11, PowerKeeps
<1>12. CASE Consumable
  BY <1>12, ConsumableKeeps
<1>13. CASE Leave
  BY <1>13, LeaveKeeps
<1>14. CASE Elsewhere \/ LevelUp
  BY <1>14, HealthElsewhereKeeps
<1>15. CASE UNCHANGED vars
  <2>1. Inv'
    <3>1. /\ status' = status /\ fighters' = fighters /\ team' = team /\ order' = order
          /\ body' = body
          /\ current' = current /\ economy' = economy /\ turns' = turns /\ reacted' = reacted
          /\ health' = health /\ raised' = raised
      BY <1>15 DEF vars
    <3>2. TypeOK' /\ DyingIsConsistent' /\ OneTurnARound' /\ HealthIsMirrored'
      BY <3>1 DEF Inv, TypeOK, DyingIsConsistent, OneTurnARound, HealthIsMirrored
    <3>3. Fresh' /\ Placed' /\ EnemiesStandOrFall' /\ Unraised'
      BY <3>1 DEF Inv, Fresh, Placed, EnemiesStandOrFall, Unraised
    <3>4. Quiet' /\ LaterWait'
      BY <3>1 DEF Inv, Quiet, LaterWait, Place, Closed, Turn
    <3>5. CombatCanGoOn'
      <4>1. (Terminal(body) => Terminal(body)') /\ (FallenDuel(body) => FallenDuel(body)')
        BY <3>1 DEF Terminal, FallenDuel, TeamsOf, In
      <4> QED BY <3>1, <4>1 DEF Inv, CombatCanGoOn, Closed, Turn
    <3> QED BY <3>2, <3>3, <3>4, <3>5 DEF Inv
  <2> QED BY <1>15, <2>1, SameBodies DEF vars
<1> QED BY <1>1, <1>2, <1>3, <1>4, <1>5, <1>6, <1>7, <1>8, <1>9, <1>10, <1>11, <1>12,
           <1>13, <1>14, <1>15 DEF Next

LEMMA InvHolds == Spec => []Inv
<1>1. Inv /\ [Next]_vars => Inv'
  BY Inductive DEF Kept
<1> QED BY Initially, <1>1, PTL DEF Spec

\* The command families agree on one combat, whatever sides its combatants are
\* on: nobody has two turns in a round, an actor's death saves mean what its
\* status says, its hit points are its health unless it gained a level, and the
\* combat can go on or be completed unless it is a duel with one side fallen.
THEOREM CombatSound == Spec => []CombatIsConsistent
<1>1. Inv => CombatIsConsistent
  BY DEF Inv, CombatIsConsistent
<1> QED BY InvHolds, <1>1, PTL

\* In every combat, of any sides: no command leaves an actor stable that it
\* struck, or touches one who is out.
THEOREM FatesRespected == Spec => FatesAreRespected
<1>1. Inv /\ [Next]_vars => [BlowsEndStability /\ OutStaysOut]_vars
  BY Inductive DEF Kept
<1> QED BY InvHolds, <1>1, PTL DEF Spec, FatesAreRespected

=============================================================================
