-------------------------- MODULE Accounts_proofs --------------------------
(***************************************************************************)
(* Proofs about the two components that keep accounts, which share a       *)
(* theory of sums over finite sets.                                        *)
(*                                                                         *)
(* KVBudget: for any finite set of requests, any bodies and cards and any  *)
(* number of edits, the room of every semaphore is accounted for, whoever  *)
(* waits waits for somebody, and the engine is not promised more than its  *)
(* pool while the card stands.                                             *)
(*                                                                         *)
(* ProgressFeed: for any files, names, sizes and sources and any number of *)
(* passes, restarts and bars that start over, every byte is counted once,  *)
(* a row or a card that reads done owes nothing, and nothing steps back.   *)
(***************************************************************************)
EXTENDS KVBudget, ProgressFeed, FiniteSetTheorems, SequenceTheorems,
        WellFoundedInduction, TLAPS

-----------------------------------------------------------------------------
(***************************************************************************)
(* Sums over finite sets.                                                  *)
(***************************************************************************)

(* What SumFunctionOnSet adds first.                                        *)
Pick(s) == CHOOSE x \in s : TRUE

(* One turn of the recursion: g answers for s from what it answers for     *)
(* less.                                                                   *)
Unfolds(f, g, s) ==
    g[s] = IF s = {} THEN 0 ELSE f[Pick(s)] + g[s \ {Pick(s)}]

(* g is the function whose value at S is the sum of f over S.              *)
IsTotal(f, S, g) ==
    g = [s \in SUBSET S |-> IF s = {} THEN 0 ELSE f[Pick(s)] + g[s \ {Pick(s)}]]

(* SumFunctionOnSet is the value at S of a function chosen as IsTotal.     *)
LEMMA TotalUnfolds == ASSUME NEW f, NEW S
    PROVE SumFunctionOnSet(f, S) = (CHOOSE g : IsTotal(f, S, g))[S]
BY DEF SumFunctionOnSet, FoldFunctionOnSet, MapThenFoldSet, IsTotal, Pick

(* What is added first is an element.                                      *)
LEMMA PickIs == ASSUME NEW s, s # {} PROVE Pick(s) \in s
BY DEF Pick

(* A set of numbers has a least one.  Stated of sets and not of predicates *)
(* so that the provers can use it: the inductions below look at a smallest *)
(* counterexample.                                                         *)
LEMMA SmallestNat ==
    ASSUME NEW T \in SUBSET Nat, T # {}
    PROVE  \E n \in T : \A m \in T : n <= m
<1> DEFINE R == OpToRel(<, Nat)
<1>1. R = {ss \in Nat \X Nat : ss[1] < ss[2]}
  BY DEF OpToRel
<1>2. IsWellFoundedOn(R, Nat)
  BY NatLessThanWellFounded
<1> HIDE DEF R
<1>3. \E n \in T : \A m \in T : ~(<<m, n>> \in R)
  BY <1>2, WFMin
<1>4. PICK n \in T : \A m \in T : ~(<<m, n>> \in R)
  BY <1>3
<1>5. ASSUME NEW m \in T PROVE n <= m
  <2>1. m \in Nat /\ n \in Nat /\ <<m, n>> \in Nat \X Nat
    OBVIOUS
  <2>2. <<m, n>> \in R <=> m < n
    BY <1>1, <2>1
  <2>3. ~(m < n)
    BY <1>4, <2>2
  <2> QED BY <2>1, <2>3
<1> QED BY <1>5

(* A family of subsets of a finite set has a smallest one.                 *)
LEMMA SmallestSet ==
    ASSUME NEW S, IsFiniteSet(S), NEW T, T \subseteq SUBSET S, T # {}
    PROVE  \E u \in T : \A v \in T : ~(v \subseteq u /\ v # u)
<1>1. IsWellFoundedOn(StrictSubsetOrdering(S), SUBSET S)
  BY FS_StrictSubsetOrderingWellFounded, FS_FiniteSubsetsOfFinite
<1>2. \E u \in T : \A v \in T : ~(<<v, u>> \in StrictSubsetOrdering(S))
  BY <1>1, WFMin
<1> QED BY <1>2 DEF StrictSubsetOrdering

(* The recursion defines a function: on the sets of at most n elements for *)
(* every n.                                                                *)
LEMMA TotalExists ==
    ASSUME NEW f, NEW S, IsFiniteSet(S)
    PROVE  \E g : IsTotal(f, S, g)
<1> DEFINE Upto(n) == \E g : /\ g = [s \in SUBSET S |-> g[s]]
                             /\ \A s \in SUBSET S : Cardinality(s) <= n => Unfolds(f, g, s)
           Bad == {n \in Nat : ~Upto(n)}
<1>0. \A s \in SUBSET S : /\ IsFiniteSet(s) /\ Cardinality(s) \in Nat
                          /\ Cardinality(s) = 0 <=> s = {}
                          /\ s # {} => Pick(s) \in s /\ Cardinality(s \ {Pick(s)}) = Cardinality(s) - 1
  <2>1. ASSUME NEW s \in SUBSET S
        PROVE /\ IsFiniteSet(s) /\ Cardinality(s) \in Nat
              /\ Cardinality(s) = 0 <=> s = {}
              /\ s # {} => Pick(s) \in s /\ Cardinality(s \ {Pick(s)}) = Cardinality(s) - 1
    <3>1. IsFiniteSet(s)
      BY FS_Subset
    <3> QED BY <3>1, FS_CardinalityType, FS_EmptySet, FS_RemoveElement, PickIs
  <2> QED BY <2>1
<1>1. Upto(0)
  <2> DEFINE g == [s \in SUBSET S |-> 0]
  <2>1. g = [s \in SUBSET S |-> g[s]]
    OBVIOUS
  <2>2. \A s \in SUBSET S : Cardinality(s) <= 0 => Unfolds(f, g, s)
    <3>1. ASSUME NEW s \in SUBSET S, Cardinality(s) <= 0 PROVE s = {}
      <4>1. Cardinality(s) \in Nat /\ (Cardinality(s) = 0 <=> s = {})
        BY <1>0
      <4> QED BY <3>1, <4>1
    <3> QED BY <3>1 DEF Unfolds
  <2> HIDE DEF g
  <2> QED BY <2>1, <2>2
<1>2. ASSUME NEW n \in Nat, Upto(n) PROVE Upto(n + 1)
  <2>1. PICK g : /\ g = [s \in SUBSET S |-> g[s]]
                 /\ \A s \in SUBSET S : Cardinality(s) <= n => Unfolds(f, g, s)
    BY <1>2
  <2> DEFINE h == [s \in SUBSET S |-> IF s = {} THEN 0 ELSE f[Pick(s)] + g[s \ {Pick(s)}]]
  <2>2. \A s \in SUBSET S : Cardinality(s) <= n => h[s] = g[s]
    BY <2>1 DEF Unfolds
  <2>3. h = [s \in SUBSET S |-> h[s]]
    OBVIOUS
  <2>4. ASSUME NEW s \in SUBSET S, Cardinality(s) <= n + 1 PROVE Unfolds(f, h, s)
    <3>1. CASE s = {}
      BY <3>1 DEF Unfolds
    <3>2. CASE s # {}
      <4>1. s \ {Pick(s)} \in SUBSET S /\ Cardinality(s \ {Pick(s)}) <= n
        BY <1>0, <2>4, <3>2
      <4>2. h[s \ {Pick(s)}] = g[s \ {Pick(s)}]
        BY <2>2, <4>1
      <4>3. h[s] = f[Pick(s)] + g[s \ {Pick(s)}]
        BY <3>2
      <4> QED BY <3>2, <4>2, <4>3 DEF Unfolds
    <3> QED BY <3>1, <3>2
  <2> HIDE DEF h
  <2> QED BY <2>3, <2>4
<1>3. Bad = {}
  <2> SUFFICES ASSUME Bad # {} PROVE FALSE
    OBVIOUS
  <2>1. PICK n \in Bad : \A m \in Bad : n <= m
    BY SmallestNat
  <2> HIDE DEF Upto
  <2>2. n # 0 /\ n \in Nat /\ ~Upto(n)
    BY <1>1
  <2>3. n - 1 \in Nat /\ Upto(n - 1)
    BY <2>1, <2>2
  <2>4. Upto((n - 1) + 1)
    BY <1>2, <2>3
  <2> QED BY <2>2, <2>4
<1>4. Upto(Cardinality(S))
  BY <1>0, <1>3
<1>5. PICK g : /\ g = [s \in SUBSET S |-> g[s]]
               /\ \A s \in SUBSET S : Cardinality(s) <= Cardinality(S) => Unfolds(f, g, s)
  BY <1>4
<1>6. \A s \in SUBSET S : Unfolds(f, g, s)
  BY <1>5, FS_Subset
<1>7. IsTotal(f, S, g)
  BY <1>5, <1>6 DEF IsTotal, Unfolds
<1> QED BY <1>7

(* What the recursion over S says of a subset is what its own says.        *)
LEMMA TotalIsOfSubsets ==
    ASSUME NEW f, NEW S, IsFiniteSet(S), NEW T \in SUBSET S, NEW g, NEW h,
           IsTotal(f, S, g), IsTotal(f, T, h)
    PROVE  g[T] = h[T]
<1> DEFINE Bad == {u \in SUBSET T : g[u] # h[u]}
<1>1. \A u \in SUBSET T : Unfolds(f, g, u) /\ Unfolds(f, h, u)
  BY DEF IsTotal, Unfolds
<1>2. Bad = {}
  <2> SUFFICES ASSUME Bad # {} PROVE FALSE
    OBVIOUS
  <2>1. IsFiniteSet(T) /\ Bad \subseteq SUBSET T
    BY FS_Subset
  <2> HIDE DEF Bad
  <2>2. PICK u \in Bad : \A v \in Bad : ~(v \subseteq u /\ v # u)
    BY <2>1, SmallestSet
  <2>3. u \in SUBSET T /\ g[u] # h[u]
    BY DEF Bad
  <2>4. u # {}
    BY <1>1, <2>3 DEF Unfolds
  <2>5. Pick(u) \in u
    BY <2>4, PickIs
  <2>6. u \ {Pick(u)} \in SUBSET T /\ u \ {Pick(u)} \notin Bad
    BY <2>2, <2>3, <2>5
  <2>7. g[u \ {Pick(u)}] = h[u \ {Pick(u)}]
    BY <2>6 DEF Bad
  <2> QED BY <1>1, <2>3, <2>4, <2>7 DEF Unfolds
<1> QED BY <1>2

(* The sum over a finite set, one turn unfolded.                           *)
LEMMA TotalStep ==
    ASSUME NEW f, NEW S, IsFiniteSet(S)
    PROVE  SumFunctionOnSet(f, S) =
               IF S = {} THEN 0
               ELSE f[Pick(S)] + SumFunctionOnSet(f, S \ {Pick(S)})
<1> DEFINE g == CHOOSE g : IsTotal(f, S, g)
           T == S \ {Pick(S)}
           h == CHOOSE h : IsTotal(f, T, h)
<1>1. IsFiniteSet(T)
  BY FS_RemoveElement
<1>2. IsTotal(f, S, g)
  BY TotalExists
<1>3. IsTotal(f, T, h)
  BY <1>1, TotalExists
<1>4. SumFunctionOnSet(f, S) = g[S] /\ SumFunctionOnSet(f, T) = h[T]
  BY TotalUnfolds
<1> HIDE DEF g, h, T
<1>5. T \in SUBSET S
  BY DEF T
<1>6. g[T] = h[T]
  BY <1>2, <1>3, <1>5, TotalIsOfSubsets
<1>7. Unfolds(f, g, S)
  BY <1>2 DEF IsTotal, Unfolds
<1> QED BY <1>4, <1>6, <1>7 DEF Unfolds, T

(* A sum of numbers is a number.                                           *)
LEMMA TotalType ==
    ASSUME NEW S, IsFiniteSet(S), NEW f, \A x \in S : f[x] \in Nat
    PROVE  SumFunctionOnSet(f, S) \in Nat
<1> DEFINE Bad == {u \in SUBSET S : SumFunctionOnSet(f, u) \notin Nat}
<1>1. Bad = {}
  <2> SUFFICES ASSUME Bad # {} PROVE FALSE
    OBVIOUS
  <2>1. Bad \subseteq SUBSET S
    OBVIOUS
  <2> HIDE DEF Bad
  <2>2. PICK u \in Bad : \A v \in Bad : ~(v \subseteq u /\ v # u)
    BY <2>1, SmallestSet
  <2>3. u \in SUBSET S /\ SumFunctionOnSet(f, u) \notin Nat /\ IsFiniteSet(u)
    BY FS_Subset DEF Bad
  <2>4. SumFunctionOnSet(f, u) = IF u = {} THEN 0
            ELSE f[Pick(u)] + SumFunctionOnSet(f, u \ {Pick(u)})
    BY <2>3, TotalStep
  <2>5. u # {}
    BY <2>3, <2>4
  <2>6. Pick(u) \in u
    BY <2>5, PickIs
  <2>7. u \ {Pick(u)} \in SUBSET S /\ u \ {Pick(u)} \notin Bad
    BY <2>2, <2>3, <2>6
  <2>8. SumFunctionOnSet(f, u \ {Pick(u)}) \in Nat /\ f[Pick(u)] \in Nat
    BY <2>3, <2>6, <2>7 DEF Bad
  <2> QED BY <2>3, <2>4, <2>5, <2>8
<1> QED BY <1>1

(* Any element may be added first.                                         *)
LEMMA TotalRemove ==
    ASSUME NEW S, IsFiniteSet(S), NEW f, \A x \in S : f[x] \in Nat, NEW a \in S
    PROVE  SumFunctionOnSet(f, S) = f[a] + SumFunctionOnSet(f, S \ {a})
<1> DEFINE Good(u) == \A x \in u :
               SumFunctionOnSet(f, u) = f[x] + SumFunctionOnSet(f, u \ {x})
           Bad == {u \in SUBSET S : ~Good(u)}
<1>1. Bad = {}
  <2> SUFFICES ASSUME Bad # {} PROVE FALSE
    OBVIOUS
  <2>1. Bad \subseteq SUBSET S
    OBVIOUS
  <2> HIDE DEF Bad
  <2>2. PICK u \in Bad : \A v \in Bad : ~(v \subseteq u /\ v # u)
    BY <2>1, SmallestSet
  <2>3. u \in SUBSET S /\ ~Good(u) /\ IsFiniteSet(u)
    BY FS_Subset DEF Bad
  <2>4. PICK x \in u : SumFunctionOnSet(f, u) # f[x] + SumFunctionOnSet(f, u \ {x})
    BY <2>3
  <2> HIDE DEF Good
  <2> DEFINE y == Pick(u)
  <2>5. y \in u
    BY PickIs
  <2>6. SumFunctionOnSet(f, u) = f[y] + SumFunctionOnSet(f, u \ {y})
    BY <2>3, <2>5, TotalStep
  <2> HIDE DEF y
  <2>7. x # y
    BY <2>4, <2>6
  <2>8. Good(u \ {y}) /\ Good(u \ {x})
    BY <2>2, <2>3, <2>5 DEF Bad
  <2>9. x \in u \ {y} /\ y \in u \ {x} /\ (u \ {y}) \ {x} = (u \ {x}) \ {y}
    BY <2>5, <2>7
  <2>10. /\ SumFunctionOnSet(f, u \ {y}) = f[x] + SumFunctionOnSet(f, (u \ {y}) \ {x})
         /\ SumFunctionOnSet(f, u \ {x}) = f[y] + SumFunctionOnSet(f, (u \ {y}) \ {x})
    BY <2>8, <2>9 DEF Good
  <2>11. f[x] \in Nat /\ f[y] \in Nat /\ SumFunctionOnSet(f, (u \ {y}) \ {x}) \in Nat
    <3>1. IsFiniteSet((u \ {y}) \ {x})
      BY <2>3, FS_RemoveElement
    <3> QED BY <2>3, <2>5, <3>1, TotalType
  <2> QED BY <2>4, <2>6, <2>10, <2>11
<1> QED BY <1>1

(* One element more.                                                       *)
LEMMA TotalAdd ==
    ASSUME NEW S, IsFiniteSet(S), NEW f, \A x \in S : f[x] \in Nat,
           NEW a, a \notin S, f[a] \in Nat
    PROVE  SumFunctionOnSet(f, S \cup {a}) = SumFunctionOnSet(f, S) + f[a]
<1>1. IsFiniteSet(S \cup {a}) /\ a \in S \cup {a} /\ (S \cup {a}) \ {a} = S
  BY FS_AddElement
<1>2. SumFunctionOnSet(f, S \cup {a}) = f[a] + SumFunctionOnSet(f, S)
  BY <1>1, TotalRemove
<1> QED BY <1>2, TotalType

(* Nothing adds up to nothing.                                             *)
LEMMA TotalEmpty == \A f : SumFunctionOnSet(f, {}) = 0
BY TotalStep, FS_EmptySet

(* A sum of what is nowhere more is no more.                               *)
LEMMA TotalCompare ==
    ASSUME NEW S, IsFiniteSet(S), NEW f, NEW h,
           \A x \in S : f[x] \in Nat /\ h[x] \in Nat /\ f[x] <= h[x]
    PROVE  SumFunctionOnSet(f, S) <= SumFunctionOnSet(h, S)
<1> DEFINE Bad == {u \in SUBSET S : ~(SumFunctionOnSet(f, u) <= SumFunctionOnSet(h, u))}
<1>1. Bad = {}
  <2> SUFFICES ASSUME Bad # {} PROVE FALSE
    OBVIOUS
  <2>1. Bad \subseteq SUBSET S
    OBVIOUS
  <2> HIDE DEF Bad
  <2>2. PICK u \in Bad : \A v \in Bad : ~(v \subseteq u /\ v # u)
    BY <2>1, SmallestSet
  <2>3. u \in SUBSET S /\ ~(SumFunctionOnSet(f, u) <= SumFunctionOnSet(h, u)) /\ IsFiniteSet(u)
    BY FS_Subset DEF Bad
  <2>4. u # {}
    BY <2>3, TotalEmpty
  <2> DEFINE y == Pick(u)
  <2>5. y \in u
    BY <2>4, PickIs
  <2>6. /\ SumFunctionOnSet(f, u) = f[y] + SumFunctionOnSet(f, u \ {y})
        /\ SumFunctionOnSet(h, u) = h[y] + SumFunctionOnSet(h, u \ {y})
    BY <2>3, <2>4, TotalStep
  <2> HIDE DEF y
  <2>7. SumFunctionOnSet(f, u \ {y}) <= SumFunctionOnSet(h, u \ {y})
    BY <2>2, <2>3, <2>5 DEF Bad
  <2>8. /\ SumFunctionOnSet(f, u \ {y}) \in Nat /\ SumFunctionOnSet(h, u \ {y}) \in Nat
        /\ f[y] \in Nat /\ h[y] \in Nat /\ f[y] <= h[y]
    <3>1. IsFiniteSet(u \ {y})
      BY <2>3, FS_RemoveElement
    <3> QED BY <2>3, <2>5, <3>1, TotalType
  <2> QED BY <2>3, <2>6, <2>7, <2>8
<1> QED BY <1>1

(* A sum depends on the values at its indices only.                        *)
LEMMA TotalSame ==
    ASSUME NEW S, IsFiniteSet(S), NEW f, NEW h,
           \A x \in S : f[x] \in Nat /\ f[x] = h[x]
    PROVE  SumFunctionOnSet(f, S) = SumFunctionOnSet(h, S)
<1>1. \A x \in S : f[x] <= h[x] /\ h[x] <= f[x] /\ h[x] \in Nat
  OBVIOUS
<1>2. /\ SumFunctionOnSet(f, S) <= SumFunctionOnSet(h, S)
      /\ SumFunctionOnSet(h, S) <= SumFunctionOnSet(f, S)
  BY <1>1, TotalCompare
<1>3. SumFunctionOnSet(f, S) \in Nat /\ SumFunctionOnSet(h, S) \in Nat
  BY <1>1, TotalType
<1> QED BY <1>2, <1>3

(* The sums over two disjoint sets add up.                                 *)
LEMMA TotalUnion ==
    ASSUME NEW S, IsFiniteSet(S), NEW T, IsFiniteSet(T), S \cap T = {}, NEW f,
           \A x \in S \cup T : f[x] \in Nat
    PROVE  SumFunctionOnSet(f, S \cup T) = SumFunctionOnSet(f, S) + SumFunctionOnSet(f, T)
<1> DEFINE Bad == {u \in SUBSET T : SumFunctionOnSet(f, S \cup u) #
                                    SumFunctionOnSet(f, S) + SumFunctionOnSet(f, u)}
<1>1. Bad = {}
  <2> SUFFICES ASSUME Bad # {} PROVE FALSE
    OBVIOUS
  <2>1. Bad \subseteq SUBSET T
    OBVIOUS
  <2> HIDE DEF Bad
  <2>2. PICK u \in Bad : \A v \in Bad : ~(v \subseteq u /\ v # u)
    BY <2>1, SmallestSet
  <2>3. /\ u \in SUBSET T /\ IsFiniteSet(u)
        /\ SumFunctionOnSet(f, S \cup u) # SumFunctionOnSet(f, S) + SumFunctionOnSet(f, u)
    BY FS_Subset DEF Bad
  <2>0. SumFunctionOnSet(f, S) \in Nat
    BY TotalType
  <2>4. u # {}
    <3>1. u = {} => S \cup u = S
      OBVIOUS
    <3> QED BY <2>0, <2>3, <3>1, TotalEmpty
  <2>5. PICK y \in u : TRUE
    BY <2>4
  <2>6. (S \cup u) \ {y} = S \cup (u \ {y}) /\ IsFiniteSet(S \cup u) /\ IsFiniteSet(u \ {y})
    <3>1. y \in T /\ y \notin S
      BY <2>3
    <3>2. (S \cup u) \ {y} = S \cup (u \ {y})
      BY ONLY <3>1, <2>5
    <3>3. IsFiniteSet(S \cup u)
      BY <2>3, FS_Union
    <3>4. IsFiniteSet(u \ {y})
      BY <2>3, FS_RemoveElement
    <3> QED BY <3>2, <3>3, <3>4
  <2>7. SumFunctionOnSet(f, S \cup u) = f[y] + SumFunctionOnSet(f, S \cup (u \ {y}))
    BY <2>3, <2>6, TotalRemove
  <2>8. SumFunctionOnSet(f, u) = f[y] + SumFunctionOnSet(f, u \ {y})
    BY <2>3, TotalRemove
  <2>9. SumFunctionOnSet(f, S \cup (u \ {y})) =
            SumFunctionOnSet(f, S) + SumFunctionOnSet(f, u \ {y})
    BY <2>2, <2>3 DEF Bad
  <2>10. f[y] \in Nat /\ SumFunctionOnSet(f, u \ {y}) \in Nat
    BY <2>3, <2>6, TotalType
  <2> QED BY <2>0, <2>3, <2>7, <2>8, <2>9, <2>10
<1> QED BY <1>1

(* Noughts add up to nought.                                               *)
LEMMA TotalOfNothing ==
    ASSUME NEW S, IsFiniteSet(S) PROVE SumFunctionOnSet([x \in S |-> 0], S) = 0
<1> DEFINE z == [x \in S |-> 0]
           Bad == {u \in SUBSET S : SumFunctionOnSet(z, u) # 0}
<1>0. \A x \in S : z[x] = 0
  OBVIOUS
<1> HIDE DEF z
<1>1. Bad = {}
  <2> SUFFICES ASSUME Bad # {} PROVE FALSE
    OBVIOUS
  <2>1. Bad \subseteq SUBSET S
    OBVIOUS
  <2> HIDE DEF Bad
  <2>2. PICK u \in Bad : \A v \in Bad : ~(v \subseteq u /\ v # u)
    BY <2>1, SmallestSet
  <2>3. u \in SUBSET S /\ SumFunctionOnSet(z, u) # 0 /\ IsFiniteSet(u)
    BY FS_Subset DEF Bad
  <2>4. u # {}
    BY <2>3, TotalEmpty
  <2>5. PICK x : x \in u
    BY <2>4
  <2>6. u \ {x} \in SUBSET S /\ u \ {x} \notin Bad
    BY <2>2, <2>3, <2>5
  <2>7. SumFunctionOnSet(z, u \ {x}) = 0 /\ z[x] = 0 /\ \A y \in u : z[y] \in Nat
    BY <1>0, <2>3, <2>5, <2>6 DEF Bad
  <2>8. SumFunctionOnSet(z, u) = z[x] + SumFunctionOnSet(z, u \ {x})
    BY <2>3, <2>5, <2>7, TotalRemove
  <2> QED BY <2>3, <2>7, <2>8
<1>2. SumFunctionOnSet(z, S) = 0
  BY <1>1
<1> QED BY <1>2 DEF z

-----------------------------------------------------------------------------
(***************************************************************************)
(* The gate.  The inductive invariant.                                     *)
(***************************************************************************)

(* A request that will ask a semaphore for room was given one as large as  *)
(* the capacity it is held to, its charge is not nothing, and it only      *)
(* waits for what that semaphore could give.                               *)
AskersTell ==
    \A r \in Requests :
        /\ pc[r] \in {"size", "acquire", "queued"} =>
               on[r] \in DOMAIN sems /\ cap[r] = sems[on[r]].size
        /\ pc[r] \in {"acquire", "queued"} => cost[r] > 0
        /\ pc[r] = "queued" => cost[r] <= cap[r]

(* Room is held on a semaphore there is, by a request past the gate.       *)
HoldersTell ==
    \A r \in Requests :
        held[r] > 0 => pc[r] \in {"atEngine", "cut"} /\ on[r] \in DOMAIN sems

(* A line holds those who wait on its semaphore, each of them once.        *)
Waiting(s) == {r \in Requests : pc[r] = "queued" /\ on[r] = s}

Once(queue) ==
    \A i \in 1..Len(queue) : \A j \in 1..Len(queue) : queue[i] = queue[j] => i = j

LinesTell ==
    \A s \in DOMAIN sems :
        ToSet(sems[s].queue) = Waiting(s) /\ Once(sems[s].queue)

(* While the card is as it was at boot, there is one semaphore, of its     *)
(* size, and nobody is charged less than measuring the request says.       *)
SteadyTells ==
    edits = 0 =>
        /\ engine = card
        /\ Len(sems) <= 1 /\ \A s \in DOMAIN sems : sems[s].size = card.pool
        /\ \A r \in Requests :
               /\ pc[r] = "lock" => cap[r] = card.pool
               /\ pc[r] \in {"acquire", "queued"} => Measured(body[r]) <= cost[r]
               /\ held[r] > 0 => Measured(body[r]) <= held[r]

GateInv ==
    /\ TypeOK /\ AskersTell /\ HoldersTell /\ LinesTell /\ SteadyTells
    /\ RoomIsAccounted /\ WaitsForSomebody

USE DEF request, vars

(* A charge is a number, not zero, and measuring never makes it larger.    *)
LEMMA Charged ==
    ASSUME TypeOK, NEW r \in Requests
    PROVE  /\ Bound(body[r]) \in Nat \ {0}
           /\ Measured(body[r]) \in Nat \ {0} /\ Measured(body[r]) <= Bound(body[r])
<1>1. body[r] \in Bodies \cup {NoBody} /\ card \in Cards
  BY DEF TypeOK
<1>2. body[r].len \in Nat /\ body[r].tokens \in Nat /\ body[r].tokens <= body[r].len
      /\ body[r].stated \in Nat
  BY <1>1, BodiesAssumption DEF NoBody
<1>3. card.ceiling \in Nat /\ DefaultReserve \in Nat \ {0}
  BY <1>1, CardsAssumption
<1>4. OutputReserve(body[r], card.ceiling) \in Nat \ {0}
  BY <1>2, <1>3 DEF OutputReserve, Capped
<1> QED BY <1>2, <1>4 DEF Bound, Measured

(* A bounded set of numbers has a largest one. *)
LEMMA LargestUpTo ==
    ASSUME NEW n \in Nat, NEW S \in SUBSET (0..n), S # {}
    PROVE  Max(S) \in S /\ \A k \in S : k <= Max(S)
<1> DEFINE T == {n - k : k \in S}
<1>0. \A k \in S : k \in Nat /\ k <= n
  <2>1. ASSUME NEW k \in S PROVE k \in 0..n
    OBVIOUS
  <2> QED BY <2>1
<1>1. T \in SUBSET Nat /\ T # {}
  <2>1. ASSUME NEW k \in S PROVE n - k \in Nat
    BY <1>0
  <2> QED BY <2>1
<1>2. PICK m \in T : \A j \in T : m <= j
  BY <1>1, SmallestNat
<1>3. PICK k \in S : m = n - k
  OBVIOUS
<1>4. \A j \in S : k >= j
  <2>1. ASSUME NEW j \in S PROVE k >= j
    <3>1. m <= n - j
      BY <1>2
    <3>2. j \in Nat /\ k \in Nat /\ j <= n /\ k <= n
      BY <1>0
    <3> QED BY <1>3, <3>1, <3>2
  <2> QED BY <2>1
<1>5. \E x \in S : \A y \in S : x >= y
  BY <1>4
<1>6. Max(S) \in S /\ \A y \in S : Max(S) >= y
  BY <1>5 DEF Max
<1> QED BY <1>6

-----------------------------------------------------------------------------
(***************************************************************************)
(* Lines.                                                                  *)
(***************************************************************************)

(* No number lies between one and the next. *)
LEMMA NothingBetween ==
    \A m \in Nat, n \in Nat : m <= n /\ ~(m + 1 <= n) => m = n
OBVIOUS

(* A line parts into those let in and those who stay, once each.           *)
Splits(queue, k, in, rest) ==
    /\ in \in Seq(Requests) /\ rest \in Seq(Requests) /\ Once(rest)
    /\ ToSet(in) \subseteq ToSet(queue)
    /\ ToSet(rest) = ToSet(queue) \ ToSet(in)
    /\ k = 0 => in = <<>>
    /\ k > 0 => queue[1] \in ToSet(in)
    /\ rest # <<>> => k < Len(queue)

(* Letting k in parts the line. *)
LEMMA LineSplits ==
    ASSUME NEW queue \in Seq(Requests), Once(queue), NEW k \in 0..Len(queue),
           NEW in, in = SubSeq(queue, 1, k),
           NEW rest, rest = SubSeq(queue, k + 1, Len(queue))
    PROVE  Splits(queue, k, in, rest)
<1>0. Len(queue) \in Nat /\ k \in Nat /\ k <= Len(queue) /\ DOMAIN queue = 1..Len(queue)
      /\ \A i \in 1..Len(queue) : queue[i] \in Requests
  OBVIOUS
<1>1. /\ Len(in) = k /\ in \in Seq(Requests)
      /\ \A i \in 1..k : in[i] = queue[i]
  BY <1>0
<1>2. /\ Len(rest) = Len(queue) - k /\ rest \in Seq(Requests)
      /\ \A i \in 1..(Len(queue) - k) : rest[i] = queue[k + i]
  <2>1. /\ rest \in Seq(Requests)
        /\ Len(rest) = IF k + 1 <= Len(queue) THEN Len(queue) - (k + 1) + 1 ELSE 0
        /\ \A i \in 1..(Len(queue) - (k + 1) + 1) : rest[i] = queue[(k + 1) + i - 1]
    <3>1. k + 1 \in Int /\ Len(queue) \in Int
          /\ \A i \in (k + 1)..Len(queue) : queue[i] \in Requests
      BY <1>0
    <3> QED BY <3>1, SubSeqProperties
  <2>2. Len(queue) - (k + 1) + 1 = Len(queue) - k
    BY <1>0
  <2>3. Len(rest) = Len(queue) - k
    <3>1. CASE k + 1 <= Len(queue)
      <4>1. Len(rest) = Len(queue) - (k + 1) + 1
        BY ONLY <2>1, <3>1
      <4> QED BY ONLY <4>1, <2>2
    <3>2. CASE ~(k + 1 <= Len(queue))
      <4>1. Len(rest) = 0
        BY ONLY <2>1, <3>2
      <4>2. k = Len(queue)
        BY <1>0, <3>2, NothingBetween
      <4> QED BY ONLY <4>1, <4>2, <1>0
    <3> QED BY <3>1, <3>2
  <2>4. ASSUME NEW i \in 1..(Len(queue) - k) PROVE rest[i] = queue[k + i]
    <3>1. (k + 1) + i - 1 = k + i
      BY <1>0
    <3> QED BY <2>1, <2>2, <3>1
  <2> QED BY <2>1, <2>3, <2>4
<1>3. DOMAIN in = 1..k /\ DOMAIN rest = 1..(Len(queue) - k)
  BY <1>1, <1>2
<1>4. ToSet(in) = {queue[i] : i \in 1..k}
  BY <1>1, <1>3 DEF ToSet
<1>5. ToSet(rest) = {queue[k + i] : i \in 1..(Len(queue) - k)}
  BY <1>2, <1>3 DEF ToSet
<1>6. ToSet(queue) = {queue[i] : i \in 1..Len(queue)}
  BY <1>0 DEF ToSet
<1>7. Once(rest)
  <2> SUFFICES ASSUME NEW i \in 1..Len(rest), NEW j \in 1..Len(rest), rest[i] = rest[j]
               PROVE i = j
    BY DEF Once
  <2>1. k + i \in 1..Len(queue) /\ k + j \in 1..Len(queue) /\ queue[k + i] = queue[k + j]
    <3>1. i \in 1..(Len(queue) - k) /\ j \in 1..(Len(queue) - k)
      BY <1>2
    <3>2. k + i \in 1..Len(queue) /\ k + j \in 1..Len(queue)
      BY <1>0, <3>1
    <3> QED BY <1>2, <3>1, <3>2
  <2>2. k + i = k + j
    BY <2>1 DEF Once
  <2> QED BY <1>0, <2>2
<1>8. ToSet(in) \subseteq ToSet(queue)
  BY <1>0, <1>4, <1>6
<1>9. ToSet(rest) = ToSet(queue) \ ToSet(in)
  <2>1. ASSUME NEW x \in ToSet(rest) PROVE x \in ToSet(queue) /\ x \notin ToSet(in)
    <3>1. PICK i \in 1..(Len(queue) - k) : x = queue[k + i]
      BY <1>5, <2>1
    <3>2. k + i \in 1..Len(queue)
      BY <1>0
    <3>3. ASSUME NEW j \in 1..k, x = queue[j] PROVE FALSE
      <4>1. j \in 1..Len(queue) /\ queue[j] = queue[k + i]
        BY <1>0, <3>1, <3>3
      <4>2. j = k + i
        BY <3>2, <4>1 DEF Once
      <4> QED BY <1>0, <4>2
    <3> QED BY <1>4, <1>6, <3>1, <3>2, <3>3
  <2>2. ASSUME NEW x \in ToSet(queue), x \notin ToSet(in) PROVE x \in ToSet(rest)
    <3>1. PICK i \in 1..Len(queue) : x = queue[i]
      BY <1>6, <2>2
    <3>2. i > k
      BY <1>0, <1>4, <2>2, <3>1
    <3>3. i - k \in 1..(Len(queue) - k) /\ k + (i - k) = i
      BY <1>0, <3>2
    <3> QED BY <1>5, <3>1, <3>3
  <2> QED BY <2>1, <2>2
<1>10. k = 0 => in = <<>>
  BY <1>1
<1>11. k > 0 => queue[1] \in ToSet(in)
  BY <1>0, <1>4
<1>12. rest # <<>> => k < Len(queue)
  <2>1. rest # <<>> => Len(rest) > 0
    BY <1>2, EmptySeq
  <2> QED BY ONLY <1>0, <1>2, <2>1
<1> QED BY <1>1, <1>2, <1>7, <1>8, <1>9, <1>10, <1>11, <1>12 DEF Splits

(* Leaving the line takes one request out of it. *)
LEMMA LeavesLine ==
    ASSUME NEW queue \in Seq(Requests), Once(queue), NEW i \in 1..Len(queue),
           NEW left, left = RemoveAt(queue, i)
    PROVE  /\ left \in Seq(Requests) /\ Once(left)
           /\ ToSet(left) = ToSet(queue) \ {queue[i]}
<1> DEFINE n == Len(queue)
           At(j) == IF j < i THEN j ELSE j + 1
<1>0. n \in Nat /\ i \in Nat /\ 1 <= i /\ i <= n /\ DOMAIN queue = 1..n
      /\ \A j \in 1..n : queue[j] \in Requests
  OBVIOUS
<1>1. /\ SubSeq(queue, 1, i - 1) \in Seq(Requests) /\ Len(SubSeq(queue, 1, i - 1)) = i - 1
      /\ \A j \in 1..(i - 1) : SubSeq(queue, 1, i - 1)[j] = queue[j]
  BY <1>0
<1> DEFINE a == SubSeq(queue, 1, i - 1)
           b == SubSeq(queue, i + 1, n)
<1>2. b \in Seq(Requests) /\ Len(b) = n - i /\ \A j \in 1..(n - i) : b[j] = queue[i + j]
  <2>1. /\ b \in Seq(Requests)
        /\ Len(b) = IF i + 1 <= n THEN n - (i + 1) + 1 ELSE 0
        /\ \A j \in 1..(n - (i + 1) + 1) : b[j] = queue[(i + 1) + j - 1]
    <3>1. i + 1 \in Int /\ n \in Int /\ \A j \in (i + 1)..n : queue[j] \in Requests
      BY <1>0
    <3> QED BY <3>1, SubSeqProperties
  <2>2. n - (i + 1) + 1 = n - i
    BY <1>0
  <2> HIDE DEF b
  <2>3. Len(b) = n - i
    <3>1. CASE i + 1 <= n
      <4>1. Len(b) = n - (i + 1) + 1
        BY ONLY <2>1, <3>1
      <4> QED BY ONLY <4>1, <2>2
    <3>2. CASE ~(i + 1 <= n)
      <4>1. Len(b) = 0
        BY ONLY <2>1, <3>2
      <4>2. n = i
        BY <1>0, <3>2, NothingBetween
      <4> QED BY ONLY <4>1, <4>2, <1>0
    <3> QED BY <3>1, <3>2
  <2>4. ASSUME NEW j \in 1..(n - i) PROVE b[j] = queue[i + j]
    <3>1. (i + 1) + j - 1 = i + j
      BY <1>0
    <3> QED BY <2>1, <2>2, <3>1
  <2> QED BY <2>1, <2>3, <2>4
<1> HIDE DEF n
<1>9. left = a \o b
  BY DEF RemoveAt, n
<1>10. /\ left \in Seq(Requests) /\ Len(left) = Len(a) + Len(b)
       /\ \A j \in 1..(Len(a) + Len(b)) : left[j] = IF j <= Len(a) THEN a[j] ELSE b[j - Len(a)]
  BY <1>1, <1>2, <1>9, ConcatProperties
<1> HIDE DEF a, b
<1>11. Len(a) = i - 1 /\ Len(b) = n - i
  BY <1>1, <1>2 DEF a, b
<1>12. Len(a) + Len(b) = n - 1
  BY <1>0, <1>11
<1>3. left \in Seq(Requests) /\ Len(left) = n - 1
  BY <1>10, <1>12
<1>4. \A j \in 1..(n - 1) : left[j] = queue[At(j)] /\ At(j) \in 1..n /\ At(j) # i
  <2>1. ASSUME NEW j \in 1..(n - 1), j < i PROVE left[j] = queue[j]
    <3>1. j \in 1..(i - 1) /\ j <= Len(a)
      BY <1>0, <1>11, <2>1
    <3>2. left[j] = a[j]
      BY <1>10, <1>12, <3>1
    <3> QED BY <1>1, <3>1, <3>2 DEF a
  <2>2. ASSUME NEW j \in 1..(n - 1), ~(j < i) PROVE left[j] = queue[j + 1]
    <3>1. j - (i - 1) \in 1..(n - i) /\ i + (j - (i - 1)) = j + 1
      BY <1>0, <2>2
    <3>2. ~(j <= Len(a))
      BY <1>0, <1>11, <2>2
    <3>3. left[j] = b[j - (i - 1)]
      BY <1>10, <1>11, <1>12, <3>2
    <3> QED BY <1>2, <3>1, <3>3
  <2> QED BY <1>0, <2>1, <2>2
<1>5. Once(left)
  <2> SUFFICES ASSUME NEW j \in 1..Len(left), NEW m \in 1..Len(left), left[j] = left[m]
               PROVE j = m
    BY DEF Once
  <2>1. At(j) \in 1..n /\ At(m) \in 1..n /\ queue[At(j)] = queue[At(m)]
    BY <1>3, <1>4
  <2>2. At(j) = At(m)
    BY <2>1 DEF Once, n
  <2> QED BY <1>0, <1>3, <2>2
<1>6. ToSet(left) = {left[j] : j \in 1..(n - 1)} /\ ToSet(queue) = {queue[j] : j \in 1..n}
  BY <1>0, <1>3 DEF ToSet
<1>7. ASSUME NEW x \in ToSet(left) PROVE x \in ToSet(queue) /\ x # queue[i]
  <2>1. PICK j \in 1..(n - 1) : x = queue[At(j)] /\ At(j) \in 1..n /\ At(j) # i
    BY <1>4, <1>6, <1>7
  <2>2. queue[At(j)] # queue[i]
    BY <1>0, <2>1 DEF Once, n
  <2> QED BY <1>6, <2>1, <2>2
<1>8. ASSUME NEW x \in ToSet(queue), x # queue[i] PROVE x \in ToSet(left)
  <2>1. PICK m \in 1..n : x = queue[m]
    BY <1>6, <1>8
  <2>2. m # i
    BY <1>8, <2>1
  <2>3. CASE m < i
    <3>1. m \in 1..(n - 1) /\ At(m) = m
      BY <1>0, <2>3
    <3> QED BY <1>4, <1>6, <2>1, <3>1
  <2>4. CASE m > i
    <3>1. m - 1 \in 1..(n - 1) /\ At(m - 1) = m
      BY <1>0, <2>4
    <3> QED BY <1>4, <1>6, <2>1, <3>1
  <2> QED BY <1>0, <2>2, <2>3, <2>4
<1> QED BY <1>3, <1>5, <1>7, <1>8

(* Joining at the end. *)
LEMMA JoinsLine ==
    ASSUME NEW queue \in Seq(Requests), Once(queue), NEW r \in Requests, r \notin ToSet(queue)
    PROVE  /\ Append(queue, r) \in Seq(Requests) /\ Once(Append(queue, r))
           /\ ToSet(Append(queue, r)) = ToSet(queue) \cup {r}
<1> DEFINE n == Len(queue)
           more == Append(queue, r)
<1>1. /\ n \in Nat /\ more \in Seq(Requests) /\ Len(more) = n + 1
      /\ DOMAIN queue = 1..n /\ DOMAIN more = 1..(n + 1)
      /\ \A i \in 1..n : more[i] = queue[i]
      /\ more[n + 1] = r
  OBVIOUS
<1> HIDE DEF more
<1>2. \A i \in 1..n : queue[i] # r
  BY <1>1 DEF ToSet
<1>3. Once(more)
  BY <1>1, <1>2 DEF Once
<1>4. ToSet(more) = ToSet(queue) \cup {r}
  BY <1>1 DEF ToSet
<1> QED BY <1>1, <1>3, <1>4 DEF more

(* A line's charges are a number, none for an empty one. *)
LEMMA ChargesOfLine ==
    ASSUME TypeOK, NEW queue \in Seq(Requests)
    PROVE  Charges(queue) \in Nat /\ Charges(<<>>) = 0
<1>1. ToSet(queue) \subseteq Requests
  BY DEF ToSet
<1>2. IsFiniteSet(ToSet(queue))
  BY <1>1, RequestsAssumption, FS_Subset
<1>3. \A x \in ToSet(queue) : cost[x] \in Nat
  BY <1>1 DEF TypeOK
<1>4. ToSet(<<>>) = {}
  BY DEF ToSet
<1> QED BY <1>2, <1>3, <1>4, TotalType, TotalEmpty DEF Charges

(* So many fit, and one more would not. *)
FitsUpTo(size, used, queue, k) ==
    /\ k \in 0..Len(queue)
    /\ used + Charges(SubSeq(queue, 1, k)) <= size
    /\ \A j \in 0..Len(queue) :
           used + Charges(SubSeq(queue, 1, j)) <= size => j <= k

(* That many are let in. *)
LEMMA LetInFits ==
    ASSUME TypeOK, NEW size \in Nat, NEW used \in Nat, used <= size,
           NEW queue \in Seq(Requests)
    PROVE  FitsUpTo(size, used, queue, LetIn(size, used, queue))
<1> DEFINE S == {j \in 0..Len(queue) : used + Charges(SubSeq(queue, 1, j)) <= size}
<1>1. SubSeq(queue, 1, 0) = <<>> /\ Len(queue) \in Nat
  OBVIOUS
<1>2. 0 \in S
  <2>1. Charges(SubSeq(queue, 1, 0)) = 0
    BY <1>1, ChargesOfLine
  <2>2. used + Charges(SubSeq(queue, 1, 0)) <= size
    BY <2>1
  <2>3. 0 \in 0..Len(queue)
    BY <1>1
  <2> QED BY <2>2, <2>3
<1>3. S \in SUBSET (0..Len(queue)) /\ S # {}
  BY <1>2
<1>4. LetIn(size, used, queue) = Max(S)
  BY DEF LetIn
<1> HIDE DEF S
<1>5. Max(S) \in S /\ \A j \in S : j <= Max(S)
  BY <1>1, <1>3, LargestUpTo
<1> QED BY <1>4, <1>5 DEF S, FitsUpTo

-----------------------------------------------------------------------------
(***************************************************************************)
(* Steps.                                                                  *)
(***************************************************************************)

(* What is known of a semaphore there is. *)
LEMMA SemaphoreIs ==
    ASSUME TypeOK, NEW s \in DOMAIN sems
    PROVE  /\ s \in Nat \ {0} /\ s <= Len(sems) /\ Len(sems) \in Nat
           /\ sems[s] \in [size : Nat, used : Nat, queue : Seq(Requests)]
           /\ sems[s].size \in Nat /\ sems[s].used \in Nat /\ sems[s].queue \in Seq(Requests)
<1>1. DOMAIN sems = 1..Len(sems) /\ Len(sems) \in Nat
  BY DEF TypeOK
<1>2. sems[s] \in [size : Nat, used : Nat, queue : Seq(Requests)]
  <2>1. sems \in Seq([size : Nat, used : Nat, queue : Seq(Requests)]) /\ s \in 1..Len(sems)
    BY <1>1 DEF TypeOK
  <2> QED BY ONLY <2>1, ElementOfSeq
<1> QED BY <1>1, <1>2

(* The holders of a semaphore are finitely many, and each holds a number. *)
LEMMA HoldersAre ==
    ASSUME TypeOK, NEW s
    PROVE  /\ IsFiniteSet(Holders(s)) /\ Holders(s) \subseteq Requests
           /\ \A r \in Holders(s) : held[r] \in Nat
<1>1. Holders(s) \subseteq Requests
  BY DEF Holders
<1>2. IsFiniteSet(Holders(s))
  BY <1>1, RequestsAssumption, FS_Subset
<1> QED BY <1>1, <1>2 DEF TypeOK

(* What a function is after one of its values was replaced. *)
LEMMA Replaced ==
    ASSUME NEW S, NEW f \in [Requests -> S], NEW r \in Requests, NEW v \in S,
           NEW g, g = [f EXCEPT ![r] = v]
    PROVE  /\ g \in [Requests -> S] /\ g[r] = v
           /\ \A q \in Requests : q # r => g[q] = f[q]
OBVIOUS

(* A request that is forgotten leaves the others as they are. *)
LEMMA Forgotten ==
    ASSUME TypeOK, NEW r \in Requests, Forget(r)
    PROVE  /\ \A q \in Requests : q # r =>
                  body'[q] = body[q] /\ cap'[q] = cap[q] /\ on'[q] = on[q] /\ cost'[q] = cost[q]
           /\ body'[r] = NoBody /\ cap'[r] = 0 /\ on'[r] = 0 /\ cost'[r] = 0
           /\ body' \in [Requests -> Bodies \cup {NoBody}] /\ cap' \in [Requests -> Nat]
           /\ on' \in [Requests -> 0..Len(sems)] /\ cost' \in [Requests -> Nat]
<1>1. /\ body' \in [Requests -> Bodies \cup {NoBody}] /\ body'[r] = NoBody
      /\ \A q \in Requests : q # r => body'[q] = body[q]
  <2>1. body \in [Requests -> Bodies \cup {NoBody}] /\ NoBody \in Bodies \cup {NoBody}
    BY DEF TypeOK
  <2>2. body' = [body EXCEPT ![r] = NoBody]
    BY DEF Forget
  <2> HIDE DEF NoBody
  <2> QED BY <2>1, <2>2, Replaced
<1>2. /\ cap' \in [Requests -> Nat] /\ cap'[r] = 0
      /\ \A q \in Requests : q # r => cap'[q] = cap[q]
  <2>1. cap \in [Requests -> Nat] /\ cap' = [cap EXCEPT ![r] = 0] /\ 0 \in Nat
    BY DEF TypeOK, Forget
  <2> QED BY <2>1, Replaced
<1>3. /\ on' \in [Requests -> 0..Len(sems)] /\ on'[r] = 0
      /\ \A q \in Requests : q # r => on'[q] = on[q]
  <2>1. Len(sems) \in Nat
    BY DEF TypeOK
  <2>2. on \in [Requests -> 0..Len(sems)] /\ on' = [on EXCEPT ![r] = 0]
    BY DEF TypeOK, Forget
  <2>3. 0 \in 0..Len(sems)
    BY <2>1
  <2> QED BY <2>2, <2>3, Replaced
<1>4. /\ cost' \in [Requests -> Nat] /\ cost'[r] = 0
      /\ \A q \in Requests : q # r => cost'[q] = cost[q]
  <2>1. cost \in [Requests -> Nat] /\ cost' = [cost EXCEPT ![r] = 0] /\ 0 \in Nat
    BY DEF TypeOK, Forget
  <2> QED BY <2>1, Replaced
<1> QED BY <1>1, <1>2, <1>3, <1>4

(* Room given back or a place in line given up: a semaphore lets in who    *)
(* now fits, and forgets r.                                                *)
LEMMA Settled ==
    ASSUME GateInv, NEW r \in Requests, NEW s \in DOMAIN sems, on[r] = s,
           NEW used \in Nat, NEW queue \in Seq(Requests), NEW to \in {"answered", "refused"},
           used = SumFunctionOnSet(held, Holders(s) \ {r}), used <= sems[s].size,
           Once(queue), ToSet(queue) = Waiting(s) \ {r},
           Settle(s, used, queue, r, to), Forget(r), UNCHANGED <<card, engine, edits>>
    PROVE  GateInv'
<1> DEFINE k == LetIn(sems[s].size, used, queue)
           in == SubSeq(queue, 1, k)
           rest == SubSeq(queue, k + 1, Len(queue))
           I == ToSet(in)
           H == Holders(s) \ {r}
<1> USE DEF GateInv
<1>0. /\ s \in Nat \ {0} /\ s <= Len(sems) /\ Len(sems) \in Nat
      /\ sems[s].size \in Nat /\ sems[s].used \in Nat /\ sems[s].queue \in Seq(Requests)
  BY SemaphoreIs
<1>2. /\ sems' = [sems EXCEPT ![s].used = used + Charges(in), ![s].queue = rest]
      /\ held' = [q \in Requests |-> IF q = r THEN 0 ELSE IF q \in I THEN cost[q] ELSE held[q]]
      /\ pc' = [q \in Requests |-> IF q = r THEN to ELSE IF q \in I THEN "atEngine" ELSE pc[q]]
  BY DEF Settle
<1>19. k = LetIn(sems[s].size, used, queue)
  OBVIOUS
<1> HIDE DEF k
<1>1. /\ k \in 0..Len(queue)
      /\ used + Charges(in) <= sems[s].size
      /\ \A j \in 0..Len(queue) : used + Charges(SubSeq(queue, 1, j)) <= sems[s].size => j <= k
  <2>1. FitsUpTo(sems[s].size, used, queue, k)
    BY <1>0, <1>19, LetInFits
  <2> QED BY <2>1 DEF FitsUpTo
<1>20. in = SubSeq(queue, 1, k) /\ rest = SubSeq(queue, k + 1, Len(queue)) /\ I = ToSet(in)
  OBVIOUS
<1> HIDE DEF in, rest, I
<1>3. /\ in \in Seq(Requests) /\ rest \in Seq(Requests) /\ Once(rest)
      /\ I \subseteq ToSet(queue) /\ ToSet(rest) = ToSet(queue) \ I
      /\ k = 0 => in = <<>>
      /\ k > 0 => queue[1] \in I
      /\ rest # <<>> => k < Len(queue)
  <2>1. Splits(queue, k, in, rest)
    BY ONLY <1>1, <1>20, queue \in Seq(Requests), Once(queue), LineSplits
  <2> QED BY <1>20, <2>1 DEF Splits
<1>4. Charges(in) \in Nat /\ Charges(in) = SumFunctionOnSet(cost, I)
  BY <1>3, <1>20, ChargesOfLine DEF Charges
<1>5. \A q \in ToSet(queue) :
          /\ q \in Requests /\ q # r /\ pc[q] = "queued" /\ on[q] = s /\ held[q] = 0
          /\ cost[q] \in Nat \ {0} /\ cost[q] <= sems[s].size
  <2>1. ASSUME NEW q \in ToSet(queue)
        PROVE  /\ q \in Requests /\ q # r /\ pc[q] = "queued" /\ on[q] = s /\ held[q] = 0
               /\ cost[q] \in Nat \ {0} /\ cost[q] <= sems[s].size
    <3>1. q \in Requests /\ q # r /\ pc[q] = "queued" /\ on[q] = s
      BY DEF Waiting
    <3>2. held[q] \in Nat /\ cost[q] \in Nat
      BY <3>1 DEF TypeOK
    <3>3. ~(held[q] > 0)
      BY <3>1 DEF HoldersTell
    <3>4. cost[q] > 0 /\ cost[q] <= sems[s].size
      BY <3>1 DEF AskersTell
    <3> QED BY <3>1, <3>2, <3>3, <3>4
  <2> QED BY <2>1
<1>21. \A q \in I :
           /\ q \in Requests /\ q # r /\ pc[q] = "queued" /\ on[q] = s /\ held[q] = 0
           /\ cost[q] \in Nat \ {0}
  BY <1>3, <1>5
<1>6. /\ DOMAIN sems' = DOMAIN sems /\ Len(sems') = Len(sems)
      /\ \A t \in DOMAIN sems : sems'[t].size = sems[t].size
      /\ \A t \in DOMAIN sems : t # s => sems'[t] = sems[t]
      /\ sems'[s].used = used + Charges(in) /\ sems'[s].queue = rest
      /\ sems' \in Seq([size : Nat, used : Nat, queue : Seq(Requests)])
  <2> DEFINE R == [size : Nat, used : Nat, queue : Seq(Requests)]
             new == [sems[s] EXCEPT !.used = used + Charges(in), !.queue = rest]
  <2>1. sems \in Seq(R) /\ DOMAIN sems = 1..Len(sems)
    BY DEF TypeOK
  <2>6. sems[s] \in R
    BY SemaphoreIs
  <2>8. used + Charges(in) \in Nat
    BY <1>4
  <2>2. new \in R /\ new.size = sems[s].size /\ new.used = used + Charges(in) /\ new.queue = rest
    BY ONLY <1>3, <2>6, <2>8
  <2>3. sems' = [sems EXCEPT ![s] = new]
    BY <1>2
  <2> HIDE DEF new, R
  <2>4. sems' \in Seq(R) /\ Len(sems') = Len(sems) /\ DOMAIN sems' = DOMAIN sems
    BY <2>1, <2>2, <2>3
  <2>5. \A t \in DOMAIN sems : sems'[t] = IF t = s THEN new ELSE sems[t]
    BY <2>1, <2>3
  <2> QED BY <2>2, <2>4, <2>5 DEF R
<1>7. /\ \A q \in Requests : q # r =>
             body'[q] = body[q] /\ cap'[q] = cap[q] /\ on'[q] = on[q] /\ cost'[q] = cost[q]
      /\ body'[r] = NoBody /\ cap'[r] = 0 /\ on'[r] = 0 /\ cost'[r] = 0
      /\ body' \in [Requests -> Bodies \cup {NoBody}] /\ cap' \in [Requests -> Nat]
      /\ on' \in [Requests -> 0..Len(sems)] /\ cost' \in [Requests -> Nat]
  BY Forgotten
<1>8. /\ pc'[r] = to /\ held'[r] = 0
      /\ \A q \in I : pc'[q] = "atEngine" /\ held'[q] = cost[q]
      /\ \A q \in Requests \ I : q # r => pc'[q] = pc[q] /\ held'[q] = held[q]
  BY <1>2, <1>21
<1>9. TypeOK'
  <2>1. pc' \in [Requests -> {"away", "lock", "size", "acquire", "queued", "atEngine",
                               "cut", "answered", "refused"}]
    BY <1>2 DEF TypeOK
  <2>2. held' \in [Requests -> Nat]
    BY <1>2 DEF TypeOK
  <2> QED BY <1>6, <1>7, <2>1, <2>2 DEF TypeOK
<1>10. AskersTell'
  <2> SUFFICES ASSUME NEW q \in Requests
               PROVE  /\ pc'[q] \in {"size", "acquire", "queued"} =>
                             on'[q] \in DOMAIN sems' /\ cap'[q] = sems'[on'[q]].size
                      /\ pc'[q] \in {"acquire", "queued"} => cost'[q] > 0
                      /\ pc'[q] = "queued" => cost'[q] <= cap'[q]
    BY DEF AskersTell
  <2>1. CASE q = r \/ q \in I
    BY <1>8, <2>1
  <2>2. CASE q # r /\ q \notin I
    <3>1. /\ pc'[q] = pc[q] /\ on'[q] = on[q] /\ cap'[q] = cap[q] /\ cost'[q] = cost[q]
      BY <1>7, <1>8, <2>2
    <3>2. /\ pc[q] \in {"size", "acquire", "queued"} =>
                 on[q] \in DOMAIN sems /\ cap[q] = sems[on[q]].size
          /\ pc[q] \in {"acquire", "queued"} => cost[q] > 0
          /\ pc[q] = "queued" => cost[q] <= cap[q]
      BY DEF AskersTell
    <3>3. on[q] \in DOMAIN sems =>
             on[q] \in DOMAIN sems' /\ sems'[on[q]].size = sems[on[q]].size
      BY <1>6
    <3> QED BY <3>1, <3>2, <3>3
  <2> QED BY <2>1, <2>2
<1>11. HoldersTell'
  <2> SUFFICES ASSUME NEW q \in Requests, held'[q] > 0
               PROVE  pc'[q] \in {"atEngine", "cut"} /\ on'[q] \in DOMAIN sems'
    BY DEF HoldersTell
  <2>1. CASE q = r
    BY <1>8, <2>1
  <2>2. CASE q \in I
    <3>1. pc'[q] = "atEngine" /\ on'[q] = s
      BY <1>7, <1>8, <1>21, <2>2
    <3> QED BY <1>6, <3>1
  <2>3. CASE q # r /\ q \notin I
    BY <1>6, <1>7, <1>8, <2>3 DEF HoldersTell
  <2> QED BY <2>1, <2>2, <2>3
<1>12. LinesTell'
  <2> SUFFICES ASSUME NEW t \in DOMAIN sems
               PROVE  ToSet(sems'[t].queue) = Waiting(t)' /\ Once(sems'[t].queue)
    BY <1>6 DEF LinesTell
  <2>1. CASE t = s
    <3>1. Waiting(s)' = Waiting(s) \ (I \cup {r})
      <4>1. ASSUME NEW q \in Requests
            PROVE  (pc'[q] = "queued" /\ on'[q] = s) <=>
                   (pc[q] = "queued" /\ on[q] = s /\ q \notin I /\ q # r)
        BY <1>7, <1>8
      <4> QED BY <4>1 DEF Waiting
    <3> QED BY <1>3, <1>6, <2>1, <3>1
  <2>2. CASE t # s
    <3>0. t # 0
      BY SemaphoreIs
    <3>1. Waiting(t)' = Waiting(t)
      <4>1. ASSUME NEW q \in Requests
            PROVE  (pc'[q] = "queued" /\ on'[q] = t) <=> (pc[q] = "queued" /\ on[q] = t)
        BY <1>3, <1>5, <1>7, <1>8, <2>2, <3>0
      <4> QED BY <4>1 DEF Waiting
    <3> QED BY <1>6, <2>2, <3>1 DEF LinesTell
  <2> QED BY <2>1, <2>2
<1>13. SteadyTells'
  <2> SUFFICES ASSUME edits = 0
               PROVE  /\ engine' = card'
                      /\ Len(sems') <= 1 /\ \A t \in DOMAIN sems' : sems'[t].size = card'.pool
                      /\ \A q \in Requests :
                             /\ pc'[q] = "lock" => cap'[q] = card'.pool
                             /\ pc'[q] \in {"acquire", "queued"} => Measured(body[q])' <= cost'[q]
                             /\ held'[q] > 0 => Measured(body[q])' <= held'[q]
    BY DEF SteadyTells
  <2>1. engine' = card' /\ Len(sems') <= 1 /\ \A t \in DOMAIN sems' : sems'[t].size = card'.pool
    BY <1>6 DEF SteadyTells
  <2>2. ASSUME NEW q \in Requests
        PROVE  /\ pc'[q] = "lock" => cap'[q] = card'.pool
               /\ pc'[q] \in {"acquire", "queued"} => Measured(body[q])' <= cost'[q]
               /\ held'[q] > 0 => Measured(body[q])' <= held'[q]
    <3>1. CASE q = r
      BY <1>7, <1>8, <3>1
    <3>2. CASE q # r
      <4>1. Measured(body[q])' = Measured(body[q])
        BY <1>7, <3>2 DEF Measured, OutputReserve, Capped
      <4>2. /\ pc[q] = "lock" => cap[q] = card.pool
            /\ pc[q] \in {"acquire", "queued"} => Measured(body[q]) <= cost[q]
            /\ held[q] > 0 => Measured(body[q]) <= held[q]
        BY DEF SteadyTells
      <4>3. cap'[q] = cap[q] /\ cost'[q] = cost[q]
        BY <1>7, <3>2
      <4>4. CASE q \in I
        <5>1. pc'[q] = "atEngine" /\ held'[q] = cost[q]
          BY <1>8, <4>4
        <5>2. pc[q] = "queued"
          BY <1>21, <4>4
        <5> QED BY <4>1, <4>2, <4>3, <5>1, <5>2
      <4>5. CASE q \notin I
        <5>1. pc'[q] = pc[q] /\ held'[q] = held[q]
          BY <1>8, <3>2, <4>5
        <5> QED BY <4>1, <4>2, <4>3, <5>1
      <4> QED BY <4>4, <4>5
    <3> QED BY <3>1, <3>2
  <2> QED BY <2>1, <2>2
<1>14. Holders(s)' = H \cup I
  <2>1. ASSUME NEW q \in Requests
        PROVE  (on'[q] = s /\ held'[q] > 0) <=> (q \in H \/ q \in I)
    <3>1. CASE q = r
      BY <1>3, <1>5, <1>8, <3>1
    <3>2. CASE q \in I
      <4>1. on'[q] = s /\ held'[q] = cost[q] /\ cost[q] \in Nat \ {0}
        BY <1>7, <1>8, <1>21, <3>2
      <4>2. held'[q] > 0
        BY <4>1
      <4> QED BY <3>2, <4>1, <4>2
    <3>3. CASE q # r /\ q \notin I
      BY <1>7, <1>8, <3>3 DEF Holders
    <3> QED BY <3>1, <3>2, <3>3
  <2>2. H \subseteq Requests /\ I \subseteq Requests
    BY <1>3, <1>5 DEF Holders
  <2> QED BY <2>1, <2>2 DEF Holders
<1>15. SumFunctionOnSet(held, Holders(s))' = used + Charges(in)
  <2>1. IsFiniteSet(H) /\ IsFiniteSet(I) /\ H \cap I = {}
    <3>1. IsFiniteSet(H)
      BY HoldersAre, FS_RemoveElement
    <3>2. I \subseteq Requests
      BY <1>3, <1>5
    <3>3. IsFiniteSet(I)
      BY <3>2, RequestsAssumption, FS_Subset
    <3> QED BY <1>3, <1>5, <3>1, <3>3 DEF Holders
  <2>2. /\ \A q \in H : held'[q] = held[q] /\ held[q] \in Nat
        /\ \A q \in I : held'[q] = cost[q] /\ cost[q] \in Nat
    BY <1>3, <1>5, <1>8, <2>1 DEF Holders, TypeOK
  <2>3. SumFunctionOnSet(held, H) = SumFunctionOnSet(held', H)
    BY <2>1, <2>2, TotalSame
  <2>4. SumFunctionOnSet(cost, I) = SumFunctionOnSet(held', I)
    BY <2>1, <2>2, TotalSame
  <2>5. SumFunctionOnSet(held', H \cup I) = SumFunctionOnSet(held', H) + SumFunctionOnSet(held', I)
    <3>1. \A q \in H \cup I : held'[q] \in Nat
      BY <2>2
    <3> QED BY <2>1, <3>1, TotalUnion
  <2> QED BY <1>4, <1>14, <2>3, <2>4, <2>5
<1>16. ASSUME NEW t \in DOMAIN sems, t # s
       PROVE  /\ Holders(t)' = Holders(t)
              /\ SumFunctionOnSet(held, Holders(t))' = SumFunctionOnSet(held, Holders(t))
  <2>0. t # 0
    BY SemaphoreIs
  <2>1. ASSUME NEW q \in Requests
        PROVE  (on'[q] = t /\ held'[q] > 0) <=> (on[q] = t /\ held[q] > 0)
    <3>1. CASE q = r
      BY <1>7, <1>16, <2>0, <3>1
    <3>2. CASE q \in I
      BY <1>7, <1>16, <1>21, <3>2
    <3>3. CASE q # r /\ q \notin I
      BY <1>7, <1>8, <3>3
    <3> QED BY <3>1, <3>2, <3>3
  <2>2. Holders(t)' = Holders(t)
    BY <2>1 DEF Holders
  <2>3. \A q \in Holders(t) : held'[q] = held[q] /\ held[q] \in Nat
    BY <1>3, <1>5, <1>8, <1>16 DEF Holders, TypeOK
  <2>4. SumFunctionOnSet(held, Holders(t)) = SumFunctionOnSet(held', Holders(t))
    BY <2>3, HoldersAre, TotalSame
  <2> QED BY <2>2, <2>4
<1>17. RoomIsAccounted'
  <2> SUFFICES ASSUME NEW t \in DOMAIN sems
               PROVE  /\ sems'[t].used = SumFunctionOnSet(held, Holders(t))'
                      /\ sems'[t].used <= sems'[t].size
    BY <1>6 DEF RoomIsAccounted
  <2>1. CASE t = s
    BY <1>1, <1>6, <1>15, <2>1
  <2>2. CASE t # s
    BY <1>6, <1>16, <2>2 DEF RoomIsAccounted
  <2> QED BY <2>1, <2>2
<1>18. WaitsForSomebody'
  <2> SUFFICES ASSUME NEW t \in DOMAIN sems, sems'[t].queue # <<>>
               PROVE  Holders(t)' # {}
    BY <1>6 DEF WaitsForSomebody
  <2>1. CASE t # s
    BY <1>6, <1>16, <2>1 DEF WaitsForSomebody
  <2>2. CASE t = s
    <3> SUFFICES ASSUME Holders(s)' = {} PROVE FALSE
      BY <2>2
    <3>1. H = {} /\ I = {}
      BY <1>14
    <3>2. used = 0
      BY <3>1, TotalEmpty
    <3>3. Len(queue) \in Nat /\ k < Len(queue) /\ k = 0
      <4>1. rest # <<>> /\ k \in Nat /\ Len(queue) \in Nat
        BY <1>1, <1>6, <2>2
      <4>2. k < Len(queue) /\ ~(k > 0)
        BY <1>3, <3>1, <4>1
      <4> QED BY ONLY <4>1, <4>2
    <3>4. ToSet(SubSeq(queue, 1, 1)) = {queue[1]} /\ queue[1] \in ToSet(queue) /\ 1 \in 0..Len(queue)
      <4>1. 1 \in 1..Len(queue) /\ DOMAIN queue = 1..Len(queue)
        BY <3>3
      <4>2. queue[1] \in ToSet(queue)
        BY <4>1 DEF ToSet
      <4>4. /\ Len(SubSeq(queue, 1, 1)) = 1 /\ SubSeq(queue, 1, 1) \in Seq(Requests)
            /\ SubSeq(queue, 1, 1)[1] = queue[1]
        BY ONLY <3>3, queue \in Seq(Requests)
      <4>3. ToSet(SubSeq(queue, 1, 1)) = {queue[1]}
        BY <4>4 DEF ToSet
      <4> QED BY <4>1, <4>2, <4>3
    <3>5. Charges(SubSeq(queue, 1, 1)) = cost[queue[1]]
      <4>1. ToSet(SubSeq(queue, 1, 1)) = {} \cup {queue[1]}
        BY <3>4
      <4>2. cost[queue[1]] \in Nat
        BY <1>5, <3>4
      <4>3. SumFunctionOnSet(cost, {} \cup {queue[1]}) = SumFunctionOnSet(cost, {}) + cost[queue[1]]
        BY <4>2, TotalAdd, FS_EmptySet, ZenonT(60)
      <4>4. SumFunctionOnSet(cost, {}) = 0
        BY TotalEmpty
      <4>5. Charges(SubSeq(queue, 1, 1)) = SumFunctionOnSet(cost, {} \cup {queue[1]})
        BY <4>1 DEF Charges
      <4> QED BY ONLY <4>2, <4>3, <4>4, <4>5
    <3>6. cost[queue[1]] \in Nat \ {0} /\ cost[queue[1]] <= sems[s].size
      BY <1>5, <3>4
    <3>7. 1 <= k
      <4>1. used + Charges(SubSeq(queue, 1, 1)) <= sems[s].size
        BY ONLY <1>0, <3>2, <3>5, <3>6
      <4> QED BY <1>1, <3>4, <4>1
    <3> QED BY <3>3, <3>7
  <2> QED BY <2>1, <2>2
<1> QED BY <1>9, <1>10, <1>11, <1>12, <1>13, <1>17, <1>18

(* A step in which nobody takes or gives back room leaves the accounts. *)
LEMMA RoomStands ==
    ASSUME UNCHANGED held, \A q \in Requests : held[q] > 0 => on'[q] = on[q], NEW s
    PROVE  /\ Holders(s)' = Holders(s)
           /\ SumFunctionOnSet(held, Holders(s))' = SumFunctionOnSet(held, Holders(s))
<1>1. ASSUME NEW q \in Requests
      PROVE (on'[q] = s /\ held'[q] > 0) <=> (on[q] = s /\ held[q] > 0)
  OBVIOUS
<1>2. Holders(s)' = Holders(s)
  BY <1>1 DEF Holders
<1> QED BY <1>2

(* A request is granted room at once. *)
LEMMA Taken ==
    ASSUME GateInv, NEW r \in Requests, pc[r] \in {"size", "acquire"},
           NEW n \in Nat \ {0}, edits = 0 => Measured(body[r]) <= n,
           GrantsNow(on[r], n), Take(r, n), Move(r, "atEngine"),
           UNCHANGED <<card, engine, body, cap, on, cost, edits>>
    PROVE  GateInv'
<1> USE DEF GateInv
<1> DEFINE s == on[r]
<1>0. s \in DOMAIN sems
  BY DEF AskersTell
<1>1. /\ s \in Nat \ {0} /\ s <= Len(sems) /\ Len(sems) \in Nat
      /\ sems[s] \in [size : Nat, used : Nat, queue : Seq(Requests)]
      /\ sems[s].size \in Nat /\ sems[s].used \in Nat /\ sems[s].queue = <<>>
      /\ sems[s].used + n <= sems[s].size
  BY <1>0, SemaphoreIs DEF GrantsNow
<1>2. /\ DOMAIN sems' = DOMAIN sems /\ Len(sems') = Len(sems)
      /\ \A t \in DOMAIN sems : sems'[t].size = sems[t].size /\ sems'[t].queue = sems[t].queue
      /\ \A t \in DOMAIN sems : t # s => sems'[t] = sems[t]
      /\ sems'[s].used = sems[s].used + n
      /\ sems' \in Seq([size : Nat, used : Nat, queue : Seq(Requests)])
  <2> DEFINE R == [size : Nat, used : Nat, queue : Seq(Requests)]
             new == [sems[s] EXCEPT !.used = sems[s].used + n]
  <2>1. sems \in Seq(R) /\ DOMAIN sems = 1..Len(sems)
    BY DEF TypeOK
  <2>2. /\ new \in R /\ new.size = sems[s].size /\ new.queue = sems[s].queue
        /\ new.used = sems[s].used + n
    BY <1>1
  <2>3. sems' = [sems EXCEPT ![s] = new]
    BY DEF Take
  <2> HIDE DEF new, R
  <2>4. sems' \in Seq(R) /\ Len(sems') = Len(sems) /\ DOMAIN sems' = DOMAIN sems
    BY <1>0, <2>1, <2>2, <2>3
  <2>5. \A t \in DOMAIN sems : sems'[t] = IF t = s THEN new ELSE sems[t]
    BY <1>0, <2>1, <2>3
  <2> QED BY <1>0, <2>2, <2>4, <2>5 DEF R
<1>3. /\ held'[r] = n /\ pc'[r] = "atEngine" /\ held[r] = 0
      /\ \A q \in Requests : q # r => held'[q] = held[q] /\ pc'[q] = pc[q]
      /\ held' \in [Requests -> Nat]
      /\ pc' \in [Requests -> {"away", "lock", "size", "acquire", "queued", "atEngine",
                               "cut", "answered", "refused"}]
  <2>1. held[r] \in Nat /\ ~(held[r] > 0)
    BY DEF TypeOK, HoldersTell
  <2>2. held[r] = 0
    BY <2>1
  <2>3. /\ held'[r] = n /\ held' \in [Requests -> Nat]
        /\ \A q \in Requests : q # r => held'[q] = held[q]
    BY DEF Take, TypeOK
  <2>4. /\ pc'[r] = "atEngine" /\ \A q \in Requests : q # r => pc'[q] = pc[q]
        /\ pc' \in [Requests -> {"away", "lock", "size", "acquire", "queued", "atEngine",
                                 "cut", "answered", "refused"}]
    BY DEF Move, TypeOK
  <2> QED BY <2>2, <2>3, <2>4
<1>4. TypeOK'
  BY <1>2, <1>3 DEF TypeOK
<1>5. AskersTell'
  <2> SUFFICES ASSUME NEW q \in Requests
               PROVE  /\ pc'[q] \in {"size", "acquire", "queued"} =>
                             on'[q] \in DOMAIN sems' /\ cap'[q] = sems'[on'[q]].size
                      /\ pc'[q] \in {"acquire", "queued"} => cost'[q] > 0
                      /\ pc'[q] = "queued" => cost'[q] <= cap'[q]
    BY DEF AskersTell
  <2>1. CASE q = r
    BY <1>3, <2>1
  <2>2. CASE q # r
    <3>1. pc'[q] = pc[q]
      BY <1>3, <2>2
    <3>2. /\ pc[q] \in {"size", "acquire", "queued"} =>
                 on[q] \in DOMAIN sems /\ cap[q] = sems[on[q]].size
          /\ pc[q] \in {"acquire", "queued"} => cost[q] > 0
          /\ pc[q] = "queued" => cost[q] <= cap[q]
      BY DEF AskersTell
    <3>3. on[q] \in DOMAIN sems =>
             on[q] \in DOMAIN sems' /\ sems'[on[q]].size = sems[on[q]].size
      BY <1>2
    <3> QED BY <3>1, <3>2, <3>3
  <2> QED BY <2>1, <2>2
<1>6. HoldersTell'
  <2> SUFFICES ASSUME NEW q \in Requests, held'[q] > 0
               PROVE  pc'[q] \in {"atEngine", "cut"} /\ on'[q] \in DOMAIN sems'
    BY DEF HoldersTell
  <2>1. CASE q = r
    BY <1>0, <1>2, <1>3, <2>1
  <2>2. CASE q # r
    BY <1>2, <1>3, <2>2 DEF HoldersTell
  <2> QED BY <2>1, <2>2
<1>7. LinesTell'
  <2> SUFFICES ASSUME NEW t \in DOMAIN sems
               PROVE  ToSet(sems'[t].queue) = Waiting(t)' /\ Once(sems'[t].queue)
    BY <1>2 DEF LinesTell
  <2>1. Waiting(t)' = Waiting(t)
    BY <1>3 DEF Waiting
  <2> QED BY <1>2, <2>1 DEF LinesTell
<1>8. SteadyTells'
  <2> SUFFICES ASSUME edits = 0
               PROVE  /\ engine' = card'
                      /\ Len(sems') <= 1 /\ \A t \in DOMAIN sems' : sems'[t].size = card'.pool
                      /\ \A q \in Requests :
                             /\ pc'[q] = "lock" => cap'[q] = card'.pool
                             /\ pc'[q] \in {"acquire", "queued"} => Measured(body[q])' <= cost'[q]
                             /\ held'[q] > 0 => Measured(body[q])' <= held'[q]
    BY DEF SteadyTells
  <2>1. engine' = card' /\ Len(sems') <= 1 /\ \A t \in DOMAIN sems' : sems'[t].size = card'.pool
    BY <1>2 DEF SteadyTells
  <2>2. ASSUME NEW q \in Requests
        PROVE  /\ pc'[q] = "lock" => cap'[q] = card'.pool
               /\ pc'[q] \in {"acquire", "queued"} => Measured(body[q])' <= cost'[q]
               /\ held'[q] > 0 => Measured(body[q])' <= held'[q]
    <3>1. Measured(body[q])' = Measured(body[q])
      BY DEF Measured, OutputReserve, Capped
    <3>2. /\ pc[q] = "lock" => cap[q] = card.pool
          /\ pc[q] \in {"acquire", "queued"} => Measured(body[q]) <= cost[q]
          /\ held[q] > 0 => Measured(body[q]) <= held[q]
      BY DEF SteadyTells
    <3>3. CASE q = r
      BY <1>3, <3>1, <3>2, <3>3
    <3>4. CASE q # r
      BY <1>3, <3>1, <3>2, <3>4
    <3> QED BY <3>3, <3>4
  <2> QED BY <2>1, <2>2
<1>9. Holders(s)' = Holders(s) \cup {r} /\ r \notin Holders(s)
  <2>1. r \notin Holders(s)
    BY <1>3 DEF Holders
  <2>2. ASSUME NEW q \in Requests
        PROVE  (on'[q] = s /\ held'[q] > 0) <=> ((on[q] = s /\ held[q] > 0) \/ q = r)
    BY <1>3
  <2> QED BY <2>1, <2>2 DEF Holders
<1>10. SumFunctionOnSet(held, Holders(s))' = sems[s].used + n
  <2>1. \A q \in Holders(s) : held'[q] = held[q] /\ held[q] \in Nat
    BY <1>3, <1>9, HoldersAre
  <2>2. IsFiniteSet(Holders(s))
    BY HoldersAre
  <2>3. SumFunctionOnSet(held, Holders(s)) = SumFunctionOnSet(held', Holders(s))
    BY <2>1, <2>2, TotalSame
  <2>4. SumFunctionOnSet(held', Holders(s) \cup {r}) = SumFunctionOnSet(held', Holders(s)) + held'[r]
    <3>1. \A q \in Holders(s) : held'[q] \in Nat
      BY <2>1
    <3>2. held'[r] \in Nat /\ r \notin Holders(s)
      BY <1>3, <1>9
    <3> QED BY <2>2, <3>1, <3>2, TotalAdd
  <2>5. sems[s].used = SumFunctionOnSet(held, Holders(s))
    BY <1>0 DEF RoomIsAccounted
  <2> QED BY <1>3, <1>9, <2>3, <2>4, <2>5
<1>11. ASSUME NEW t \in DOMAIN sems, t # s
       PROVE  /\ Holders(t)' = Holders(t)
              /\ SumFunctionOnSet(held, Holders(t))' = SumFunctionOnSet(held, Holders(t))
  <2>1. ASSUME NEW q \in Requests
        PROVE  (on'[q] = t /\ held'[q] > 0) <=> (on[q] = t /\ held[q] > 0)
    <3>1. CASE q = r
      BY <1>11, <3>1
    <3>2. CASE q # r
      BY <1>3, <3>2
    <3> QED BY <3>1, <3>2
  <2>2. Holders(t)' = Holders(t)
    BY <2>1 DEF Holders
  <2>3. \A q \in Holders(t) : held'[q] = held[q] /\ held[q] \in Nat
    BY <1>3, <1>11 DEF Holders, TypeOK
  <2>4. SumFunctionOnSet(held, Holders(t)) = SumFunctionOnSet(held', Holders(t))
    BY <2>3, HoldersAre, TotalSame
  <2> QED BY <2>2, <2>4
<1>12. RoomIsAccounted'
  <2> SUFFICES ASSUME NEW t \in DOMAIN sems
               PROVE  /\ sems'[t].used = SumFunctionOnSet(held, Holders(t))'
                      /\ sems'[t].used <= sems'[t].size
    BY <1>2 DEF RoomIsAccounted
  <2>1. CASE t = s
    BY <1>1, <1>2, <1>10, <2>1
  <2>2. CASE t # s
    BY <1>2, <1>11, <2>2 DEF RoomIsAccounted
  <2> QED BY <2>1, <2>2
<1>13. WaitsForSomebody'
  <2> SUFFICES ASSUME NEW t \in DOMAIN sems, sems'[t].queue # <<>>
               PROVE  Holders(t)' # {}
    BY <1>2 DEF WaitsForSomebody
  <2>1. CASE t = s
    BY <1>9, <2>1
  <2>2. CASE t # s
    BY <1>2, <1>11, <2>2 DEF WaitsForSomebody
  <2> QED BY <2>1, <2>2
<1> QED BY <1>4, <1>5, <1>6, <1>7, <1>8, <1>12, <1>13

(* One request goes on, and no room or line is touched. *)
LEMMA GoesOn ==
    ASSUME GateInv, NEW r \in Requests, TypeOK',
           UNCHANGED <<card, engine, sems, held, edits>>,
           \A q \in Requests : q # r =>
               /\ pc'[q] = pc[q] /\ body'[q] = body[q] /\ cap'[q] = cap[q]
               /\ on'[q] = on[q] /\ cost'[q] = cost[q],
           pc[r] # "queued", pc'[r] # "queued",
           pc'[r] \in {"size", "acquire"} =>
               on'[r] \in DOMAIN sems /\ cap'[r] = sems[on'[r]].size,
           pc'[r] = "acquire" => cost'[r] > 0,
           held[r] > 0 =>
               /\ pc'[r] \in {"atEngine", "cut"} /\ on'[r] = on[r] /\ body'[r] = body[r],
           edits = 0 =>
               /\ pc'[r] = "lock" => cap'[r] = card.pool
               /\ pc'[r] = "acquire" => Measured(body[r])' <= cost'[r]
    PROVE  GateInv'
<1> USE DEF GateInv
<1>1. AskersTell'
  <2> SUFFICES ASSUME NEW q \in Requests
               PROVE  /\ pc'[q] \in {"size", "acquire", "queued"} =>
                             on'[q] \in DOMAIN sems' /\ cap'[q] = sems'[on'[q]].size
                      /\ pc'[q] \in {"acquire", "queued"} => cost'[q] > 0
                      /\ pc'[q] = "queued" => cost'[q] <= cap'[q]
    BY DEF AskersTell
  <2>1. CASE q = r
    BY <2>1
  <2>2. CASE q # r
    BY <2>2 DEF AskersTell
  <2> QED BY <2>1, <2>2
<1>2. HoldersTell'
  <2> SUFFICES ASSUME NEW q \in Requests, held'[q] > 0
               PROVE  pc'[q] \in {"atEngine", "cut"} /\ on'[q] \in DOMAIN sems'
    BY DEF HoldersTell
  <2>1. CASE q = r
    BY <2>1 DEF HoldersTell
  <2>2. CASE q # r
    BY <2>2 DEF HoldersTell
  <2> QED BY <2>1, <2>2
<1>3. LinesTell'
  <2>1. ASSUME NEW t, NEW q \in Requests
        PROVE  (pc'[q] = "queued" /\ on'[q] = t) <=> (pc[q] = "queued" /\ on[q] = t)
    <3>1. CASE q = r
      BY <3>1
    <3>2. CASE q # r
      BY <3>2
    <3> QED BY <3>1, <3>2
  <2>2. \A t : Waiting(t)' = Waiting(t)
    BY <2>1 DEF Waiting
  <2> QED BY <2>2 DEF LinesTell
<1>4. SteadyTells'
  <2> SUFFICES ASSUME edits = 0
               PROVE  /\ engine' = card'
                      /\ Len(sems') <= 1 /\ \A t \in DOMAIN sems' : sems'[t].size = card'.pool
                      /\ \A q \in Requests :
                             /\ pc'[q] = "lock" => cap'[q] = card'.pool
                             /\ pc'[q] \in {"acquire", "queued"} => Measured(body[q])' <= cost'[q]
                             /\ held'[q] > 0 => Measured(body[q])' <= held'[q]
    BY DEF SteadyTells
  <2>1. engine' = card' /\ Len(sems') <= 1 /\ \A t \in DOMAIN sems' : sems'[t].size = card'.pool
    BY DEF SteadyTells
  <2>2. ASSUME NEW q \in Requests
        PROVE  /\ pc'[q] = "lock" => cap'[q] = card'.pool
               /\ pc'[q] \in {"acquire", "queued"} => Measured(body[q])' <= cost'[q]
               /\ held'[q] > 0 => Measured(body[q])' <= held'[q]
    <3>1. body'[q] = body[q] => Measured(body[q])' = Measured(body[q])
      BY DEF Measured, OutputReserve, Capped
    <3>2. /\ pc[q] = "lock" => cap[q] = card.pool
          /\ pc[q] \in {"acquire", "queued"} => Measured(body[q]) <= cost[q]
          /\ held[q] > 0 => Measured(body[q]) <= held[q]
      BY DEF SteadyTells
    <3>3. CASE q = r
      BY <3>1, <3>2, <3>3
    <3>4. CASE q # r
      BY <3>1, <3>2, <3>4
    <3> QED BY <3>3, <3>4
  <2> QED BY <2>1, <2>2
<1>5. \A q \in Requests : held[q] > 0 => on'[q] = on[q]
  OBVIOUS
<1>6. RoomIsAccounted'
  BY <1>5, RoomStands DEF RoomIsAccounted
<1>7. WaitsForSomebody'
  BY <1>5, RoomStands DEF WaitsForSomebody
<1> QED BY <1>1, <1>2, <1>3, <1>4, <1>6, <1>7

(* A request arrives, or passes an engine that needs no gate. *)
LEMMA ArriveKeeps ==
    ASSUME GateInv, NEW r \in Requests, Arrive(r)
    PROVE  GateInv'
<1> USE DEF GateInv
<1>1. PICK b \in Bodies : body' = [body EXCEPT ![r] = b]
  BY DEF Arrive
<1>2. /\ pc[r] = "away" /\ cap' = [cap EXCEPT ![r] = card.pool]
      /\ pc' = [pc EXCEPT ![r] = IF card.shared /\ card.pool > 0 THEN "lock" ELSE "atEngine"]
      /\ UNCHANGED <<card, engine, sems, on, cost, held, edits>>
  BY DEF Arrive, Move
<1>3. pc'[r] \in {"lock", "atEngine"} /\ \A q \in Requests : q # r => pc'[q] = pc[q]
  BY <1>2 DEF TypeOK
<1>4. /\ cap'[r] = card.pool
      /\ \A q \in Requests : q # r => cap'[q] = cap[q] /\ body'[q] = body[q]
  BY <1>1, <1>2 DEF TypeOK
<1>5. card.pool \in Nat
  BY CardsAssumption DEF TypeOK
<1>6. TypeOK'
  <2>1. body' \in [Requests -> Bodies \cup {NoBody}]
    BY <1>1 DEF TypeOK
  <2>2. cap' \in [Requests -> Nat]
    BY <1>2, <1>5 DEF TypeOK
  <2>3. pc' \in [Requests -> {"away", "lock", "size", "acquire", "queued", "atEngine",
                               "cut", "answered", "refused"}]
    BY <1>2 DEF TypeOK
  <2> QED BY <1>2, <2>1, <2>2, <2>3 DEF TypeOK
<1>7. ~(held[r] > 0)
  BY <1>2 DEF HoldersTell
<1> QED BY <1>2, <1>3, <1>4, <1>6, <1>7, GoesOn

(* A request is counted, and knows its charge. *)
LEMMA CountKeeps ==
    ASSUME GateInv, NEW r \in Requests, Count(r)
    PROVE  GateInv'
<1> USE DEF GateInv
<1>1. PICK n \in {Bound(body[r])} \cup (IF Countable(body[r]) THEN {Measured(body[r])} ELSE {}) :
          cost' = [cost EXCEPT ![r] = n]
  BY DEF Count
<1>2. /\ pc[r] = "size" /\ pc' = [pc EXCEPT ![r] = "acquire"]
      /\ UNCHANGED <<card, engine, sems, body, cap, on, held, edits>>
  BY DEF Count, Move
<1>3. n = Bound(body[r]) \/ (Countable(body[r]) /\ n = Measured(body[r]))
  BY <1>1
<1>4. n \in Nat \ {0} /\ Measured(body[r]) <= n
  <2>1. /\ Bound(body[r]) \in Nat \ {0} /\ Measured(body[r]) \in Nat \ {0}
        /\ Measured(body[r]) <= Bound(body[r])
    BY Charged
  <2> QED BY <1>3, <2>1
<1>5. cost'[r] = n /\ \A q \in Requests : q # r => cost'[q] = cost[q]
  BY <1>1 DEF TypeOK
<1>6. pc'[r] = "acquire" /\ \A q \in Requests : q # r => pc'[q] = pc[q]
  BY <1>2 DEF TypeOK
<1>7. TypeOK'
  <2>1. cost' \in [Requests -> Nat]
    BY <1>1, <1>4 DEF TypeOK
  <2>2. pc' \in [Requests -> {"away", "lock", "size", "acquire", "queued", "atEngine",
                               "cut", "answered", "refused"}]
    BY <1>2 DEF TypeOK
  <2> QED BY <1>2, <2>1, <2>2 DEF TypeOK
<1>8. ~(held[r] > 0)
  BY <1>2 DEF HoldersTell
<1>9. on'[r] \in DOMAIN sems /\ cap'[r] = sems[on'[r]].size
  BY <1>2 DEF AskersTell
<1>10. Measured(body[r])' = Measured(body[r])
  BY <1>2 DEF Measured, OutputReserve, Capped
<1>11. cost'[r] > 0 /\ Measured(body[r])' <= cost'[r]
  BY <1>4, <1>5, <1>10
<1> QED BY <1>2, <1>5, <1>6, <1>7, <1>8, <1>9, <1>11, GoesOn

(* One that could never fit is left to the engine. *)
LEMMA LetThroughKeeps ==
    ASSUME GateInv, NEW r \in Requests, LetThrough(r)
    PROVE  GateInv'
<1> USE DEF GateInv
<1>1. /\ pc[r] = "acquire" /\ pc' = [pc EXCEPT ![r] = "atEngine"]
      /\ UNCHANGED <<card, engine, sems, body, cap, on, cost, held, edits>>
  BY DEF LetThrough, Move
<1>2. pc'[r] = "atEngine" /\ \A q \in Requests : q # r => pc'[q] = pc[q]
  BY <1>1 DEF TypeOK
<1>3. TypeOK'
  BY <1>1 DEF TypeOK
<1> QED BY <1>1, <1>2, <1>3, GoesOn

(* A request that held nothing is answered. *)
LEMMA UnmeteredDone ==
    ASSUME GateInv, NEW r \in Requests, Done(r), held[r] = 0
    PROVE  GateInv'
<1> USE DEF GateInv
<1>1. /\ pc[r] \in {"atEngine", "cut"} /\ pc' = [pc EXCEPT ![r] = "answered"]
      /\ UNCHANGED <<card, engine, sems, held, edits>> /\ Forget(r)
  BY DEF Done, Move
<1>2. pc'[r] = "answered" /\ \A q \in Requests : q # r => pc'[q] = pc[q]
  BY <1>1 DEF TypeOK
<1>3. \A q \in Requests : q # r =>
          body'[q] = body[q] /\ cap'[q] = cap[q] /\ on'[q] = on[q] /\ cost'[q] = cost[q]
  BY <1>1, Forgotten
<1>4. Len(sems) \in Nat
  BY DEF TypeOK
<1>5. TypeOK'
  <2>1. pc' \in [Requests -> {"away", "lock", "size", "acquire", "queued", "atEngine",
                               "cut", "answered", "refused"}]
    BY <1>1 DEF TypeOK
  <2>2. /\ body' \in [Requests -> Bodies \cup {NoBody}] /\ cap' \in [Requests -> Nat]
        /\ on' \in [Requests -> 0..Len(sems)] /\ cost' \in [Requests -> Nat]
    BY <1>1, Forgotten
  <2> QED BY <1>1, <2>1, <2>2 DEF TypeOK
<1> QED BY <1>1, <1>2, <1>3, <1>5, GoesOn

(* A request is given the live semaphore, or one of the size it has read. *)
LEMMA LockKeeps ==
    ASSUME GateInv, NEW r \in Requests, Lock(r)
    PROVE  GateInv'
<1> USE DEF GateInv
<1> DEFINE R == [size : Nat, used : Nat, queue : Seq(Requests)]
           n == Len(sems)
           fresh == NewSemaphore(cap[r])
<1>1. /\ pc[r] = "lock" /\ sems' = Semaphore(r) /\ on' = [on EXCEPT ![r] = Len(sems')]
      /\ pc' = [pc EXCEPT ![r] = IF Generates(body[r]) THEN "size" ELSE "atEngine"]
      /\ UNCHANGED <<card, engine, body, cap, cost, held, edits>>
  BY DEF Lock, Move
<1>2. /\ sems \in Seq(R) /\ n \in Nat /\ DOMAIN sems = 1..n
      /\ cap[r] \in Nat
  BY DEF TypeOK
<1>3. fresh \in R /\ fresh.size = cap[r] /\ fresh.used = 0 /\ fresh.queue = <<>>
  BY <1>2 DEF NewSemaphore
<1> HIDE DEF fresh, R
<1>4. \/ sems' = Append(sems, fresh) /\ (sems = <<>> \/ sems[n].size # cap[r])
      \/ sems' = sems /\ n # 0 /\ sems[n].size = cap[r]
  <2>1. sems = <<>> <=> n = 0
    BY <1>2, EmptySeq
  <2> QED BY <1>1, <2>1 DEF Semaphore, Last, fresh
<1>5. /\ sems' \in Seq(R) /\ Len(sems') \in Nat \ {0} /\ n <= Len(sems')
      /\ DOMAIN sems' = 1..Len(sems') /\ sems'[Len(sems')].size = cap[r]
      /\ \A t \in 1..n : sems'[t] = sems[t]
      /\ \A t \in DOMAIN sems' : t \notin DOMAIN sems => t = n + 1 /\ sems'[t] = fresh
  <2>1. CASE sems' = Append(sems, fresh)
    <3>1. /\ sems' \in Seq(R) /\ Len(sems') = n + 1 /\ sems'[n + 1] = fresh
          /\ \A t \in 1..n : sems'[t] = sems[t]
      BY <1>2, <1>3, <2>1, AppendProperties
    <3>2. DOMAIN sems' = 1..(n + 1)
      BY <3>1
    <3>3. \A t \in DOMAIN sems' : t \notin DOMAIN sems => t = n + 1
      BY <1>2, <3>2
    <3> QED BY <1>2, <1>3, <3>1, <3>2, <3>3
  <2>2. CASE sems' = sems /\ n # 0 /\ sems[n].size = cap[r]
    BY <1>2, <2>2
  <2> QED BY <1>4, <2>1, <2>2
<1>6. /\ on'[r] = Len(sems') /\ \A q \in Requests : q # r => on'[q] = on[q]
      /\ on' \in [Requests -> 0..Len(sems')]
  <2>1. on \in [Requests -> 0..n]
    BY DEF TypeOK
  <2>2. \A q \in Requests : on[q] \in 0..Len(sems')
    BY <1>2, <1>5, <2>1
  <2>3. Len(sems') \in 0..Len(sems')
    BY <1>5
  <2> QED BY <1>1, <2>1, <2>2, <2>3
<1>7. /\ pc'[r] \in {"size", "atEngine"} /\ \A q \in Requests : q # r => pc'[q] = pc[q]
      /\ pc' \in [Requests -> {"away", "lock", "size", "acquire", "queued", "atEngine",
                               "cut", "answered", "refused"}]
  BY <1>1 DEF TypeOK
<1>8. TypeOK'
  BY <1>1, <1>5, <1>6, <1>7 DEF TypeOK, R
<1>9. held[r] = 0
  <2>1. held[r] \in Nat /\ ~(held[r] > 0)
    BY <1>1 DEF TypeOK, HoldersTell
  <2> QED BY <2>1
<1>10. AskersTell'
  <2> SUFFICES ASSUME NEW q \in Requests
               PROVE  /\ pc'[q] \in {"size", "acquire", "queued"} =>
                             on'[q] \in DOMAIN sems' /\ cap'[q] = sems'[on'[q]].size
                      /\ pc'[q] \in {"acquire", "queued"} => cost'[q] > 0
                      /\ pc'[q] = "queued" => cost'[q] <= cap'[q]
    BY DEF AskersTell
  <2>1. CASE q = r
    <3>1. on'[r] \in DOMAIN sems' /\ cap'[r] = sems'[on'[r]].size
      BY <1>1, <1>5, <1>6
    <3> QED BY <1>7, <2>1, <3>1
  <2>2. CASE q # r
    <3>1. pc'[q] = pc[q] /\ on'[q] = on[q] /\ cap'[q] = cap[q] /\ cost'[q] = cost[q]
      BY <1>1, <1>6, <1>7, <2>2
    <3>2. /\ pc[q] \in {"size", "acquire", "queued"} =>
                 on[q] \in DOMAIN sems /\ cap[q] = sems[on[q]].size
          /\ pc[q] \in {"acquire", "queued"} => cost[q] > 0
          /\ pc[q] = "queued" => cost[q] <= cap[q]
      BY DEF AskersTell
    <3>3. on[q] \in DOMAIN sems => on[q] \in DOMAIN sems' /\ sems'[on[q]] = sems[on[q]]
      BY <1>2, <1>5
    <3> QED BY <3>1, <3>2, <3>3
  <2> QED BY <2>1, <2>2
<1>11. HoldersTell'
  <2> SUFFICES ASSUME NEW q \in Requests, held'[q] > 0
               PROVE  pc'[q] \in {"atEngine", "cut"} /\ on'[q] \in DOMAIN sems'
    BY DEF HoldersTell
  <2>1. q # r /\ held[q] > 0
    BY <1>1, <1>9
  <2>2. pc[q] \in {"atEngine", "cut"} /\ on[q] \in 1..n
    BY <1>2, <2>1 DEF HoldersTell
  <2>3. on[q] \in DOMAIN sems'
    BY <1>2, <1>5, <2>2
  <2> QED BY <1>6, <1>7, <2>1, <2>2, <2>3
<1>12. \A t \in 1..n : Waiting(t)' = Waiting(t)
  <2>1. ASSUME NEW t \in 1..n, NEW q \in Requests
        PROVE  (pc'[q] = "queued" /\ on'[q] = t) <=> (pc[q] = "queued" /\ on[q] = t)
    <3>1. CASE q = r
      BY <1>1, <1>7, <3>1
    <3>2. CASE q # r
      BY <1>6, <1>7, <3>2
    <3> QED BY <3>1, <3>2
  <2> QED BY <2>1 DEF Waiting
<1>13. \A q \in Requests : on[q] # n + 1
  <2>1. \A q \in Requests : on[q] \in 0..n
    BY DEF TypeOK
  <2> QED BY <1>2, <2>1
<1>14. LinesTell'
  <2> SUFFICES ASSUME NEW t \in DOMAIN sems'
               PROVE  ToSet(sems'[t].queue) = Waiting(t)' /\ Once(sems'[t].queue)
    BY DEF LinesTell
  <2>1. CASE t \in DOMAIN sems
    BY <1>2, <1>5, <1>12, <2>1 DEF LinesTell
  <2>2. CASE t \notin DOMAIN sems
    <3>1. t = n + 1 /\ sems'[t].queue = <<>>
      BY <1>3, <1>5, <2>2
    <3>2. Waiting(t)' = {}
      <4>1. ASSUME NEW q \in Requests PROVE ~(pc'[q] = "queued" /\ on'[q] = n + 1)
        BY <1>6, <1>7, <1>13
      <4> QED BY <3>1, <4>1 DEF Waiting
    <3>3. ToSet(<<>>) = {} /\ Once(<<>>)
      BY DEF ToSet, Once
    <3> QED BY <3>1, <3>2, <3>3
  <2> QED BY <2>1, <2>2
<1>15. SteadyTells'
  <2> SUFFICES ASSUME edits = 0
               PROVE  /\ engine' = card'
                      /\ Len(sems') <= 1 /\ \A t \in DOMAIN sems' : sems'[t].size = card'.pool
                      /\ \A q \in Requests :
                             /\ pc'[q] = "lock" => cap'[q] = card'.pool
                             /\ pc'[q] \in {"acquire", "queued"} => Measured(body[q])' <= cost'[q]
                             /\ held'[q] > 0 => Measured(body[q])' <= held'[q]
    BY <1>1 DEF SteadyTells
  <2>1. /\ engine = card /\ n <= 1 /\ \A t \in DOMAIN sems : sems[t].size = card.pool
        /\ cap[r] = card.pool
    BY <1>1 DEF SteadyTells
  <2>2. Len(sems') <= 1 /\ \A t \in DOMAIN sems' : sems'[t].size = card.pool
    <3>1. CASE n = 0
      <4>1. Len(sems') = 1
        BY <1>2, <1>3, <1>4, <3>1, AppendProperties
      <4> QED BY <1>5, <2>1, <4>1
    <3>2. CASE n # 0
      <4>1. sems[n].size = cap[r] /\ sems # <<>>
        BY <1>2, <2>1, <3>2
      <4>2. sems' = sems
        BY <1>4, <4>1
      <4> QED BY <2>1, <4>2
    <3> QED BY <3>1, <3>2
  <2>3. ASSUME NEW q \in Requests
        PROVE  /\ pc'[q] = "lock" => cap'[q] = card'.pool
               /\ pc'[q] \in {"acquire", "queued"} => Measured(body[q])' <= cost'[q]
               /\ held'[q] > 0 => Measured(body[q])' <= held'[q]
    <3>1. Measured(body[q])' = Measured(body[q])
      BY <1>1 DEF Measured, OutputReserve, Capped
    <3>2. /\ pc[q] = "lock" => cap[q] = card.pool
          /\ pc[q] \in {"acquire", "queued"} => Measured(body[q]) <= cost[q]
          /\ held[q] > 0 => Measured(body[q]) <= held[q]
      BY DEF SteadyTells
    <3>3. CASE q = r
      BY <1>1, <1>7, <3>1, <3>2, <3>3
    <3>4. CASE q # r
      BY <1>1, <1>7, <3>1, <3>2, <3>4
    <3> QED BY <3>3, <3>4
  <2> QED BY <1>1, <2>1, <2>2, <2>3
<1>16. \A q \in Requests : held[q] > 0 => on'[q] = on[q]
  BY <1>6, <1>9
<1>17. RoomIsAccounted'
  <2> SUFFICES ASSUME NEW t \in DOMAIN sems'
               PROVE  /\ sems'[t].used = SumFunctionOnSet(held, Holders(t))'
                      /\ sems'[t].used <= sems'[t].size
    BY DEF RoomIsAccounted
  <2>1. CASE t \in DOMAIN sems
    BY <1>1, <1>2, <1>5, <1>16, <2>1, RoomStands DEF RoomIsAccounted
  <2>2. CASE t \notin DOMAIN sems
    <3>1. t = n + 1 /\ sems'[t].used = 0 /\ sems'[t].size = cap[r]
      BY <1>3, <1>5, <2>2
    <3>2. Holders(t) = {}
      BY <1>13, <3>1 DEF Holders
    <3>3. SumFunctionOnSet(held, Holders(t))' = 0
      BY <1>1, <1>16, <3>2, RoomStands, TotalEmpty
    <3> QED BY <1>2, <3>1, <3>3
  <2> QED BY <2>1, <2>2
<1>18. WaitsForSomebody'
  <2> SUFFICES ASSUME NEW t \in DOMAIN sems', sems'[t].queue # <<>>
               PROVE  Holders(t)' # {}
    BY DEF WaitsForSomebody
  <2>1. CASE t \in DOMAIN sems
    BY <1>1, <1>2, <1>5, <1>16, <2>1, RoomStands DEF WaitsForSomebody
  <2>2. CASE t \notin DOMAIN sems
    BY <1>3, <1>5, <2>2
  <2> QED BY <2>1, <2>2
<1> QED BY <1>8, <1>10, <1>11, <1>14, <1>15, <1>17, <1>18

(* A request joins the line of its semaphore. *)
LEMMA Queued ==
    ASSUME GateInv, NEW r \in Requests, pc[r] = "acquire", ~TooLarge(r),
           ~GrantsNow(on[r], cost[r]),
           sems' = [sems EXCEPT ![on[r]].queue = Append(@, r)], Move(r, "queued"),
           UNCHANGED <<card, engine, body, cap, on, cost, held, edits>>
    PROVE  GateInv'
<1> USE DEF GateInv
<1> DEFINE s == on[r]
<1>0. s \in DOMAIN sems /\ cap[r] = sems[s].size /\ cost[r] > 0
  BY DEF AskersTell
<1>1. /\ s \in Nat \ {0} /\ s <= Len(sems) /\ Len(sems) \in Nat
      /\ sems[s] \in [size : Nat, used : Nat, queue : Seq(Requests)]
      /\ sems[s].size \in Nat /\ sems[s].used \in Nat /\ sems[s].queue \in Seq(Requests)
      /\ cost[r] \in Nat /\ cost[r] <= sems[s].size
  <2>1. cost[r] \in Nat /\ cap[r] \in Nat /\ ~(cost[r] > cap[r])
    BY DEF TypeOK, TooLarge
  <2>2. cost[r] <= sems[s].size
    BY <1>0, <2>1
  <2> QED BY <1>0, <2>1, <2>2, SemaphoreIs
<1>2. /\ ToSet(sems[s].queue) = Waiting(s) /\ Once(sems[s].queue) /\ r \notin Waiting(s)
  BY <1>0 DEF LinesTell, Waiting
<1>3. /\ Append(sems[s].queue, r) \in Seq(Requests) /\ Once(Append(sems[s].queue, r))
      /\ ToSet(Append(sems[s].queue, r)) = ToSet(sems[s].queue) \cup {r}
  BY <1>1, <1>2, JoinsLine
<1>4. /\ DOMAIN sems' = DOMAIN sems /\ Len(sems') = Len(sems)
      /\ \A t \in DOMAIN sems : sems'[t].size = sems[t].size /\ sems'[t].used = sems[t].used
      /\ \A t \in DOMAIN sems : t # s => sems'[t] = sems[t]
      /\ sems'[s].queue = Append(sems[s].queue, r)
      /\ sems' \in Seq([size : Nat, used : Nat, queue : Seq(Requests)])
  <2> DEFINE R == [size : Nat, used : Nat, queue : Seq(Requests)]
             line == Append(sems[s].queue, r)
             new == [sems[s] EXCEPT !.queue = line]
  <2>1. sems \in Seq(R) /\ DOMAIN sems = 1..Len(sems)
    BY DEF TypeOK
  <2>3. sems' = [sems EXCEPT ![s] = new]
    OBVIOUS
  <2>6. line \in Seq(Requests)
    BY <1>3
  <2> HIDE DEF line
  <2>2. /\ new \in R /\ new.size = sems[s].size /\ new.used = sems[s].used
        /\ new.queue = line
    BY ONLY <1>1, <2>6
  <2> HIDE DEF new, R
  <2>4. sems' \in Seq(R) /\ Len(sems') = Len(sems) /\ DOMAIN sems' = DOMAIN sems
    BY <1>0, <2>1, <2>2, <2>3
  <2>5. \A t \in DOMAIN sems : sems'[t] = IF t = s THEN new ELSE sems[t]
    BY <1>0, <2>1, <2>3
  <2> QED BY <1>0, <2>2, <2>4, <2>5 DEF R, line
<1>5. /\ pc'[r] = "queued" /\ \A q \in Requests : q # r => pc'[q] = pc[q]
      /\ pc' \in [Requests -> {"away", "lock", "size", "acquire", "queued", "atEngine",
                               "cut", "answered", "refused"}]
  BY DEF Move, TypeOK
<1>6. TypeOK'
  BY <1>4, <1>5 DEF TypeOK
<1>7. AskersTell'
  <2> SUFFICES ASSUME NEW q \in Requests
               PROVE  /\ pc'[q] \in {"size", "acquire", "queued"} =>
                             on'[q] \in DOMAIN sems' /\ cap'[q] = sems'[on'[q]].size
                      /\ pc'[q] \in {"acquire", "queued"} => cost'[q] > 0
                      /\ pc'[q] = "queued" => cost'[q] <= cap'[q]
    BY DEF AskersTell
  <2>1. CASE q = r
    <3>1. on'[q] \in DOMAIN sems' /\ cap'[q] = sems'[on'[q]].size
      BY <1>0, <1>4, <2>1
    <3>2. cost'[q] > 0 /\ cost'[q] <= cap'[q]
      BY <1>0, <1>1, <2>1
    <3> QED BY <3>1, <3>2
  <2>2. CASE q # r
    <3>1. pc'[q] = pc[q]
      BY <1>5, <2>2
    <3>2. /\ pc[q] \in {"size", "acquire", "queued"} =>
                 on[q] \in DOMAIN sems /\ cap[q] = sems[on[q]].size
          /\ pc[q] \in {"acquire", "queued"} => cost[q] > 0
          /\ pc[q] = "queued" => cost[q] <= cap[q]
      BY DEF AskersTell
    <3>3. on[q] \in DOMAIN sems =>
             on[q] \in DOMAIN sems' /\ sems'[on[q]].size = sems[on[q]].size
      BY <1>4
    <3> QED BY <3>1, <3>2, <3>3
  <2> QED BY <2>1, <2>2
<1>8. HoldersTell'
  <2> SUFFICES ASSUME NEW q \in Requests, held'[q] > 0
               PROVE  pc'[q] \in {"atEngine", "cut"} /\ on'[q] \in DOMAIN sems'
    BY DEF HoldersTell
  <2>1. q # r
    BY DEF HoldersTell
  <2> QED BY <1>4, <1>5, <2>1 DEF HoldersTell
<1>9. LinesTell'
  <2> SUFFICES ASSUME NEW t \in DOMAIN sems
               PROVE  ToSet(sems'[t].queue) = Waiting(t)' /\ Once(sems'[t].queue)
    BY <1>4 DEF LinesTell
  <2>1. CASE t = s
    <3>1. Waiting(s)' = Waiting(s) \cup {r}
      <4>1. ASSUME NEW q \in Requests
            PROVE  (pc'[q] = "queued" /\ on'[q] = s) <=>
                   ((pc[q] = "queued" /\ on[q] = s) \/ q = r)
        <5>1. CASE q = r
          BY <1>5, <5>1
        <5>2. CASE q # r
          BY <1>5, <5>2
        <5> QED BY <5>1, <5>2
      <4> QED BY <4>1 DEF Waiting
    <3> QED BY <1>2, <1>3, <1>4, <2>1, <3>1
  <2>2. CASE t # s
    <3>1. Waiting(t)' = Waiting(t)
      <4>1. ASSUME NEW q \in Requests
            PROVE  (pc'[q] = "queued" /\ on'[q] = t) <=> (pc[q] = "queued" /\ on[q] = t)
        <5>1. CASE q = r
          BY <2>2, <5>1
        <5>2. CASE q # r
          BY <1>5, <5>2
        <5> QED BY <5>1, <5>2
      <4> QED BY <4>1 DEF Waiting
    <3> QED BY <1>4, <2>2, <3>1 DEF LinesTell
  <2> QED BY <2>1, <2>2
<1>10. SteadyTells'
  <2> SUFFICES ASSUME edits = 0
               PROVE  /\ engine' = card'
                      /\ Len(sems') <= 1 /\ \A t \in DOMAIN sems' : sems'[t].size = card'.pool
                      /\ \A q \in Requests :
                             /\ pc'[q] = "lock" => cap'[q] = card'.pool
                             /\ pc'[q] \in {"acquire", "queued"} => Measured(body[q])' <= cost'[q]
                             /\ held'[q] > 0 => Measured(body[q])' <= held'[q]
    BY DEF SteadyTells
  <2>1. engine' = card' /\ Len(sems') <= 1 /\ \A t \in DOMAIN sems' : sems'[t].size = card'.pool
    BY <1>4 DEF SteadyTells
  <2>2. ASSUME NEW q \in Requests
        PROVE  /\ pc'[q] = "lock" => cap'[q] = card'.pool
               /\ pc'[q] \in {"acquire", "queued"} => Measured(body[q])' <= cost'[q]
               /\ held'[q] > 0 => Measured(body[q])' <= held'[q]
    <3>1. Measured(body[q])' = Measured(body[q])
      BY DEF Measured, OutputReserve, Capped
    <3>2. /\ pc[q] = "lock" => cap[q] = card.pool
          /\ pc[q] \in {"acquire", "queued"} => Measured(body[q]) <= cost[q]
          /\ held[q] > 0 => Measured(body[q]) <= held[q]
      BY DEF SteadyTells
    <3>3. CASE q = r
      BY <1>5, <3>1, <3>2, <3>3
    <3>4. CASE q # r
      BY <1>5, <3>1, <3>2, <3>4
    <3> QED BY <3>3, <3>4
  <2> QED BY <2>1, <2>2
<1>11. RoomIsAccounted'
  BY <1>4, RoomStands, ZenonT(60) DEF RoomIsAccounted
<1>12. WaitsForSomebody'
  <2> SUFFICES ASSUME NEW t \in DOMAIN sems, sems'[t].queue # <<>>
               PROVE  Holders(t) # {}
    BY <1>4, RoomStands, ZenonT(60) DEF WaitsForSomebody
  <2>1. CASE t # s \/ sems[t].queue # <<>>
    BY <1>4, <2>1 DEF WaitsForSomebody
  <2>2. CASE t = s /\ sems[t].queue = <<>>
    <3>1. ~(sems[s].used + cost[r] <= sems[s].size)
      BY <2>2 DEF GrantsNow
    <3>2. sems[s].used # 0
      BY <1>1, <3>1
    <3>3. sems[s].used = SumFunctionOnSet(held, Holders(s))
      BY <1>0 DEF RoomIsAccounted
    <3>4. Holders(s) # {}
      BY <3>2, <3>3, TotalEmpty
    <3> QED BY <2>2, <3>4
  <2> QED BY <2>1, <2>2
<1> QED BY <1>6, <1>7, <1>8, <1>9, <1>10, <1>11, <1>12

(* The fast path: the bound fits by a wide margin. *)
LEMMA AdmitKeeps ==
    ASSUME GateInv, NEW r \in Requests, Admit(r)
    PROVE  GateInv'
<1>1. TypeOK
  BY DEF GateInv
<1>2. Bound(body[r]) \in Nat \ {0} /\ Measured(body[r]) <= Bound(body[r])
  BY <1>1, Charged
<1>3. /\ pc[r] = "size" /\ GrantsNow(on[r], Bound(body[r])) /\ Take(r, Bound(body[r]))
      /\ Move(r, "atEngine") /\ UNCHANGED <<card, engine, body, cap, on, cost, edits>>
  BY DEF Admit
<1> QED BY <1>2, <1>3, Taken

(* A request asks for its charge, and is granted it or waits. *)
LEMMA AcquireKeeps ==
    ASSUME GateInv, NEW r \in Requests, Acquire(r)
    PROVE  GateInv'
<1>1. /\ pc[r] = "acquire" /\ ~TooLarge(r)
      /\ UNCHANGED <<card, engine, body, cap, on, cost, edits>>
  BY DEF Acquire
<1>2. cost[r] \in Nat \ {0} /\ (edits = 0 => Measured(body[r]) <= cost[r])
  <2>1. cost[r] \in Nat /\ cost[r] > 0
    BY <1>1 DEF GateInv, TypeOK, AskersTell
  <2>2. edits = 0 => Measured(body[r]) <= cost[r]
    BY <1>1 DEF GateInv, SteadyTells
  <2> QED BY <2>1, <2>2
<1>3. CASE GrantsNow(on[r], cost[r])
  <2>1. Take(r, cost[r]) /\ Move(r, "atEngine")
    BY <1>3 DEF Acquire
  <2> QED BY <1>1, <1>2, <1>3, <2>1, Taken
<1>4. CASE ~GrantsNow(on[r], cost[r])
  <2>1. /\ sems' = [sems EXCEPT ![on[r]].queue = Append(@, r)]
        /\ Move(r, "queued") /\ UNCHANGED held
    BY <1>4 DEF Acquire
  <2>2. UNCHANGED <<card, engine, body, cap, on, cost, held, edits>>
    BY <1>1, <2>1
  <2> QED BY <1>1, <1>4, <2>1, <2>2, Queued
<1> QED BY <1>3, <1>4

(* A request gives up its place. *)
LEMMA TimeOutKeeps ==
    ASSUME GateInv, NEW r \in Requests, TimeOut(r)
    PROVE  GateInv'
<1> USE DEF GateInv
<1> DEFINE s == on[r]
           queue == sems[s].queue
<1>1. PICK i \in DOMAIN queue :
          queue[i] = r /\ Settle(s, sems[s].used, RemoveAt(queue, i), r, "refused")
  BY DEF TimeOut
<1>2. pc[r] = "queued" /\ Forget(r) /\ UNCHANGED <<card, engine, edits>>
  BY DEF TimeOut
<1>3. s \in DOMAIN sems
  BY <1>2 DEF AskersTell
<1>4. sems[s].used \in Nat /\ sems[s].size \in Nat /\ queue \in Seq(Requests)
  BY <1>3, SemaphoreIs
<1>5. ToSet(queue) = Waiting(s) /\ Once(queue)
  BY <1>3 DEF LinesTell
<1>6. i \in 1..Len(queue)
  BY <1>4
<1> DEFINE left == RemoveAt(queue, i)
<1>7. left = RemoveAt(queue, i)
  OBVIOUS
<1> HIDE DEF queue, left
<1>8. left \in Seq(Requests) /\ Once(left) /\ ToSet(left) = ToSet(queue) \ {queue[i]}
  BY <1>4, <1>5, <1>6, <1>7, LeavesLine
<1>9. Holders(s) \ {r} = Holders(s)
  <2>1. ~(held[r] > 0)
    BY <1>2 DEF HoldersTell
  <2> QED BY <2>1 DEF Holders
<1>10. /\ sems[s].used = SumFunctionOnSet(held, Holders(s) \ {r})
       /\ sems[s].used <= sems[s].size
  BY <1>3, <1>9 DEF RoomIsAccounted
<1>11. ToSet(left) = Waiting(s) \ {r}
  BY <1>1, <1>5, <1>8
<1>12. Settle(s, sems[s].used, left, r, "refused")
  BY <1>1, <1>7
<1> QED BY <1>2, <1>3, <1>4, <1>8, <1>10, <1>11, <1>12, Settled

(* A handler returns, and the reservation with it. *)
LEMMA DoneKeeps ==
    ASSUME GateInv, NEW r \in Requests, Done(r)
    PROVE  GateInv'
<1> USE DEF GateInv
<1>0. held[r] \in Nat
  BY DEF TypeOK
<1>1. CASE held[r] = 0
  BY <1>1, UnmeteredDone
<1>2. CASE held[r] # 0
  <2> DEFINE s == on[r]
             rest == Holders(s) \ {r}
  <2>1. /\ pc[r] \in {"atEngine", "cut"} /\ Forget(r) /\ UNCHANGED <<card, engine, edits>>
        /\ Settle(s, sems[s].used - held[r], sems[s].queue, r, "answered")
    BY <1>2 DEF Done, Release
  <2>2. held[r] > 0
    BY <1>0, <1>2
  <2>3. s \in DOMAIN sems
    BY <2>2 DEF HoldersTell
  <2>4. sems[s].used \in Nat /\ sems[s].size \in Nat /\ sems[s].queue \in Seq(Requests)
    BY <2>3, SemaphoreIs
  <2>5. r \in Holders(s)
    BY <2>2 DEF Holders
  <2>6. SumFunctionOnSet(held, Holders(s)) = held[r] + SumFunctionOnSet(held, rest)
    BY <2>5, HoldersAre, TotalRemove
  <2>7. SumFunctionOnSet(held, rest) \in Nat
    <3>1. IsFiniteSet(rest) /\ \A q \in rest : held[q] \in Nat
      BY HoldersAre, FS_RemoveElement
    <3> QED BY <3>1, TotalType
  <2>8. sems[s].used = SumFunctionOnSet(held, Holders(s)) /\ sems[s].used <= sems[s].size
    BY <2>3 DEF RoomIsAccounted
  <2> DEFINE used == sems[s].used - held[r]
  <2>9. used \in Nat /\ used = SumFunctionOnSet(held, rest) /\ used <= sems[s].size
    BY <1>0, <2>4, <2>6, <2>7, <2>8
  <2>10. ToSet(sems[s].queue) = Waiting(s) \ {r} /\ Once(sems[s].queue)
    <3>1. r \notin Waiting(s)
      BY <2>1 DEF Waiting
    <3> QED BY <2>3, <3>1 DEF LinesTell
  <2>11. Settle(s, used, sems[s].queue, r, "answered")
    BY <2>1
  <2> HIDE DEF used
  <2> QED BY <2>1, <2>3, <2>4, <2>9, <2>10, <2>11, Settled
<1> QED BY <1>1, <1>2

(* The card is edited: nothing in flight changes. *)
LEMMA EditKeeps ==
    ASSUME GateInv, Edit
    PROVE  GateInv'
<1> USE DEF GateInv
<1>1. /\ card' \in Cards /\ edits < MaxEdits /\ edits' = edits + 1
      /\ UNCHANGED <<engine, sems, pc, body, cap, on, cost, held>>
  BY DEF Edit
<1>2. edits' \in 0..MaxEdits /\ edits' # 0
  BY <1>1, CardsAssumption DEF TypeOK
<1>3. TypeOK'
  BY <1>1, <1>2 DEF TypeOK
<1>4. AskersTell' /\ HoldersTell'
  BY <1>1 DEF AskersTell, HoldersTell
<1>5. LinesTell'
  BY <1>1 DEF LinesTell, Waiting
<1>6. SteadyTells'
  BY <1>2 DEF SteadyTells
<1>7. RoomIsAccounted' /\ WaitsForSomebody'
  BY <1>1, RoomStands DEF RoomIsAccounted, WaitsForSomebody
<1> QED BY <1>3, <1>4, <1>5, <1>6, <1>7

(* The engine is relaunched: what it was answering is cut, and holds its   *)
(* room until the handler returns.                                         *)
LEMMA RelaunchKeeps ==
    ASSUME GateInv, Relaunch
    PROVE  GateInv'
<1> USE DEF GateInv
<1>1. /\ engine # card /\ engine' = card
      /\ pc' = [r \in Requests |-> IF pc[r] = "atEngine" THEN "cut" ELSE pc[r]]
      /\ UNCHANGED <<card, sems, body, cap, on, cost, held, edits>>
  BY DEF Relaunch
<1>2. TypeOK'
  <2>1. pc' \in [Requests -> {"away", "lock", "size", "acquire", "queued", "atEngine",
                               "cut", "answered", "refused"}]
    BY <1>1 DEF TypeOK
  <2> QED BY <1>1, <2>1 DEF TypeOK
<1>3. \A q \in Requests : pc'[q] = pc[q] \/ (pc[q] = "atEngine" /\ pc'[q] = "cut")
  BY <1>1
<1>4. AskersTell'
  BY <1>1, <1>3 DEF AskersTell
<1>5. HoldersTell'
  BY <1>1, <1>3 DEF HoldersTell
<1>6. LinesTell'
  <2>1. \A t : Waiting(t)' = Waiting(t)
    BY <1>1, <1>3 DEF Waiting
  <2> QED BY <1>1, <2>1 DEF LinesTell
<1>7. SteadyTells'
  BY <1>1 DEF SteadyTells
<1>8. RoomIsAccounted' /\ WaitsForSomebody'
  BY <1>1, RoomStands DEF RoomIsAccounted, WaitsForSomebody
<1> QED BY <1>2, <1>4, <1>5, <1>6, <1>7, <1>8

-----------------------------------------------------------------------------
(* Nothing is in flight at the start. *)
LEMMA GateInit == Init => GateInv
<1> SUFFICES ASSUME Init PROVE GateInv
  OBVIOUS
<1> USE DEF Init
<1>1. TypeOK
  BY CardsAssumption DEF TypeOK
<1>2. DOMAIN sems = {} /\ Len(sems) = 0
  OBVIOUS
<1>3. AskersTell /\ HoldersTell
  BY DEF AskersTell, HoldersTell
<1>4. LinesTell /\ RoomIsAccounted /\ WaitsForSomebody
  BY <1>2 DEF LinesTell, RoomIsAccounted, WaitsForSomebody
<1>5. SteadyTells
  BY <1>2 DEF SteadyTells
<1> QED BY <1>1, <1>3, <1>4, <1>5 DEF GateInv

(* Every step of the gate, the card and the engine keeps the invariant. *)
LEMMA GateInvariant == Spec => []GateInv
<1>1. GateInv /\ [Next]_vars => GateInv'
  <2> SUFFICES ASSUME GateInv, [Next]_vars PROVE GateInv'
    OBVIOUS
  <2>1. ASSUME NEW r \in Requests, Arrive(r) \/ Steps(r) \/ TimeOut(r) \/ Done(r)
        PROVE  GateInv'
    BY <2>1, ArriveKeeps, LockKeeps, AdmitKeeps, CountKeeps, LetThroughKeeps,
       AcquireKeeps, TimeOutKeeps, DoneKeeps DEF Steps
  <2>2. CASE Edit
    BY <2>2, EditKeeps
  <2>3. CASE Relaunch
    BY <2>3, RelaunchKeeps
  <2>4. CASE UNCHANGED vars
    <3>1. UNCHANGED <<card, engine, sems, pc, body, cap, on, cost, held, edits>>
      BY <2>4
    <3>2. TypeOK' /\ AskersTell' /\ HoldersTell'
      BY <3>1 DEF GateInv, TypeOK, AskersTell, HoldersTell
    <3>3. LinesTell'
      BY <3>1 DEF GateInv, LinesTell, Waiting
    <3>4. SteadyTells'
      BY <3>1 DEF GateInv, SteadyTells, Measured, OutputReserve, Capped
    <3>5. RoomIsAccounted' /\ WaitsForSomebody'
      BY <3>1, RoomStands DEF GateInv, RoomIsAccounted, WaitsForSomebody
    <3> QED BY <3>2, <3>3, <3>4, <3>5 DEF GateInv
  <2> QED BY <2>1, <2>2, <2>3, <2>4 DEF Next
<1> QED BY <1>1, GateInit, PTL DEF Spec

(* The room a semaphore says is taken is the room its holders hold, and    *)
(* never more than there is: whatever the order of arrivals, refusals,     *)
(* answers, edits and relaunches, every reservation is given back once     *)
(* (Guard.admit, releaseOnce).                                             *)
THEOREM RoomStaysAccounted == Spec => []RoomIsAccounted
<1>1. GateInv => RoomIsAccounted
  BY DEF GateInv
<1> QED BY <1>1, GateInvariant, PTL

(* Nobody waits at a door behind which nobody stands: the line moves when  *)
(* room is given back and when its head gives up, as far as it can.        *)
THEOREM WaitersHaveCause == Spec => []WaitsForSomebody
<1>1. GateInv => WaitsForSomebody
  BY DEF GateInv
<1> QED BY <1>1, GateInvariant, PTL

(* While the card stands, all the metered requests at the engine together  *)
(* cannot make it keep more than the pool it was launched with.            *)
THEOREM SteadyPoolIsKept == Spec => []SteadyPoolHolds
<1>1. GateInv => SteadyPoolHolds
  <2> SUFFICES ASSUME GateInv, edits = 0 PROVE Promised <= engine.pool
    BY DEF SteadyPoolHolds, PoolNotOverpromised
  <2> USE DEF GateInv
  <2> DEFINE m == [r \in Metered |-> Measured(body[r])]
  <2>1. /\ engine = card /\ Len(sems) <= 1 /\ card.pool \in Nat
        /\ \A s \in DOMAIN sems : sems[s].size = card.pool
    BY CardsAssumption DEF SteadyTells, TypeOK
  <2>2. Metered \subseteq Requests
    BY DEF Metered
  <2>3. IsFiniteSet(Metered)
    BY <2>2, RequestsAssumption, FS_Subset
  <2>4. \A r \in Metered : m[r] \in Nat /\ held[r] \in Nat /\ m[r] <= held[r]
    <3>1. ASSUME NEW r \in Metered
          PROVE  m[r] \in Nat /\ held[r] \in Nat /\ m[r] <= held[r]
      <4>1. r \in Requests /\ held[r] > 0 /\ held[r] \in Nat
        BY DEF Metered, TypeOK
      <4>2. Measured(body[r]) \in Nat
        BY <4>1, Charged
      <4>3. Measured(body[r]) <= held[r]
        BY <4>1 DEF SteadyTells
      <4> QED BY <4>1, <4>2, <4>3
    <3> QED BY <3>1
  <2>5. Promised <= SumFunctionOnSet(held, Metered)
    <3>1. Promised = SumFunctionOnSet(m, Metered)
      BY DEF Promised
    <3> HIDE DEF m
    <3> QED BY <2>3, <2>4, <3>1, TotalCompare
  <2>6. Promised \in Nat
    <3>1. Promised = SumFunctionOnSet(m, Metered)
      BY DEF Promised
    <3> HIDE DEF m
    <3> QED BY <2>3, <2>4, <3>1, TotalType
  <2>7. CASE Metered = {}
    BY <2>1, <2>5, <2>6, <2>7, TotalEmpty
  <2>8. CASE Metered # {}
    <3>1. \A r \in Metered : on[r] \in DOMAIN sems
      BY <2>2 DEF HoldersTell, Metered
    <3>2. DOMAIN sems = 1..Len(sems) /\ Len(sems) \in Nat
      BY DEF TypeOK
    <3>3. 1 \in DOMAIN sems /\ \A r \in Metered : on[r] = 1
      BY <2>1, <2>8, <3>1, <3>2
    <3>4. Metered \subseteq Holders(1)
      BY <2>2, <3>3 DEF Metered, Holders
    <3> DEFINE others == Holders(1) \ Metered
    <3>5. /\ IsFiniteSet(others) /\ Metered \cup others = Holders(1) /\ Metered \cap others = {}
          /\ \A r \in Metered \cup others : held[r] \in Nat
      BY <3>4, HoldersAre, FS_Difference
    <3> HIDE DEF others
    <3>6. SumFunctionOnSet(held, Metered \cup others) =
              SumFunctionOnSet(held, Metered) + SumFunctionOnSet(held, others)
      BY <2>3, <3>5, TotalUnion
    <3>7. SumFunctionOnSet(held, Metered) \in Nat /\ SumFunctionOnSet(held, others) \in Nat
      BY <2>3, <3>5, TotalType
    <3>8. SumFunctionOnSet(held, Holders(1)) = sems[1].used /\ sems[1].used <= card.pool
      BY <2>1, <3>3 DEF RoomIsAccounted
    <3>9. SumFunctionOnSet(held, Metered) + SumFunctionOnSet(held, others) <= card.pool
      BY <3>5, <3>6, <3>8
    <3> QED BY <2>1, <2>5, <2>6, <3>7, <3>9
  <2> QED BY <2>7, <2>8
<1> QED BY <1>1, GateInvariant, PTL

-----------------------------------------------------------------------------
(***************************************************************************)
(* The card.  What a bar prints.                                           *)
(***************************************************************************)

(* A quotient is a number, and grows with what is divided.                 *)
LEMMA Quotient == ASSUME NEW a \in Nat, NEW g \in Nat \ {0}
    PROVE /\ a \div g \in Nat
          /\ (a \div g) * g <= a /\ a < (a \div g + 1) * g
OBVIOUS

(* A quotient grows with what is divided.                                  *)
LEMMA QuotientGrows ==
    ASSUME NEW a \in Nat, NEW b \in Nat, a <= b, NEW g \in Nat \ {0}
    PROVE  a \div g <= b \div g
<1> DEFINE qa == a \div g
           qb == b \div g
<1>1. /\ qa \in Nat /\ qb \in Nat
      /\ qa * g <= a /\ b < (qb + 1) * g
  BY Quotient
<1> HIDE DEF qa, qb
<1>2. SUFFICES ASSUME qb < qa PROVE FALSE
  BY <1>1 DEF qa, qb
<1>3. PICK d \in Nat : qa = (qb + 1) + d
  <2>1. qa - (qb + 1) \in Nat /\ qa = (qb + 1) + (qa - (qb + 1))
    BY <1>1, <1>2
  <2> QED BY <2>1
<1>4. qa * g = (qb + 1) * g + d * g /\ d * g \in Nat /\ (qb + 1) * g \in Nat /\ qa * g \in Nat
  BY <1>1, <1>3
<1> QED BY <1>1, <1>4

(* A product grows with its factors.                                       *)
LEMMA ProductGrows ==
    ASSUME NEW a \in Nat, NEW b \in Nat, a <= b, NEW g \in Nat
    PROVE  a * g \in Nat /\ b * g \in Nat /\ a * g <= b * g
<1>1. PICK d \in Nat : b = a + d
  <2>1. b - a \in Nat /\ b = a + (b - a)
    OBVIOUS
  <2> QED BY <2>1
<1>2. b * g = a * g + d * g /\ d * g \in Nat /\ a * g \in Nat
  BY <1>1
<1> QED BY <1>2

(* A printed count is a count, nothing prints as nothing, and a bar that   *)
(* stands further never prints less.                                       *)
LEMMA PrintedIs ==
    /\ \A n \in Nat : Printed(n) \in Nat
    /\ Printed(0) = 0
    /\ \A m, n \in Nat : m <= n => Printed(m) <= Printed(n)
<1>1. Grain \in Nat \ {0}
  BY SizesAreReal
<1>2. Grain \div 2 \in Nat /\ Grain \div 2 < Grain
  BY <1>1
<1> DEFINE h == Grain \div 2
<1> HIDE DEF h
<1>3. \A n \in Nat : (n + h) \div Grain \in Nat
  BY <1>1, <1>2, Quotient DEF h
<1>4. \A n \in Nat : Printed(n) = ((n + h) \div Grain) * Grain
  BY DEF Printed, h
<1>5. ASSUME NEW m \in Nat, NEW n \in Nat, m <= n PROVE Printed(m) <= Printed(n)
  <2>1. m + h \in Nat /\ n + h \in Nat /\ m + h <= n + h
    BY <1>2, <1>5 DEF h
  <2>2. (m + h) \div Grain <= (n + h) \div Grain
    BY <1>1, <2>1, QuotientGrows
  <2> QED BY <1>1, <1>3, <1>4, <2>2, ProductGrows
<1>6. (0 + h) \div Grain = 0
  <2> DEFINE q == (0 + h) \div Grain
  <2>1. q \in Nat /\ q * Grain <= 0 + h /\ 0 + h < Grain
    BY <1>1, <1>2, Quotient DEF h
  <2> HIDE DEF q
  <2>2. SUFFICES ASSUME q # 0 PROVE FALSE
    BY DEF q
  <2>3. 1 * Grain <= q * Grain
    BY <1>1, <2>1, <2>2, ProductGrows
  <2> QED BY <1>1, <1>2, <2>1, <2>3, ProductGrows DEF h
<1>7. Printed(0) = 0
  BY <1>1, <1>4, <1>6
<1>8. \A n \in Nat : Printed(n) \in Nat
  BY <1>1, <1>3, <1>4, ProductGrows
<1> QED BY <1>5, <1>7, <1>8

-----------------------------------------------------------------------------
(***************************************************************************)
(* What holds of the card while a pass downloads.                          *)
(***************************************************************************)

St == [phase : Phases, total : Nat, done : Nat, ftotal : Nat, fdone : Nat,
       cur : Names \cup {""}, files : Seq(Row)]
Books == [bytes : BOOLEAN, files : BOOLEAN, seen : SUBSET Names, done : SUBSET Names]
BarState == [path : Names, down : Nat, total : Nat, started : BOOLEAN, completed : BOOLEAN]
Passes == [force : BOOLEAN, entered : BOOLEAN, moved : BOOLEAN, tree : SUBSET Files,
           at : 1 .. Len(Runs) + 1, ran : SUBSET DOMAIN Runs]

FeedTypes ==
  /\ st \in St /\ mgr \in Books
  /\ \A k \in DOMAIN agg : agg[k] \in BarState
  /\ pass \in Passes
  /\ rec \subseteq DOMAIN Runs /\ have \subseteq Files /\ stale \subseteq have
  /\ owed \subseteq Files /\ seed \in Nat /\ saved \in St
  /\ bar \in [Files -> Nat] /\ best \in [Files -> Nat]
  /\ \A f \in Files : bar[f] <= best[f] /\ best[f] <= Size[f]

(* The download phase is the card's while hf runs and between two of its   *)
(* runs, a bar is kept while hf runs, and what is owed has been shown by a *)
(* bar of the running source only.                                         *)
Stages ==
  /\ stage \in {"idle", "choose", "run", "loading"}
  /\ stage = "run" => Downloading /\ pass.at \in pass.ran
  /\ stage = "choose" /\ pass.entered => Downloading
  /\ stage \in {"idle", "loading"} => ~Downloading
  /\ stage # "run" => agg = <<>>
  /\ \A f \in owed : best[f] > 0 => stage = "run" /\ f \in Runs[pass.at]

(* The rows of a pinned card are the queue's; of any other card, one for   *)
(* each base name met so far.                                              *)
Pinned(rows) ==
  /\ Len(rows) = Len(Queue)
  /\ \A i \in DOMAIN rows : rows[i].path = Queue[i] /\ rows[i].total > 0

Loose(rows) ==
  /\ \A i \in DOMAIN rows : rows[i].status # "waiting"
  /\ \A i, j \in DOMAIN rows : FileBase(rows[i].path) = FileBase(rows[j].path) => i = j

CardSound(s, m) ==
  /\ s.fdone <= s.ftotal /\ Len(s.files) <= s.ftotal
  /\ \A i \in DOMAIN s.files : s.files[i].done <= s.files[i].total
  /\ IF m.files THEN Pinned(s.files) ELSE Loose(s.files)

(* A bar that was started has a row to write to, with a total if it has.   *)
HasRow(s, p, n) ==
  \E i \in DOMAIN s.files :
     FileBase(s.files[i].path) = FileBase(p) /\ (n > 0 => s.files[i].total > 0)

BarsHaveRows(s, a) == \A k \in DOMAIN a : a[k].started /\ HasRow(s, a[k].path, a[k].total)

CardHolds == Downloading => CardSound(st, mgr) /\ BarsHaveRows(st, agg)

(* The aggregator's state of a nameable bar is what the bar showed.        *)
BarsTell ==
  stage = "run" /\ Nameable =>
    \A f \in owed \cap Runs[pass.at] :
      LET key == <<"path", f>>
      IN  IF key \in DOMAIN agg
          THEN /\ agg[key].path = f /\ agg[key].total = Printed(Size[f])
               /\ agg[key].down = Printed(best[f])
          ELSE best[f] = 0

DoneAt(rows) == {i \in DOMAIN rows : rows[i].status = "done"}

(* A row that reads done though its file is owed was closed by its bar,    *)
(* once; a pinned card counts no file done without such a row.             *)
RowsTell ==
  Downloading /\ Nameable /\ ~pass.moved /\ (mgr.files \/ NamesDiffer) =>
    /\ \A i \in DOMAIN st.files :
         st.files[i].status = "done" /\ st.files[i].path \in owed =>
            AsPrinted(st.files[i].path) /\ st.files[i].path \in mgr.done
    /\ mgr.files => st.fdone <= Cardinality(DoneAt(st.files))
    /\ ~mgr.files => \A i \in DOMAIN st.files : st.files[i].path \in pass.tree

FeedInv == FeedTypes /\ Stages /\ CardHolds /\ BarsTell /\ RowsTell /\ EveryByteOnce

-----------------------------------------------------------------------------
(***************************************************************************)
(* The row a name belongs to.                                              *)
(***************************************************************************)

(* The least of a set of numbers is one of them.                           *)
LEMMA MinIs == ASSUME NEW T \in SUBSET Nat, T # {} PROVE Min(T) \in T
BY SmallestNat DEF Min

(* The base name of any name is the base name of a file.                   *)
LEMMA BaseOfName == ASSUME NEW p \in Names PROVE \E f \in Files : FileBase(p) = Base[f]
<1>1. CASE p \in Files
  BY <1>1 DEF FileBase
<1>2. CASE p \notin Files
  BY <1>2, SizesAreReal DEF FileBase, Names, Range
<1> QED BY <1>1, <1>2

(* A label's base name is itself.                                          *)
LEMMA BaseOfLabel == ASSUME NEW f \in Files PROVE Base[f] \in Names /\ FileBase(Base[f]) = Base[f]
BY SizesAreReal DEF FileBase, Names, Range

(* A file is a name, whose base name is the label of its bar.              *)
LEMMA FilesAreNames == /\ Files \subseteq Names
                       /\ \A f \in Files : FileBase(f) = Base[f]
BY DEF Names, FileBase

(* matchFileIndex finds a row with the name's base name if there is one,   *)
(* and the name's own row before any other.                                *)
LEMMA MatchIs ==
    ASSUME NEW rows \in Seq(Row), NEW p \in Names
    PROVE  LET i == MatchFileIndex(rows, p)
           IN  /\ i = 0 \/ (i \in DOMAIN rows /\ FileBase(rows[i].path) = FileBase(p))
               /\ i = 0 => \A j \in DOMAIN rows : FileBase(rows[j].path) # FileBase(p)
               /\ \A j \in DOMAIN rows : rows[j].path = p => i \in DOMAIN rows /\ rows[i].path = p
<1> DEFINE exact == {i \in DOMAIN rows : rows[i].path = p}
           any == {i \in DOMAIN rows : FileBase(rows[i].path) = FileBase(p)}
           waiting == {i \in any : rows[i].status = "waiting"}
           i == MatchFileIndex(rows, p)
<1>1. DOMAIN rows \in SUBSET Nat /\ 0 \notin DOMAIN rows
  BY DOMAIN rows = 1 .. Len(rows) /\ Len(rows) \in Nat
<1>2. exact \subseteq any /\ waiting \subseteq any /\ any \in SUBSET Nat
  BY <1>1
<1>3. i = CASE exact # {} -> Min(exact)
          [] exact = {} /\ waiting # {} -> Min(waiting)
          [] exact = {} /\ waiting = {} /\ any # {} -> Min(any)
          [] OTHER -> 0
  BY DEF MatchFileIndex
<1>6. \A j \in DOMAIN rows : rows[j].path = p => j \in exact
  OBVIOUS
<1>7. \A j \in exact : j \in DOMAIN rows /\ rows[j].path = p
  OBVIOUS
<1>8. \A j : j \in any <=> j \in DOMAIN rows /\ FileBase(rows[j].path) = FileBase(p)
  OBVIOUS
<1> HIDE DEF exact, any, waiting, i
<1>4. exact # {} => i \in exact
  BY <1>2, <1>3, MinIs
<1>5. exact = {} => IF any = {} THEN i = 0 ELSE i \in any
  <2>1. exact = {} /\ waiting # {} => i = Min(waiting)
    BY <1>3
  <2>2. exact = {} /\ waiting = {} /\ any # {} => i = Min(any)
    BY <1>3
  <2>3. exact = {} /\ any = {} => i = 0
    BY <1>2, <1>3
  <2> QED BY <1>2, <2>1, <2>2, <2>3, MinIs
<1> QED BY <1>1, <1>2, <1>4, <1>5, <1>6, <1>7, <1>8 DEF i

(* A name always has a row on a pinned card, its own if there is one; on   *)
(* any other it has the one row of its base name, or none.                 *)
LEMMA MatchSound ==
    ASSUME NEW s \in St, NEW m \in Books, CardSound(s, m), NEW p \in Names
    PROVE  LET i == MatchFileIndex(s.files, p)
           IN  /\ i = 0 => ~m.files
               /\ \A n : HasRow(s, p, n) => i # 0
               /\ \A n \in Nat : HasRow(s, p, n) /\ n > 0 => s.files[i].total > 0
<1> DEFINE i == MatchFileIndex(s.files, p)
<1>0. s.files \in Seq(Row) /\ m.files \in BOOLEAN
  BY DEF St, Books
<1>1. /\ i = 0 \/ (i \in DOMAIN s.files /\ FileBase(s.files[i].path) = FileBase(p))
      /\ i = 0 => \A j \in DOMAIN s.files : FileBase(s.files[j].path) # FileBase(p)
  BY <1>0, MatchIs
<1> HIDE DEF i
<1>2. ASSUME i = 0, m.files PROVE FALSE
  <2>1. PICK f \in Files : FileBase(p) = Base[f]
    BY BaseOfName
  <2>2. PICK j \in DOMAIN Queue : Queue[j] = f
    BY SourcesAreApart DEF Range
  <2>3. j \in DOMAIN s.files /\ s.files[j].path = f
    BY <1>0, <1>2, <2>2, SourcesAreApart DEF CardSound, Pinned
  <2> QED BY <1>1, <1>2, <2>1, <2>3, FilesAreNames
<1>3. \A n : HasRow(s, p, n) => i # 0
  BY <1>1 DEF HasRow
<1>4. ASSUME NEW n \in Nat, HasRow(s, p, n), n > 0 PROVE s.files[i].total > 0
  <2>1. i \in DOMAIN s.files /\ FileBase(s.files[i].path) = FileBase(p)
    BY <1>1, <1>3, <1>4
  <2>2. CASE m.files
    BY <2>1, <2>2 DEF CardSound, Pinned
  <2>3. CASE ~m.files
    BY <1>4, <2>1, <2>3 DEF CardSound, Loose, HasRow
  <2> QED BY <2>2, <2>3
<1> QED BY <1>2, <1>3, <1>4 DEF i

-----------------------------------------------------------------------------
(***************************************************************************)
(* What the sink calls do to the card.                                     *)
(***************************************************************************)

(* What the type of a card says of its parts.                              *)
LEMMA StIs ==
    ASSUME NEW s \in St
    PROVE  /\ s.files \in Seq(Row) /\ Len(s.files) \in Nat /\ DOMAIN s.files = 1 .. Len(s.files)
           /\ s.total \in Nat /\ s.done \in Nat /\ s.ftotal \in Nat /\ s.fdone \in Nat
           /\ \A i \in DOMAIN s.files :
                /\ s.files[i] \in Row /\ s.files[i].path \in Names
                /\ s.files[i].done \in Nat /\ s.files[i].total \in Nat
<1>1. /\ s.files \in Seq(Row)
      /\ s.total \in Nat /\ s.done \in Nat /\ s.ftotal \in Nat /\ s.fdone \in Nat
  BY DEF St
<1>2. Len(s.files) \in Nat /\ DOMAIN s.files = 1 .. Len(s.files)
  BY <1>1
<1>3. ASSUME NEW i \in DOMAIN s.files PROVE s.files[i] \in Row
  BY <1>1, <1>2, ElementOfSeq
<1>4. \A row \in Row : row.path \in Names /\ row.done \in Nat /\ row.total \in Nat
  BY DEF Row
<1> QED BY <1>1, <1>2, <1>3, <1>4

NotBack(s, t) ==
  /\ t.done >= s.done /\ t.fdone >= s.fdone /\ t.ftotal >= s.ftotal
  /\ \A i \in DOMAIN s.files :
       /\ i \in DOMAIN t.files /\ t.files[i].path = s.files[i].path
       /\ t.files[i].done >= s.files[i].done /\ t.files[i].total >= s.files[i].total
       /\ s.files[i].status = "done" => t.files[i].status = "done"

(* Two steps forward are one.                                              *)
LEMMA NotBackTwice ==
    ASSUME NEW s \in St, NEW t \in St, NEW u \in St, NotBack(s, t), NotBack(t, u)
    PROVE  NotBack(s, u)
<1>1. /\ s.done \in Nat /\ t.done \in Nat /\ u.done \in Nat
      /\ s.fdone \in Nat /\ t.fdone \in Nat /\ u.fdone \in Nat
      /\ s.ftotal \in Nat /\ t.ftotal \in Nat /\ u.ftotal \in Nat
  BY StIs
<1>2. u.done >= s.done /\ u.fdone >= s.fdone /\ u.ftotal >= s.ftotal
  BY <1>1 DEF NotBack
<1>3. \A v \in St : \A i \in DOMAIN v.files : v.files[i].done \in Nat /\ v.files[i].total \in Nat
  BY StIs
<1>4. ASSUME NEW i \in DOMAIN s.files
      PROVE  /\ i \in DOMAIN u.files /\ u.files[i].path = s.files[i].path
             /\ u.files[i].done >= s.files[i].done /\ u.files[i].total >= s.files[i].total
             /\ s.files[i].status = "done" => u.files[i].status = "done"
  <2>1. i \in DOMAIN t.files /\ i \in DOMAIN u.files
    BY DEF NotBack
  <2>2. /\ s.files[i].done \in Nat /\ t.files[i].done \in Nat /\ u.files[i].done \in Nat
        /\ s.files[i].total \in Nat /\ t.files[i].total \in Nat /\ u.files[i].total \in Nat
    BY <1>3, <2>1
  <2> QED BY <2>1, <2>2 DEF NotBack
<1> QED BY <1>2, <1>4 DEF NotBack

(* Standing still is no step back.                                         *)
LEMMA NotBackSelf == ASSUME NEW s \in St PROVE NotBack(s, s)
BY StIs DEF NotBack

(* A row is never lost.                                                    *)
LEMMA RowStays ==
    ASSUME NEW s \in St, NEW t \in St, NotBack(s, t), NEW p, NEW n \in Nat, HasRow(s, p, n)
    PROVE  HasRow(t, p, n)
<1>1. PICK i \in DOMAIN s.files :
          FileBase(s.files[i].path) = FileBase(p) /\ (n > 0 => s.files[i].total > 0)
  BY DEF HasRow
<1>2. i \in DOMAIN t.files /\ t.files[i].path = s.files[i].path
      /\ t.files[i].total >= s.files[i].total
  BY DEF NotBack
<1>3. s.files[i].total \in Nat /\ t.files[i].total \in Nat
  BY <1>2, StIs
<1> QED BY <1>1, <1>2, <1>3 DEF HasRow

(* A new row for a base name without one.                                  *)
LEMMA Appended ==
    ASSUME NEW s \in St, NEW m \in Books, CardSound(s, m), ~m.files,
           NEW row \in Row, row.done <= row.total, row.status # "waiting",
           \A j \in DOMAIN s.files : FileBase(s.files[j].path) # FileBase(row.path)
    PROVE  LET t == AppendRow(s, row, TRUE)
           IN  /\ t \in St /\ CardSound(t, m) /\ NotBack(s, t)
               /\ t.files = Append(s.files, row)
               /\ t.phase = s.phase /\ t.total = s.total /\ t.done = s.done /\ t.fdone = s.fdone
               /\ HasRow(t, row.path, row.total)
<1> DEFINE t == AppendRow(s, row, TRUE)
           n == Len(s.files)
<1>1. /\ s.files \in Seq(Row) /\ s.ftotal \in Nat /\ s.done \in Nat /\ s.fdone \in Nat
      /\ n \in Nat /\ DOMAIN s.files = 1 .. n
  BY StIs
<1>2. /\ Append(s.files, row) \in Seq(Row) /\ Len(Append(s.files, row)) = n + 1
      /\ DOMAIN Append(s.files, row) = 1 .. n + 1
      /\ \A i \in 1 .. n : Append(s.files, row)[i] = s.files[i]
      /\ Append(s.files, row)[n + 1] = row
  BY <1>1
<1>3. t = [s EXCEPT !.files = Append(s.files, row), !.ftotal = Larger(s.ftotal, n + 1)]
  BY <1>2 DEF AppendRow
<1>4. Larger(s.ftotal, n + 1) \in Nat /\ Larger(s.ftotal, n + 1) >= s.ftotal
      /\ Larger(s.ftotal, n + 1) >= n + 1
  BY <1>1 DEF Larger
<1>5. /\ t \in St /\ t.files = Append(s.files, row) /\ t.ftotal = Larger(s.ftotal, n + 1)
      /\ t.phase = s.phase /\ t.total = s.total /\ t.done = s.done /\ t.fdone = s.fdone
  BY <1>2, <1>3, <1>4 DEF St
<1> HIDE DEF t, n
<1>6. CardSound(t, m)
  <2>1. t.fdone <= t.ftotal /\ Len(t.files) <= t.ftotal
    BY <1>1, <1>2, <1>4, <1>5 DEF CardSound
  <2>2. \A i \in DOMAIN t.files : t.files[i].done <= t.files[i].total
    BY <1>1, <1>2, <1>5 DEF CardSound
  <2>3. \A i \in DOMAIN t.files : t.files[i].status # "waiting"
    BY <1>1, <1>2, <1>5 DEF CardSound, Loose
  <2>4. \A i, j \in DOMAIN t.files :
            FileBase(t.files[i].path) = FileBase(t.files[j].path) => i = j
    BY <1>1, <1>2, <1>5 DEF CardSound, Loose
  <2> QED BY <2>1, <2>2, <2>3, <2>4 DEF CardSound, Loose
<1>7. NotBack(s, t)
  <2>1. \A i \in DOMAIN s.files : s.files[i].done \in Nat /\ s.files[i].total \in Nat
    BY StIs
  <2> QED BY <1>1, <1>2, <1>4, <1>5, <2>1 DEF NotBack
<1>8. HasRow(t, row.path, row.total)
  BY <1>1, <1>2, <1>5 DEF HasRow
<1> QED BY <1>5, <1>6, <1>7, <1>8 DEF t

(* A row that is written over, and only gains by it.                       *)
LEMMA Rewritten ==
    ASSUME NEW s \in St, NEW m \in Books, CardSound(s, m), NEW i \in DOMAIN s.files,
           NEW row \in Row, row.done <= row.total, row.status # "waiting",
           row.path = s.files[i].path, row.done >= s.files[i].done,
           row.total >= s.files[i].total,
           s.files[i].status = "done" => row.status = "done",
           NEW t \in St, t.files = [s.files EXCEPT ![i] = row],
           t.phase = s.phase, t.ftotal = s.ftotal, t.done >= s.done, t.fdone = s.fdone
    PROVE  CardSound(t, m) /\ NotBack(s, t) /\ HasRow(t, row.path, row.total)
<1>1. /\ s.files \in Seq(Row) /\ s.ftotal \in Nat /\ s.done \in Nat /\ s.fdone \in Nat
      /\ t.done \in Nat
  BY StIs
<1>2. /\ DOMAIN t.files = DOMAIN s.files /\ Len(t.files) = Len(s.files)
      /\ t.files[i] = row /\ \A j \in DOMAIN s.files : j # i => t.files[j] = s.files[j]
  BY <1>1
<1>3. \A j \in DOMAIN s.files : s.files[j].done \in Nat /\ s.files[j].total \in Nat
  BY StIs
<1>4. row.done \in Nat /\ row.total \in Nat
  BY DEF Row
<1>5. \A j \in DOMAIN s.files : t.files[j].path = s.files[j].path
  BY <1>2
<1>6. CardSound(t, m)
  <2>1. t.fdone <= t.ftotal /\ Len(t.files) <= t.ftotal
    BY <1>2 DEF CardSound
  <2>2. \A j \in DOMAIN t.files : t.files[j].done <= t.files[j].total
    BY <1>2 DEF CardSound
  <2>3. CASE m.files
    <3>1. Pinned(s.files)
      BY <2>3 DEF CardSound
    <3>2. ASSUME NEW j \in DOMAIN t.files PROVE t.files[j].path = Queue[j] /\ t.files[j].total > 0
      <4>1. CASE j = i
        BY <1>2, <1>3, <1>4, <3>1, <4>1 DEF Pinned
      <4>2. CASE j # i
        BY <1>2, <3>1, <4>2 DEF Pinned
      <4> QED BY <4>1, <4>2
    <3> QED BY <1>2, <2>1, <2>2, <2>3, <3>1, <3>2 DEF CardSound, Pinned
  <2>4. CASE ~m.files
    <3>1. Loose(s.files)
      BY <2>4 DEF CardSound
    <3>2. Loose(t.files)
      BY <1>2, <1>5, <3>1 DEF Loose
    <3> QED BY <2>1, <2>2, <2>4, <3>2 DEF CardSound
  <2> QED BY <2>3, <2>4
<1>7. NotBack(s, t)
  <2>1. ASSUME NEW j \in DOMAIN s.files
        PROVE  /\ j \in DOMAIN t.files /\ t.files[j].path = s.files[j].path
               /\ t.files[j].done >= s.files[j].done /\ t.files[j].total >= s.files[j].total
               /\ s.files[j].status = "done" => t.files[j].status = "done"
    <3>1. CASE j = i
      BY <1>2, <3>1
    <3>2. CASE j # i
      BY <1>2, <1>3, <3>2
    <3> QED BY <3>1, <3>2
  <2> QED BY <1>1, <2>1 DEF NotBack
<1>8. HasRow(t, row.path, row.total)
  BY <1>2 DEF HasRow
<1> QED BY <1>6, <1>7, <1>8

(* The counters move without the rows.                                     *)
LEMMA Recounted ==
    ASSUME NEW s \in St, NEW m \in Books, CardSound(s, m), NEW t \in St, NEW l \in Books,
           l.files = m.files, t.files = s.files,
           t.ftotal >= s.ftotal, t.fdone >= s.fdone, t.fdone <= t.ftotal, t.done >= s.done
    PROVE  CardSound(t, l) /\ NotBack(s, t)
<1>1. CardSound(t, l)
  <2>1. Len(t.files) <= t.ftotal
    BY StIs DEF CardSound
  <2> QED BY <2>1 DEF CardSound
<1>2. NotBack(s, t)
  BY StIs DEF NotBack
<1> QED BY <1>1, <1>2

(* What the rows that are done become.                                     *)
DoneSame(s, t) ==
  \A i \in DOMAIN t.files :
    t.files[i].status = "done" => i \in DOMAIN s.files /\ s.files[i].status = "done"

OnlyRowOf(s, t, p) ==
  \A i \in DOMAIN t.files : i \in DOMAIN s.files \/ t.files[i].path = p

(* markFileStart opens or appends a row of that name and closes none.      *)
LEMMA MarkStart ==
    ASSUME NEW s \in St, NEW m \in Books, CardSound(s, m), NEW p \in Names, NEW n \in Nat
    PROVE  LET t == MarkFileStart(s, p, n, ~m.files)
           IN  /\ t \in St /\ CardSound(t, m) /\ NotBack(s, t) /\ HasRow(t, p, n)
               /\ t.phase = s.phase /\ t.done = s.done /\ t.fdone = s.fdone
               /\ DoneSame(s, t) /\ OnlyRowOf(s, t, p)
<1> DEFINE i == MatchFileIndex(s.files, p)
           u == [s EXCEPT !.cur = p]
           t == MarkFileStart(s, p, n, ~m.files)
<1>1. /\ u \in St /\ u.files = s.files /\ u.phase = s.phase /\ u.done = s.done
      /\ u.fdone = s.fdone /\ u.ftotal = s.ftotal
  BY DEF St
<1> HIDE DEF u
<1>2. CardSound(u, m) /\ NotBack(s, u)
  <2>1. s.fdone <= s.ftotal
    BY DEF CardSound
  <2> QED BY <1>1, <2>1, StIs, Recounted
<1>3. CASE i = 0
  <2> DEFINE row == [path |-> p, total |-> n, done |-> 0, status |-> "downloading"]
  <2>1. t = AppendRow(u, row, TRUE)
    BY <1>3, MatchSound DEF MarkFileStart, u
  <2>2. /\ row \in Row /\ row.done <= row.total /\ row.status = "downloading"
        /\ row.path = p /\ row.total = n
    BY DEF Row
  <2>3. \A j \in DOMAIN u.files : FileBase(u.files[j].path) # FileBase(p)
    BY <1>1, <1>3, StIs, MatchIs
  <2>4. ~m.files
    BY <1>3, MatchSound
  <2> HIDE DEF row, t
  <2>5. /\ t \in St /\ CardSound(t, m) /\ NotBack(u, t)
        /\ t.files = Append(u.files, row)
        /\ t.phase = u.phase /\ t.done = u.done /\ t.fdone = u.fdone
        /\ HasRow(t, row.path, row.total)
    BY <1>1, <1>2, <2>1, <2>2, <2>3, <2>4, Appended
  <2>6. NotBack(s, t)
    BY <1>1, <1>2, <2>5, NotBackTwice
  <2>7. DoneSame(s, t) /\ OnlyRowOf(s, t, p)
    <3>1. u.files \in Seq(Row)
      BY <1>1, StIs
    <3>2. \A j \in DOMAIN t.files :
              (j \in DOMAIN s.files /\ t.files[j] = s.files[j]) \/ t.files[j] = row
      BY <1>1, <2>5, <3>1
    <3> QED BY <2>2, <3>2 DEF DoneSame, OnlyRowOf
  <2> QED BY <1>1, <2>2, <2>5, <2>6, <2>7 DEF t
<1>4. CASE i # 0
  <2>1. i \in DOMAIN s.files /\ FileBase(s.files[i].path) = FileBase(p)
    BY <1>4, StIs, MatchIs
  <2> DEFINE old == s.files[i]
             row == [old EXCEPT !.status = IF @ = "done" THEN @ ELSE "downloading",
                                !.total = Larger(@, n)]
  <2>2. old \in Row /\ old.total \in Nat /\ old.done \in Nat
    BY <2>1, StIs
  <2>3. t = [u EXCEPT !.files = [u.files EXCEPT ![i] = row]]
    BY <1>4, <1>1, <2>1 DEF MarkFileStart, u, St
  <2> HIDE DEF t, i
  <2>4. old.done <= old.total
    BY <2>1 DEF CardSound
  <2> HIDE DEF old
  <2>5. /\ row \in Row /\ row.path = old.path /\ row.done = old.done
        /\ row.total = Larger(old.total, n)
        /\ row.status = IF old.status = "done" THEN "done" ELSE "downloading"
    BY <2>2 DEF Row, Larger
  <2>6. row.total >= old.total /\ row.total >= n /\ row.total \in Nat
    BY <2>2, <2>5 DEF Larger
  <2> HIDE DEF row
  <2>7. /\ t \in St /\ t.files = [u.files EXCEPT ![i] = row]
        /\ t.phase = u.phase /\ t.done = u.done /\ t.fdone = u.fdone /\ t.ftotal = u.ftotal
    <3>1. [u.files EXCEPT ![i] = row] \in Seq(Row)
      BY <1>1, <2>1, <2>5, StIs
    <3> QED BY <1>1, <2>3, <3>1 DEF St
  <2>8. CardSound(t, m) /\ NotBack(u, t) /\ HasRow(t, row.path, row.total)
    <3>1. row.done <= row.total /\ row.done >= old.done
      BY <2>2, <2>4, <2>5, <2>6
    <3>2. old = u.files[i] /\ i \in DOMAIN u.files
      BY <1>1, <2>1 DEF old
    <3>3. t.done >= u.done
      BY <1>1, <2>7, StIs
    <3>4. old.status = "done" => row.status = "done"
      BY <2>5
    <3>5. row.status # "waiting"
      BY <2>5
    <3> QED BY <1>1, <1>2, <2>5, <2>6, <2>7, <3>1, <3>2, <3>3, <3>4, <3>5, Rewritten
  <2>9. NotBack(s, t)
    BY <1>1, <1>2, <2>7, <2>8, NotBackTwice
  <2>10. HasRow(t, p, n)
    <3>1. FileBase(row.path) = FileBase(p)
      BY <2>1, <2>5 DEF old
    <3>2. n > 0 => row.total > 0
      BY <2>6
    <3> QED BY <2>8, <3>1, <3>2, <2>6 DEF HasRow
  <2>11. DoneSame(s, t) /\ OnlyRowOf(s, t, p)
    <3>1. /\ DOMAIN t.files = DOMAIN s.files /\ t.files[i] = row
          /\ \A j \in DOMAIN s.files : j # i => t.files[j] = s.files[j]
      BY <1>1, <2>1, <2>7
    <3>2. row.status = "done" => s.files[i].status = "done"
      BY <2>5 DEF old
    <3> QED BY <3>1, <3>2 DEF DoneSame, OnlyRowOf
  <2> QED BY <1>1, <2>7, <2>8, <2>9, <2>10, <2>11 DEF t
<1> QED BY <1>3, <1>4

Sink == [st : St, mgr : Books]

(* The queue lists the files, so they are finitely many.                   *)
LEMMA FilesFinite == IsFiniteSet(Files) /\ IsFiniteSet(Names)
<1>1. Queue \in Seq(Files) /\ Range(Queue) = Files
  BY SourcesAreApart
<1>2. Queue \in Surjection(1 .. Len(Queue), Files) /\ Len(Queue) \in Nat
  BY <1>1 DEF Range, Surjection
<1>3. IsFiniteSet(1 .. Len(Queue))
  BY <1>2, FS_Interval
<1>4. IsFiniteSet(Files)
  BY <1>2, <1>3, FS_Surjection
<1> DEFINE b == [f \in Files |-> Base[f]]
<1>5. b \in Surjection(Files, Range(Base))
  BY SizesAreReal DEF Range, Surjection
<1> HIDE DEF b
<1>6. IsFiniteSet(Range(Base))
  BY <1>4, <1>5, FS_Surjection
<1> QED BY <1>4, <1>6, FS_Union DEF Names

(* OnFileStart: the bar has a row, and nothing is done by it.              *)
LEMMA Started ==
    ASSUME NEW x \in Sink, CardSound(x.st, x.mgr), NEW p \in Names, NEW n \in Nat
    PROVE  LET y == OnFileStart(x, p, n)
           IN  /\ y \in Sink /\ CardSound(y.st, y.mgr) /\ NotBack(x.st, y.st)
               /\ HasRow(y.st, p, n)
               /\ y.mgr.bytes = x.mgr.bytes /\ y.mgr.files = x.mgr.files
               /\ y.mgr.done = x.mgr.done
               /\ y.st.phase = x.st.phase /\ y.st.done = x.st.done /\ y.st.fdone = x.st.fdone
               /\ DoneSame(x.st, y.st) /\ OnlyRowOf(x.st, y.st, p)
<1> DEFINE m == IF x.mgr.files THEN x.mgr ELSE [x.mgr EXCEPT !.seen = @ \cup {p}]
           seen == IF x.mgr.files THEN 0 ELSE Cardinality(m.seen)
           s == [x.st EXCEPT !.total = IF m.bytes THEN @ ELSE @ + n,
                             !.ftotal = Larger(@, seen)]
           t == MarkFileStart(s, p, n, ~m.files)
           y == OnFileStart(x, p, n)
<1>1. x.st \in St /\ x.mgr \in Books
  BY DEF Sink
<1>2. /\ m \in Books /\ m.files = x.mgr.files /\ m.bytes = x.mgr.bytes /\ m.done = x.mgr.done
      /\ m.seen \subseteq Names
  BY <1>1 DEF Books
<1>3. seen \in Nat
  BY <1>2, FilesFinite, FS_Subset, FS_CardinalityType
<1>4. y = [x EXCEPT !.mgr = m, !.st = t]
  BY DEF OnFileStart, Update
<1> HIDE DEF m, seen
<1>5. /\ s \in St /\ s.files = x.st.files /\ s.phase = x.st.phase /\ s.done = x.st.done
      /\ s.fdone = x.st.fdone /\ s.ftotal = Larger(x.st.ftotal, seen)
  <2>1. x.st.total + n \in Nat /\ Larger(x.st.ftotal, seen) \in Nat
    BY <1>1, <1>3, StIs DEF Larger
  <2> QED BY <1>1, <1>3, <2>1 DEF St
<1> HIDE DEF s
<1>6. CardSound(s, m) /\ NotBack(x.st, s)
  <2>1. s.ftotal >= x.st.ftotal
    BY <1>1, <1>3, <1>5, StIs DEF Larger
  <2>2. x.st.fdone <= x.st.ftotal
    BY DEF CardSound
  <2>3. /\ x.st.ftotal \in Nat /\ s.ftotal \in Nat /\ x.st.fdone \in Nat /\ x.st.done \in Nat
    BY <1>1, <1>5, StIs
  <2>4. s.fdone <= s.ftotal /\ s.fdone >= x.st.fdone /\ s.done >= x.st.done
    BY <1>5, <2>1, <2>2, <2>3
  <2> QED BY <1>1, <1>2, <1>5, <2>1, <2>4, Recounted
<1>7. /\ t \in St /\ CardSound(t, m) /\ NotBack(s, t) /\ HasRow(t, p, n)
      /\ t.phase = s.phase /\ t.done = s.done /\ t.fdone = s.fdone
      /\ DoneSame(s, t) /\ OnlyRowOf(s, t, p)
  BY <1>2, <1>5, <1>6, MarkStart
<1> HIDE DEF t
<1>8. NotBack(x.st, t)
  BY <1>1, <1>5, <1>6, <1>7, NotBackTwice
<1>9. DoneSame(x.st, t) /\ OnlyRowOf(x.st, t, p)
  BY <1>5, <1>7 DEF DoneSame, OnlyRowOf
<1>10. y \in Sink /\ y.st = t /\ y.mgr = m
  BY <1>2, <1>4, <1>7 DEF Sink
<1> QED BY <1>2, <1>5, <1>7, <1>8, <1>9, <1>10

(* OnFileBytes: the bytes are added, the row takes what its total allows.  *)
LEMMA Received ==
    ASSUME NEW x \in Sink, CardSound(x.st, x.mgr), NEW p \in Names, NEW d \in Nat,
           HasRow(x.st, p, 1)
    PROVE  LET y == OnFileBytes(x, p, d)
           IN  /\ y \in Sink /\ CardSound(y.st, y.mgr) /\ NotBack(x.st, y.st)
               /\ y.mgr = x.mgr
               /\ y.st.phase = x.st.phase /\ y.st.done = x.st.done + d
               /\ y.st.fdone = x.st.fdone
               /\ DoneSame(x.st, y.st) /\ OnlyRowOf(x.st, y.st, p)
<1> DEFINE s == [x.st EXCEPT !.done = @ + d, !.cur = p]
           i == MatchFileIndex(s.files, p)
           old == s.files[i]
           row == [old EXCEPT !.status = IF @ = "waiting" THEN "downloading" ELSE @,
                              !.done = Smaller(@ + d, old.total)]
           t == AddFileBytes(s, p, d, ~x.mgr.files)
           y == OnFileBytes(x, p, d)
<1>1. x.st \in St /\ x.mgr \in Books
  BY DEF Sink
<1>2. y = [x EXCEPT !.st = t]
  BY DEF OnFileBytes, Update
<1>3. /\ s \in St /\ s.files = x.st.files /\ s.phase = x.st.phase /\ s.done = x.st.done + d
      /\ s.fdone = x.st.fdone /\ s.ftotal = x.st.ftotal
  <2>1. x.st.done + d \in Nat
    BY <1>1, StIs
  <2> QED BY <1>1, <2>1 DEF St
<1> HIDE DEF s
<1>4. CardSound(s, x.mgr) /\ NotBack(x.st, s)
  <2>1. x.st.fdone <= x.st.ftotal
    BY DEF CardSound
  <2>2. /\ x.st.ftotal \in Nat /\ x.st.fdone \in Nat /\ x.st.done \in Nat
    BY <1>1, StIs
  <2>3. s.ftotal >= x.st.ftotal /\ s.fdone <= s.ftotal /\ s.fdone >= x.st.fdone
        /\ s.done >= x.st.done
    BY <1>3, <2>1, <2>2
  <2> QED BY <1>1, <1>3, <2>3, Recounted
<1>5. HasRow(s, p, 1)
  BY <1>3 DEF HasRow
<1>6. i # 0 /\ old.total > 0
  BY <1>1, <1>3, <1>4, <1>5, MatchSound
<1>7. i \in DOMAIN s.files
  BY <1>3, <1>6, StIs, MatchIs
<1>8. old \in Row /\ old.total \in Nat /\ old.done \in Nat /\ old.done <= old.total
  BY <1>3, <1>4, <1>7, StIs DEF CardSound
<1>9. t = [s EXCEPT !.files = [s.files EXCEPT ![i] = row]]
  BY <1>3, <1>6, <1>7 DEF AddFileBytes, St
<1> HIDE DEF t, i, y
<1>10. /\ old = s.files[i]
       /\ old.status = "done" => row.status = "done"
       /\ row.status = "done" => old.status = "done"
       /\ row \in Row /\ row.path = old.path /\ row.total = old.total
       /\ row.done = Smaller(old.done + d, old.total) /\ row.status # "waiting"
  <2> HIDE DEF old
  <2>1. Smaller(old.done + d, old.total) \in Nat
    BY <1>8 DEF Smaller
  <2> QED BY <1>8, <2>1 DEF Row, old
<1> HIDE DEF old, row
<1>11. row.done <= row.total /\ row.done >= old.done /\ row.total >= old.total
  BY <1>8, <1>10 DEF Smaller
<1>12. /\ t \in St /\ t.files = [s.files EXCEPT ![i] = row]
       /\ t.phase = s.phase /\ t.done = s.done /\ t.fdone = s.fdone /\ t.ftotal = s.ftotal
  <2>1. [s.files EXCEPT ![i] = row] \in Seq(Row)
    BY <1>3, <1>7, <1>10, StIs
  <2> QED BY <1>3, <1>9, <2>1 DEF St
<1>13. CardSound(t, x.mgr) /\ NotBack(s, t)
  <2>1. t.done >= s.done
    BY <1>3, <1>12, StIs
  <2> QED BY <1>1, <1>3, <1>4, <1>7, <1>10, <1>11, <1>12, <2>1, Rewritten
<1>14. NotBack(x.st, t)
  BY <1>1, <1>3, <1>4, <1>12, <1>13, NotBackTwice
<1>15. DoneSame(x.st, t) /\ OnlyRowOf(x.st, t, p)
  <2>1. /\ DOMAIN t.files = DOMAIN s.files /\ t.files[i] = row
        /\ \A j \in DOMAIN s.files : j # i => t.files[j] = s.files[j]
    BY <1>7, <1>12
  <2> QED BY <1>3, <1>10, <2>1 DEF DoneSame, OnlyRowOf
<1>16. y \in Sink /\ y.st = t /\ y.mgr = x.mgr
  BY <1>2, <1>12 DEF Sink
<1> QED BY <1>3, <1>12, <1>13, <1>14, <1>15, <1>16 DEF y

(* OnFileDone: a name is counted once, and closes the row it belongs to.   *)
LEMMA Closed ==
    ASSUME NEW x \in Sink, CardSound(x.st, x.mgr), NEW p \in Names, HasRow(x.st, p, 0)
    PROVE  LET y == OnFileDone(x, p)
               i == MatchFileIndex(x.st.files, p)
           IN  /\ y \in Sink /\ CardSound(y.st, y.mgr) /\ NotBack(x.st, y.st)
               /\ y.mgr.bytes = x.mgr.bytes /\ y.mgr.files = x.mgr.files
               /\ y.mgr.done = x.mgr.done \cup {p}
               /\ y.st.phase = x.st.phase /\ y.st.done = x.st.done
               /\ DOMAIN y.st.files = DOMAIN x.st.files
               /\ i \in DOMAIN x.st.files
               /\ IF p \in x.mgr.done
                  THEN y.st.fdone = x.st.fdone /\ y.st.files = x.st.files
                  ELSE /\ y.st.fdone <= x.st.fdone + 1
                       /\ \A j \in DOMAIN x.st.files :
                            y.st.files[j].status = "done" <=>
                               x.st.files[j].status = "done" \/ j = i
<1> DEFINE i == MatchFileIndex(x.st.files, p)
           y == OnFileDone(x, p)
           Shut(s) == [s EXCEPT !.cur = IF @ = p THEN "" ELSE @]
<1>1. x.st \in St /\ x.mgr \in Books
  BY DEF Sink
<1>2. i \in DOMAIN x.st.files
  BY <1>1, StIs, MatchSound, MatchIs
<1>3. \A s \in St : /\ Shut(s) \in St /\ Shut(s).files = s.files /\ Shut(s).phase = s.phase
                    /\ Shut(s).done = s.done /\ Shut(s).fdone = s.fdone
                    /\ Shut(s).ftotal = s.ftotal
  BY DEF St
<1>4. /\ x.st.ftotal \in Nat /\ x.st.fdone \in Nat /\ x.st.done \in Nat
      /\ x.st.fdone <= x.st.ftotal /\ x.st.ftotal > 0
  <2>1. Len(x.st.files) > 0 /\ Len(x.st.files) \in Nat /\ Len(x.st.files) <= x.st.ftotal
    BY <1>1, <1>2, StIs DEF CardSound
  <2> QED BY <1>1, <2>1, StIs DEF CardSound
<1>5. CASE p \in x.mgr.done
  <2>1. y = [x EXCEPT !.st = Shut(x.st)]
    BY <1>5 DEF OnFileDone, Update
  <2> HIDE DEF y, i
  <2> DEFINE t == Shut(x.st)
  <2>2. /\ t \in St /\ t.files = x.st.files /\ t.phase = x.st.phase
        /\ t.done = x.st.done /\ t.fdone = x.st.fdone /\ t.ftotal = x.st.ftotal
    BY <1>1, <1>3
  <2>3. y \in Sink /\ y.st = t /\ y.mgr = x.mgr
    BY <2>1, <2>2 DEF Sink
  <2> HIDE DEF t, Shut
  <2>4. CardSound(t, x.mgr) /\ NotBack(x.st, t)
    <3>1. t.ftotal >= x.st.ftotal /\ t.fdone >= x.st.fdone /\ t.fdone <= t.ftotal /\ t.done >= x.st.done
      BY <1>4, <2>2
    <3> QED BY <1>1, <2>2, <3>1, Recounted
  <2> QED BY <1>2, <1>5, <2>2, <2>3, <2>4 DEF y, i
<1>6. CASE p \notin x.mgr.done
  <2> DEFINE n == Smaller(x.st.fdone + 1, x.st.ftotal)
             u == [x.st EXCEPT !.fdone = n]
             v == MarkFileDone(u, p, ~x.mgr.files)
             t == Shut(v)
             m == [x.mgr EXCEPT !.done = @ \cup {p}]
  <2>1. y = [x EXCEPT !.mgr = m, !.st = t]
    BY <1>4, <1>6 DEF OnFileDone, Update
  <2>2. n \in Nat /\ n <= x.st.ftotal /\ n <= x.st.fdone + 1 /\ n >= x.st.fdone
    BY <1>4 DEF Smaller
  <2> HIDE DEF n
  <2>3. /\ u \in St /\ u.files = x.st.files /\ u.phase = x.st.phase /\ u.done = x.st.done
        /\ u.fdone = n /\ u.ftotal = x.st.ftotal
    BY <1>1, <2>2 DEF St
  <2> HIDE DEF u
  <2>4. m \in Books /\ m.files = x.mgr.files /\ m.bytes = x.mgr.bytes /\ m.done = x.mgr.done \cup {p}
    BY <1>1 DEF Books
  <2> HIDE DEF m
  <2>5. CardSound(u, m) /\ NotBack(x.st, u)
    <3>1. u.ftotal >= x.st.ftotal /\ u.fdone >= x.st.fdone /\ u.fdone <= u.ftotal /\ u.done >= x.st.done
      BY <1>4, <2>2, <2>3
    <3> QED BY <1>1, <2>3, <2>4, <3>1, Recounted
  <2> DEFINE old == u.files[i]
             row == [old EXCEPT !.status = "done", !.done = IF old.total > 0 THEN old.total ELSE @]
  <2>6. i = MatchFileIndex(u.files, p) /\ i \in DOMAIN u.files /\ i # 0
    <3>1. 0 \notin DOMAIN u.files
      BY <2>3, StIs
    <3> QED BY <1>2, <2>3, <3>1
  <2>7. v = [u EXCEPT !.files = [u.files EXCEPT ![i] = row]]
    BY <2>3, <2>6 DEF MarkFileDone, St
  <2> HIDE DEF v, i, y
  <2>8. old \in Row /\ old.total \in Nat /\ old.done \in Nat /\ old.done <= old.total
    BY <2>3, <2>5, <2>6, StIs DEF CardSound
  <2>9. /\ row \in Row /\ row.path = old.path /\ row.total = old.total /\ row.status = "done"
        /\ row.done = (IF old.total > 0 THEN old.total ELSE old.done)
        /\ old = u.files[i]
    <3> HIDE DEF old
    <3> QED BY <2>8 DEF Row, old
  <2> HIDE DEF old, row
  <2>10. row.done <= row.total /\ row.done >= old.done /\ row.total >= old.total
         /\ row.status # "waiting"
    BY <2>8, <2>9
  <2>11. /\ v \in St /\ v.files = [u.files EXCEPT ![i] = row]
         /\ v.phase = u.phase /\ v.done = u.done /\ v.fdone = u.fdone /\ v.ftotal = u.ftotal
    <3>1. [u.files EXCEPT ![i] = row] \in Seq(Row)
      BY <2>3, <2>6, <2>9, StIs
    <3> QED BY <2>3, <2>7, <3>1 DEF St
  <2>12. /\ t \in St /\ t.files = [u.files EXCEPT ![i] = row]
         /\ t.phase = u.phase /\ t.done = u.done /\ t.fdone = u.fdone /\ t.ftotal = u.ftotal
    BY <1>3, <2>11
  <2> HIDE DEF t
  <2>13. CardSound(t, m) /\ NotBack(u, t)
    <3>1. t.done >= u.done
      BY <2>3, <2>12, StIs
    <3>2. old.status = "done" => row.status = "done"
      BY <2>9
    <3> QED BY <2>3, <2>4, <2>5, <2>6, <2>9, <2>10, <2>12, <3>1, <3>2, Rewritten
  <2>14. NotBack(x.st, t)
    BY <1>1, <2>3, <2>5, <2>12, <2>13, NotBackTwice
  <2>15. y \in Sink /\ y.st = t /\ y.mgr = m
    BY <2>1, <2>4, <2>12 DEF Sink
  <2>16. \A j \in DOMAIN x.st.files :
           t.files[j].status = "done" <=> x.st.files[j].status = "done" \/ j = i
    BY <2>3, <2>6, <2>9, <2>12
  <2>17. DOMAIN t.files = DOMAIN x.st.files
    BY <2>3, <2>12
  <2> QED BY <1>2, <1>6, <2>2, <2>3, <2>4, <2>12, <2>13, <2>14, <2>15, <2>16, <2>17 DEF y, i
<1> QED BY <1>5, <1>6

(* The bar a line belongs to is one that is kept, or a new one.            *)
LEMMA RouteIs ==
    ASSUME NEW a, \A k \in DOMAIN a : a[k] \in BarState,
           NEW tree \in SUBSET Files, NEW label \in Names, NEW down \in Nat, NEW total \in Nat
    PROVE  LET r == Route(a, tree, label, down, total)
           IN  /\ r.fs \in BarState
               /\ \/ r.key \in DOMAIN a /\ r.fs = a[r.key]
                  \/ r.fs.total = 0 /\ ~r.fs.started
<1> DEFINE hits == Candidates(tree, label, total)
           key == IF Cardinality(hits) = 1 THEN <<"path", CHOOSE f \in hits : TRUE>>
                  ELSE <<"label", label>>
           kept == key \in DOMAIN a /\ (key[1] = "label" => ~IsNextBar(a[key], down, total))
           r == Route(a, tree, label, down, total)
<1>1. r = [key |-> key, fs |-> IF kept THEN a[key] ELSE NewBar(key[2])]
  BY DEF Route
<1>2. hits \subseteq Files
  BY DEF Candidates
<1>3. key[2] \in Names
  <2>1. CASE Cardinality(hits) = 1
    <3>1. hits # {}
      BY <2>1, FS_EmptySet
    <3> QED BY <1>2, <2>1, <3>1, FilesAreNames
  <2>2. CASE Cardinality(hits) # 1
    BY <2>2
  <2> QED BY <2>1, <2>2
<1> HIDE DEF hits, key, kept
<1>4. \A p \in Names : NewBar(p) \in BarState /\ NewBar(p).total = 0 /\ ~NewBar(p).started
  BY DEF NewBar, BarState
<1>5. /\ r.key = key
      /\ kept => key \in DOMAIN a /\ r.fs = a[key]
      /\ ~kept => r.fs = NewBar(key[2])
  BY <1>1 DEF kept
<1> HIDE DEF r
<1> QED BY <1>3, <1>4, <1>5 DEF r

(* A nameable bar's is kept under the path of its file.                    *)
LEMMA RouteNameable ==
    ASSUME NEW f \in Files, NEW n \in Nat,
           Candidates(pass.tree \cap Runs[pass.at], Base[f], Printed(Size[f])) = {f}
    PROVE  LET r == Route(agg, pass.tree \cap Runs[pass.at], Base[f], Printed(n), Printed(Size[f]))
           IN  /\ r.key = <<"path", f>>
               /\ <<"path", f>> \in DOMAIN agg => r.fs = agg[<<"path", f>>]
               /\ <<"path", f>> \notin DOMAIN agg =>
                    r.fs.path = f /\ r.fs.down = 0 /\ r.fs.total = 0
<1> DEFINE a == agg
           tree == pass.tree \cap Runs[pass.at]
           label == Base[f]
           down == Printed(n)
           total == Printed(Size[f])
           hits == Candidates(tree, label, total)
           key == IF Cardinality(hits) = 1 THEN <<"path", CHOOSE g \in hits : TRUE>>
                  ELSE <<"label", label>>
           kept == key \in DOMAIN a /\ (key[1] = "label" => ~IsNextBar(a[key], down, total))
           r == Route(a, tree, label, down, total)
<1>1. r = [key |-> key, fs |-> IF kept THEN a[key] ELSE NewBar(key[2])]
  BY DEF Route
<1>2. Cardinality(hits) = 1 /\ (CHOOSE g \in hits : TRUE) = f
  BY FS_Singleton
<1>3. key = <<"path", f>>
  BY <1>2
<1>4. key[1] = "path" /\ key[2] = f
  BY <1>3
<1>5. kept <=> key \in DOMAIN a
  BY <1>4
<1> HIDE DEF kept, key, hits
<1>6. r.key = key /\ r.fs = IF kept THEN a[key] ELSE NewBar(key[2])
  BY <1>1
<1> HIDE DEF r
<1>7. NewBar(f).path = f /\ NewBar(f).down = 0 /\ NewBar(f).total = 0
  BY DEF NewBar
<1>8. key \notin DOMAIN a => r.fs.path = f /\ r.fs.down = 0 /\ r.fs.total = 0
  BY <1>4, <1>5, <1>6, <1>7
<1> QED BY <1>3, <1>5, <1>6, <1>8 DEF r

NewlyDone(s, t, p) ==
  \E i \in DOMAIN t.files :
    /\ t.files[i].status = "done" /\ FileBase(t.files[i].path) = FileBase(p)
    /\ \A j \in DOMAIN t.files : t.files[j].path = p => t.files[i].path = p
    /\ \A j \in DOMAIN t.files :
         t.files[j].status = "done" => j = i \/ (j \in DOMAIN s.files /\ s.files[j].status = "done")

(* Aggregator.OnProgress: one line, with every sink call it makes.         *)
LEMMA Progressed ==
    ASSUME NEW x \in Sink, CardSound(x.st, x.mgr),
           NEW a, \A k \in DOMAIN a : a[k] \in BarState, BarsHaveRows(x.st, a),
           NEW tree \in SUBSET Files, NEW label \in Names,
           NEW down \in Nat, NEW total \in Nat, down <= total
    PROVE  LET r == OnProgress(x, a, tree, label, down, total)
               z == r.x
               k == Route(a, tree, label, down, total).key
               fs == Route(a, tree, label, down, total).fs
               ends == Larger(fs.down, down) >= r.agg[k].total
           IN  /\ z \in Sink /\ CardSound(z.st, z.mgr) /\ NotBack(x.st, z.st)
               /\ z.mgr.files = x.mgr.files /\ z.mgr.bytes = x.mgr.bytes
               /\ z.st.phase = x.st.phase
               /\ z.st.done = x.st.done + (IF down > fs.down THEN down - fs.down ELSE 0)
               /\ OnlyRowOf(x.st, z.st, fs.path)
               /\ DOMAIN r.agg = DOMAIN a \cup {k}
               /\ \A j \in DOMAIN a : j # k => r.agg[j] = a[j]
               /\ r.agg[k] \in BarState
               /\ r.agg[k].path = fs.path /\ r.agg[k].down = Larger(fs.down, down)
               /\ r.agg[k].total = Larger(fs.total, total)
               /\ BarsHaveRows(z.st, r.agg)
               /\ \/ /\ DoneSame(x.st, z.st) /\ z.st.fdone = x.st.fdone
                     /\ x.mgr.done \subseteq z.mgr.done
                  \/ /\ ends /\ fs.path \notin x.mgr.done /\ z.mgr.done = x.mgr.done \cup {fs.path}
                     /\ z.st.fdone <= x.st.fdone + 1
                     /\ NewlyDone(x.st, z.st, fs.path)
<1> DEFINE k == Route(a, tree, label, down, total).key
           fs == Route(a, tree, label, down, total).fs
<1>2. /\ fs \in BarState
      /\ \/ k \in DOMAIN a /\ fs = a[k]
         \/ fs.total = 0 /\ ~fs.started
  BY RouteIs
<1> DEFINE p == fs.path
           grown == ~fs.started \/ total > fs.total
           x1 == IF grown THEN OnFileStart(x, p, total - fs.total) ELSE x
           f1 == IF grown THEN [fs EXCEPT !.started = TRUE, !.total = total] ELSE fs
           x2 == IF down > f1.down THEN OnFileBytes(x1, p, down - f1.down) ELSE x1
           f2 == [f1 EXCEPT !.down = Larger(@, down)]
           ends == ~f2.completed /\ f2.down >= f2.total
           x3 == IF ends THEN OnFileDone(x2, p) ELSE x2
           f3 == [f2 EXCEPT !.completed = @ \/ ends]
           r == OnProgress(x, a, tree, label, down, total)
<1>1. r = [x |-> x3, agg |-> [j \in DOMAIN a \cup {k} |-> IF j = k THEN f3 ELSE a[j]]]
  BY DEF OnProgress
<1> HIDE DEF r
<1> HIDE DEF k, fs
<1>3. /\ p \in Names /\ fs.down \in Nat /\ fs.total \in Nat
      /\ fs.started \in BOOLEAN /\ fs.completed \in BOOLEAN
  BY <1>2 DEF BarState
<1>4. IF fs.started THEN HasRow(x.st, p, fs.total) ELSE fs.total = 0
  BY <1>2 DEF NewBar, BarsHaveRows
<1>5. /\ f1 \in BarState /\ f1.started /\ f1.total = Larger(fs.total, total)
      /\ f1.path = p /\ f1.down = fs.down /\ f1.completed = fs.completed
  <2>1. f1 \in BarState /\ f1.path = p /\ f1.down = fs.down /\ f1.completed = fs.completed
    BY <1>2 DEF BarState
  <2>2. grown => f1.started /\ f1.total = total
    BY <1>2 DEF BarState
  <2>3. ~grown => f1 = fs
    OBVIOUS
  <2> QED BY <1>3, <1>4, <2>1, <2>2, <2>3 DEF Larger
<1>6. f1.total \in Nat /\ f1.total >= total /\ f1.total >= fs.total
  BY <1>3, <1>5 DEF Larger
<1>7. /\ x1 \in Sink /\ CardSound(x1.st, x1.mgr) /\ NotBack(x.st, x1.st)
      /\ HasRow(x1.st, p, f1.total)
      /\ x1.mgr.bytes = x.mgr.bytes /\ x1.mgr.files = x.mgr.files /\ x1.mgr.done = x.mgr.done
      /\ x1.st.phase = x.st.phase /\ x1.st.done = x.st.done /\ x1.st.fdone = x.st.fdone
      /\ DoneSame(x.st, x1.st) /\ OnlyRowOf(x.st, x1.st, p)
  <2>1. CASE grown
    <3> DEFINE n == total - fs.total
    <3>1. n \in Nat /\ (f1.total > 0 => n > 0)
      BY <1>3, <1>4, <1>5, <2>1 DEF Larger
    <3>2. x1 = OnFileStart(x, p, n)
      BY <2>1
    <3> HIDE DEF x1, n
    <3>3. /\ x1 \in Sink /\ CardSound(x1.st, x1.mgr) /\ NotBack(x.st, x1.st)
          /\ HasRow(x1.st, p, n)
          /\ x1.mgr.bytes = x.mgr.bytes /\ x1.mgr.files = x.mgr.files /\ x1.mgr.done = x.mgr.done
          /\ x1.st.phase = x.st.phase /\ x1.st.done = x.st.done /\ x1.st.fdone = x.st.fdone
          /\ DoneSame(x.st, x1.st) /\ OnlyRowOf(x.st, x1.st, p)
      BY <1>3, <3>1, <3>2, Started
    <3>4. HasRow(x1.st, p, f1.total)
      BY <3>1, <3>3 DEF HasRow
    <3> QED BY <3>3, <3>4
  <2>2. CASE ~grown
    <3>1. x1 = x /\ f1 = fs /\ fs.started
      BY <2>2
    <3>2. x.st \in St
      BY DEF Sink
    <3> QED BY <1>4, <3>1, <3>2, NotBackSelf DEF DoneSame, OnlyRowOf
  <2> QED BY <2>1, <2>2
<1> HIDE DEF f1, x1, grown
<1>8. /\ x2 \in Sink /\ CardSound(x2.st, x2.mgr) /\ NotBack(x1.st, x2.st) /\ x2.mgr = x1.mgr
      /\ x2.st.phase = x1.st.phase /\ x2.st.fdone = x1.st.fdone
      /\ x2.st.done = x.st.done + (IF down > fs.down THEN down - fs.down ELSE 0)
      /\ DoneSame(x1.st, x2.st) /\ OnlyRowOf(x1.st, x2.st, p)
  <2>0. x.st.done \in Nat /\ x1.st \in St
    BY <1>7, StIs DEF Sink
  <2>1. CASE down > f1.down
    <3> DEFINE d == down - f1.down
    <3>1. d \in Nat /\ f1.total > 0
      BY <1>3, <1>5, <1>6, <2>1
    <3>2. HasRow(x1.st, p, 1)
      BY <1>7, <3>1 DEF HasRow
    <3>3. x2 = OnFileBytes(x1, p, d)
      BY <2>1
    <3> HIDE DEF x2, d
    <3>4. /\ x2 \in Sink /\ CardSound(x2.st, x2.mgr) /\ NotBack(x1.st, x2.st) /\ x2.mgr = x1.mgr
          /\ x2.st.phase = x1.st.phase /\ x2.st.fdone = x1.st.fdone
          /\ x2.st.done = x1.st.done + d
          /\ DoneSame(x1.st, x2.st) /\ OnlyRowOf(x1.st, x2.st, p)
      BY <1>3, <1>7, <3>1, <3>2, <3>3, Received
    <3> QED BY <1>5, <1>7, <2>1, <3>4 DEF d
  <2>2. CASE ~(down > f1.down)
    <3>1. x2 = x1
      BY <2>2
    <3> HIDE DEF x2
    <3>2. NotBack(x1.st, x2.st) /\ DoneSame(x1.st, x2.st) /\ OnlyRowOf(x1.st, x2.st, p)
      BY <2>0, <3>1, NotBackSelf DEF DoneSame, OnlyRowOf
    <3>3. x2.st.done = x.st.done + (IF down > fs.down THEN down - fs.down ELSE 0)
      BY <1>5, <1>7, <2>0, <2>2, <3>1
    <3> QED BY <1>7, <3>1, <3>2, <3>3
  <2> QED BY <2>1, <2>2
<1> HIDE DEF x2
<1>9. /\ f2 \in BarState /\ f2.path = p /\ f2.down = Larger(fs.down, down)
      /\ f2.total = f1.total /\ f2.started
  <2>1. Larger(f1.down, down) \in Nat
    BY <1>3, <1>5 DEF Larger
  <2> QED BY <1>5, <2>1 DEF BarState
<1> HIDE DEF f2
<1>10. /\ f3 \in BarState /\ f3.path = p /\ f3.down = Larger(fs.down, down)
       /\ f3.total = f1.total /\ f3.started
  BY <1>9 DEF BarState
<1>11. x.st \in St /\ x1.st \in St /\ x2.st \in St
  BY <1>7, <1>8 DEF Sink
<1>12. HasRow(x2.st, p, f1.total) /\ HasRow(x2.st, p, 0)
  <2>1. HasRow(x2.st, p, f1.total)
    BY <1>6, <1>7, <1>8, <1>11, RowStays
  <2> QED BY <2>1 DEF HasRow
<1>13. NotBack(x.st, x2.st)
  BY <1>7, <1>8, <1>11, NotBackTwice
<1>14. DoneSame(x.st, x2.st) /\ OnlyRowOf(x.st, x2.st, p)
  <2>1. DoneSame(x.st, x2.st)
    BY <1>7, <1>8 DEF DoneSame
  <2>2. \A i \in DOMAIN x1.st.files : i \in DOMAIN x2.st.files /\ x2.st.files[i].path = x1.st.files[i].path
    BY <1>8 DEF NotBack
  <2> QED BY <1>7, <1>8, <2>1, <2>2 DEF OnlyRowOf
<1>15. /\ x3 \in Sink /\ CardSound(x3.st, x3.mgr) /\ NotBack(x2.st, x3.st)
       /\ x3.mgr.files = x.mgr.files /\ x3.mgr.bytes = x.mgr.bytes
       /\ x3.st.phase = x.st.phase /\ x3.st.done = x2.st.done
       /\ DOMAIN x3.st.files = DOMAIN x2.st.files
       /\ \/ /\ DoneSame(x.st, x3.st) /\ x3.st.fdone = x.st.fdone
             /\ x.mgr.done \subseteq x3.mgr.done
          \/ /\ ends /\ p \notin x.mgr.done /\ x3.mgr.done = x.mgr.done \cup {p}
             /\ x3.st.fdone <= x.st.fdone + 1
             /\ NewlyDone(x.st, x3.st, p)
  <2>1. CASE ~ends
    <3>1. x3 = x2
      BY <2>1
    <3> HIDE DEF x3
    <3> QED BY <1>7, <1>8, <1>11, <1>14, <3>1, NotBackSelf
  <2>2. CASE ends
    <3> DEFINE i == MatchFileIndex(x2.st.files, p)
    <3>1. x3 = OnFileDone(x2, p)
      BY <2>2
    <3> HIDE DEF x3, i, ends
    <3>2. /\ x3 \in Sink /\ CardSound(x3.st, x3.mgr) /\ NotBack(x2.st, x3.st)
          /\ x3.mgr.bytes = x2.mgr.bytes /\ x3.mgr.files = x2.mgr.files
          /\ x3.mgr.done = x2.mgr.done \cup {p}
          /\ x3.st.phase = x2.st.phase /\ x3.st.done = x2.st.done
          /\ DOMAIN x3.st.files = DOMAIN x2.st.files
          /\ i \in DOMAIN x2.st.files
          /\ IF p \in x2.mgr.done
             THEN x3.st.fdone = x2.st.fdone /\ x3.st.files = x2.st.files
             ELSE /\ x3.st.fdone <= x2.st.fdone + 1
                  /\ \A j \in DOMAIN x2.st.files :
                       x3.st.files[j].status = "done" <=>
                          x2.st.files[j].status = "done" \/ j = i
      BY <1>3, <1>8, <1>12, <3>1, Closed DEF i
    <3>3. CASE p \in x2.mgr.done
      <4>1. DoneSame(x.st, x3.st)
        BY <1>14, <3>2, <3>3 DEF DoneSame
      <4> QED BY <1>7, <1>8, <3>2, <3>3, <4>1
    <3>4. CASE p \notin x2.mgr.done
      <4>1. /\ FileBase(x2.st.files[i].path) = FileBase(p)
            /\ \A j \in DOMAIN x2.st.files : x2.st.files[j].path = p => x2.st.files[i].path = p
        <5>1. i # 0
          BY <1>11, <3>2, StIs
        <5> QED BY <1>3, <1>11, <5>1, StIs, MatchIs DEF i
      <4>2. \A j \in DOMAIN x2.st.files : x3.st.files[j].path = x2.st.files[j].path
        BY <3>2 DEF NotBack
      <4>3. NewlyDone(x.st, x3.st, p)
        BY <1>14, <3>2, <3>4, <4>1, <4>2 DEF NewlyDone, DoneSame
      <4> QED BY <1>7, <1>8, <2>2, <3>2, <3>4, <4>3
    <3> QED BY <3>3, <3>4
  <2> QED BY <2>1, <2>2
<1> HIDE DEF x3, f3
<1>16. x3.st \in St
  BY <1>15 DEF Sink
<1>17. NotBack(x.st, x3.st)
  BY <1>11, <1>13, <1>15, <1>16, NotBackTwice
<1>18. OnlyRowOf(x.st, x3.st, p)
  <2>1. \A i \in DOMAIN x2.st.files : x3.st.files[i].path = x2.st.files[i].path
    BY <1>15 DEF NotBack
  <2> QED BY <1>14, <1>15, <2>1 DEF OnlyRowOf
<1>19. /\ r.x = x3 /\ DOMAIN r.agg = DOMAIN a \cup {k} /\ r.agg[k] = f3
       /\ \A j \in DOMAIN a : j # k => r.agg[j] = a[j]
  BY <1>1
<1>20. BarsHaveRows(x3.st, r.agg)
  <2>1. HasRow(x3.st, p, f1.total)
    BY <1>6, <1>11, <1>12, <1>15, <1>16, RowStays
  <2>2. ASSUME NEW j \in DOMAIN a, j # k
        PROVE  r.agg[j].started /\ HasRow(x3.st, r.agg[j].path, r.agg[j].total)
    <3>1. r.agg[j] = a[j] /\ a[j].started /\ HasRow(x.st, a[j].path, a[j].total) /\ a[j].total \in Nat
      BY <1>19, <2>2 DEF BarsHaveRows, BarState
    <3> QED BY <1>11, <1>16, <1>17, <3>1, RowStays
  <2> QED BY <1>10, <1>19, <2>1, <2>2 DEF BarsHaveRows
<1>21. ends => Larger(fs.down, down) >= r.agg[k].total
  BY <1>9, <1>10, <1>19
<1> HIDE DEF ends
<1>22. /\ r.agg[k] \in BarState
       /\ r.agg[k].path = fs.path /\ r.agg[k].down = Larger(fs.down, down)
       /\ r.agg[k].total = Larger(fs.total, total)
  BY <1>5, <1>10, <1>19
<1>23. x3.st.done = x.st.done + (IF down > fs.down THEN down - fs.down ELSE 0)
  BY <1>8, <1>15
<1> QED BY <1>15, <1>17, <1>18, <1>19, <1>20, <1>21, <1>22, <1>23 DEF r, k, fs

-----------------------------------------------------------------------------
(***************************************************************************)
(* A line of hf's output.                                                  *)
(***************************************************************************)

USE DEF shown, disk, count, transfer, feedVars

(* Further is further in print too, and no bar prints more than its file.  *)
LEMMA PrintedFurther ==
    ASSUME NEW m \in Nat, NEW n \in Nat
    PROVE  Printed(Larger(m, n)) = Larger(Printed(m), Printed(n))
<1>1. CASE m > n
  <2>1. Printed(n) <= Printed(m) /\ Printed(n) \in Nat /\ Printed(m) \in Nat
    BY <1>1, PrintedIs
  <2> QED BY <1>1, <2>1 DEF Larger
<1>2. CASE ~(m > n)
  <2>1. Printed(m) <= Printed(n) /\ Printed(n) \in Nat /\ Printed(m) \in Nat
    BY <1>2, PrintedIs
  <2> QED BY <1>2, <2>1 DEF Larger
<1> QED BY <1>1, <1>2

(* The source hf runs for.                                                 *)
LEMMA SourceIs ==
    ASSUME FeedTypes, Stages, stage = "run"
    PROVE  pass.at \in DOMAIN Runs /\ pass.at \in pass.ran /\ Runs[pass.at] \subseteq Files
<1>1. pass.at \in pass.ran /\ pass.ran \subseteq DOMAIN Runs
  BY DEF FeedTypes, Stages, Passes
<1>2. Runs \in Seq(SUBSET Files)
  BY SourcesAreApart
<1> QED BY <1>1, <1>2, ElementOfSeq

(* A listed file has bytes.                                                *)
LEMMA SizeIs == \A f \in Files : Size[f] \in Nat /\ Size[f] > 0
BY SizesAreReal

(* What a line of a nameable bar is read as.                               *)
LEMMA NameableLine ==
    ASSUME FeedInv, Nameable, stage = "run", NEW f \in owed \cap Runs[pass.at],
           NEW n \in 0 .. Size[f]
    PROVE  LET tree == pass.tree \cap Runs[pass.at]
               r == Route(agg, tree, Base[f], Printed(n), Printed(Size[f]))
           IN  /\ f \in pass.tree
               /\ r.key = <<"path", f>> /\ r.fs.path = f
               /\ r.fs.down = Printed(best[f])
               /\ Larger(r.fs.total, Printed(Size[f])) = Printed(Size[f])
<1> DEFINE tree == pass.tree \cap Runs[pass.at]
           total == Printed(Size[f])
           r == Route(agg, tree, Base[f], Printed(n), total)
<1>1. FeedTypes /\ Stages /\ BarsTell
  BY DEF FeedInv
<1>2. f \in Files /\ Size[f] \in Nat /\ n \in Nat /\ best[f] \in Nat
  BY <1>1, SizeIs DEF FeedTypes
<1>3. /\ tree \in SUBSET Files /\ Base[f] \in Names
      /\ Printed(n) \in Nat /\ total \in Nat
  BY <1>1, <1>2, PrintedIs, BaseOfLabel DEF FeedTypes, Passes
<1>4. Candidates(tree, Base[f], total) = {f}
  BY <1>1, SourceIs DEF Nameable
<1>5. f \in pass.tree
  <2>1. Candidates(tree, Base[f], total) \subseteq tree
    BY DEF Candidates
  <2> QED BY <1>4, <2>1
<1>6. /\ r.key = <<"path", f>>
      /\ <<"path", f>> \in DOMAIN agg => r.fs = agg[<<"path", f>>]
      /\ <<"path", f>> \notin DOMAIN agg => r.fs.path = f /\ r.fs.down = 0 /\ r.fs.total = 0
  BY <1>2, <1>4, RouteNameable
<1> HIDE DEF r, tree, total
<1>7. /\ r.key = <<"path", f>>
      /\ r.key \in DOMAIN agg => r.fs = agg[r.key]
      /\ r.key \notin DOMAIN agg => r.fs.path = f /\ r.fs.down = 0 /\ r.fs.total = 0
  BY <1>6
<1>8. CASE r.key \in DOMAIN agg
  <2>1. /\ r.fs.path = f /\ r.fs.total = total /\ r.fs.down = Printed(best[f])
    BY <1>1, <1>7, <1>8 DEF BarsTell, total
  <2> QED BY <1>5, <1>7, <2>1 DEF Larger, r, tree, total
<1>9. CASE r.key \notin DOMAIN agg
  <2>1. best[f] = 0
    BY <1>1, <1>7, <1>9 DEF BarsTell
  <2>2. r.fs.path = f /\ r.fs.total = 0 /\ r.fs.down = 0
    BY <1>7, <1>9
  <2>3. Larger(0, total) = total
    BY <1>3 DEF Larger
  <2> QED BY <1>5, <1>7, <2>1, <2>2, <2>3, PrintedIs DEF r, tree, total
<1> QED BY <1>8, <1>9

(* A line, read and applied.                                               *)
LEMMA LineIs ==
    ASSUME FeedInv, NEW f \in Files, NEW n \in 0 .. Size[f], Line(f, n)
    PROVE  LET tree == pass.tree \cap Runs[pass.at]
               rt == Route(agg, tree, Base[f], Printed(n), Printed(Size[f]))
               k == rt.key
               fs == rt.fs
               ends == Larger(fs.down, Printed(n)) >= agg'[k].total
           IN  /\ st' \in St /\ mgr' \in Books /\ CardSound(st', mgr') /\ NotBack(st, st')
               /\ mgr'.files = mgr.files /\ mgr'.bytes = mgr.bytes
               /\ st'.phase = st.phase
               /\ st'.done = st.done + (IF Printed(n) > fs.down THEN Printed(n) - fs.down ELSE 0)
               /\ OnlyRowOf(st, st', fs.path)
               /\ DOMAIN agg' = DOMAIN agg \cup {k}
               /\ \A j \in DOMAIN agg : j # k => agg'[j] = agg[j]
               /\ agg'[k] \in BarState
               /\ agg'[k].path = fs.path /\ agg'[k].down = Larger(fs.down, Printed(n))
               /\ agg'[k].total = Larger(fs.total, Printed(Size[f]))
               /\ BarsHaveRows(st', agg')
               /\ \/ /\ DoneSame(st, st') /\ st'.fdone = st.fdone
                     /\ mgr.done \subseteq mgr'.done
                  \/ /\ ends /\ fs.path \notin mgr.done /\ mgr'.done = mgr.done \cup {fs.path}
                     /\ st'.fdone <= st.fdone + 1
                     /\ NewlyDone(st, st', fs.path)
<1> DEFINE tree == pass.tree \cap Runs[pass.at]
           r == OnProgress(Now, agg, tree, Base[f], Printed(n), Printed(Size[f]))
<1>1. FeedTypes /\ Stages /\ CardHolds /\ stage = "run"
  BY DEF FeedInv, Line
<1>2. Size[f] \in Nat /\ n \in Nat /\ n <= Size[f]
  BY SizeIs
<1>3. /\ tree \in SUBSET Files /\ Base[f] \in Names
      /\ Printed(n) \in Nat /\ Printed(Size[f]) \in Nat /\ Printed(n) <= Printed(Size[f])
  BY <1>1, <1>2, PrintedIs, BaseOfLabel DEF FeedTypes, Passes
<1>4. Now \in Sink /\ Now.st = st /\ Now.mgr = mgr
  BY <1>1 DEF Now, Sink, FeedTypes
<1>5. CardSound(st, mgr) /\ BarsHaveRows(st, agg) /\ \A k \in DOMAIN agg : agg[k] \in BarState
  BY <1>1 DEF CardHolds, Stages, FeedTypes
<1>6. st' = r.x.st /\ mgr' = r.x.mgr /\ agg' = r.agg
  BY DEF Line, Publish
<1> HIDE DEF r, tree
<1>7. r.x \in Sink => r.x.st \in St /\ r.x.mgr \in Books
  BY DEF Sink
<1> DEFINE k == Route(agg, tree, Base[f], Printed(n), Printed(Size[f])).key
           fs == Route(agg, tree, Base[f], Printed(n), Printed(Size[f])).fs
           ends == Larger(fs.down, Printed(n)) >= r.agg[k].total
<1>8. /\ r.x \in Sink /\ CardSound(r.x.st, r.x.mgr) /\ NotBack(Now.st, r.x.st)
      /\ r.x.mgr.files = Now.mgr.files /\ r.x.mgr.bytes = Now.mgr.bytes
      /\ r.x.st.phase = Now.st.phase
      /\ r.x.st.done = Now.st.done + (IF Printed(n) > fs.down THEN Printed(n) - fs.down ELSE 0)
      /\ OnlyRowOf(Now.st, r.x.st, fs.path)
      /\ DOMAIN r.agg = DOMAIN agg \cup {k}
      /\ \A j \in DOMAIN agg : j # k => r.agg[j] = agg[j]
      /\ r.agg[k] \in BarState
      /\ r.agg[k].path = fs.path /\ r.agg[k].down = Larger(fs.down, Printed(n))
      /\ r.agg[k].total = Larger(fs.total, Printed(Size[f]))
      /\ BarsHaveRows(r.x.st, r.agg)
      /\ \/ /\ DoneSame(Now.st, r.x.st) /\ r.x.st.fdone = Now.st.fdone
            /\ Now.mgr.done \subseteq r.x.mgr.done
         \/ /\ ends /\ fs.path \notin Now.mgr.done /\ r.x.mgr.done = Now.mgr.done \cup {fs.path}
            /\ r.x.st.fdone <= Now.st.fdone + 1
            /\ NewlyDone(Now.st, r.x.st, fs.path)
  BY <1>3, <1>4, <1>5, Progressed DEF r
<1> QED BY <1>4, <1>6, <1>7, <1>8 DEF tree

(* Which bars can be told apart depends on the pass alone.                 *)
LEMMA SamePass ==
    ASSUME pass' = pass
    PROVE  (Nameable' <=> Nameable) /\ (NamesDiffer' <=> NamesDiffer)
BY DEF Nameable, NamesDiffer

(* A bar that was shown whole stays so.                                    *)
LEMMA StaysPrinted ==
    ASSUME FeedTypes, NEW f \in Files, AsPrinted(f), best'[f] \in Nat,
           best'[f] >= best[f], best'[f] <= Size[f]
    PROVE  AsPrinted(f)'
<1>1. best[f] \in Nat /\ Size[f] \in Nat
  BY SizeIs DEF FeedTypes
<1>2. /\ Printed(best[f]) <= Printed(best'[f]) /\ Printed(best'[f]) <= Printed(Size[f])
      /\ Printed(best[f]) \in Nat /\ Printed(best'[f]) \in Nat /\ Printed(Size[f]) \in Nat
  BY <1>1, PrintedIs
<1> QED BY <1>2 DEF AsPrinted

(* Rows that read done stay done, so there are no fewer of them.           *)
LEMMA FewerDone ==
    ASSUME NEW s \in St, NEW t \in St, NotBack(s, t)
    PROVE  /\ IsFiniteSet(DoneAt(t.files)) /\ DoneAt(s.files) \subseteq DoneAt(t.files)
           /\ Cardinality(DoneAt(s.files)) \in Nat /\ Cardinality(DoneAt(t.files)) \in Nat
           /\ Cardinality(DoneAt(s.files)) <= Cardinality(DoneAt(t.files))
<1>1. DOMAIN t.files = 1 .. Len(t.files) /\ Len(t.files) \in Nat
  BY StIs
<1>2. IsFiniteSet(DOMAIN t.files)
  BY <1>1, FS_Interval
<1>3. DoneAt(t.files) \subseteq DOMAIN t.files
  BY DEF DoneAt
<1>4. IsFiniteSet(DoneAt(t.files))
  BY <1>2, <1>3, FS_Subset
<1>5. DoneAt(s.files) \subseteq DoneAt(t.files)
  BY DEF DoneAt, NotBack
<1> QED BY <1>4, <1>5, FS_Subset, FS_CardinalityType

(* What the line does to the pass's own counts.                            *)
LEMMA LineMoves ==
    ASSUME FeedInv, NEW f \in Files, NEW n \in 0 .. Size[f], Line(f, n)
    PROVE  /\ stage = "run" /\ stage' = stage /\ pass' = pass /\ seed' = seed
           /\ f \in owed \cap Runs[pass.at] /\ owed' \subseteq owed
           /\ best' \in [Files -> Nat]
           /\ best'[f] = Larger(best[f], n)
           /\ Printed(best'[f]) = Larger(Printed(best[f]), Printed(n))
           /\ \A g \in Files : /\ g # f => best'[g] = best[g]
                               /\ best'[g] >= best[g] /\ best'[g] <= Size[g]
           /\ FeedTypes' /\ Stages' /\ CardHolds'
<1>1. FeedTypes /\ Stages /\ CardHolds
  BY DEF FeedInv
<1>2. /\ stage = "run" /\ stage' = stage /\ pass' = pass /\ seed' = seed /\ saved' = saved
      /\ rec' = rec /\ f \in owed \cap Runs[pass.at]
      /\ best' = [best EXCEPT ![f] = Larger(@, n)] /\ bar' = [bar EXCEPT ![f] = n]
  BY DEF Line
<1>3. owed' \subseteq owed /\ have' \subseteq Files /\ stale' \subseteq have'
  BY <1>1 DEF Line, Fetched, FeedTypes
<1>4. n \in Nat /\ n <= Size[f] /\ Size[f] \in Nat /\ best[f] \in Nat /\ best[f] <= Size[f]
  BY <1>1, SizeIs DEF FeedTypes
<1>5. /\ best'[f] = Larger(best[f], n)
      /\ Larger(best[f], n) \in Nat /\ Larger(best[f], n) >= n
      /\ Larger(best[f], n) >= best[f] /\ Larger(best[f], n) <= Size[f]
  BY <1>1, <1>2, <1>4 DEF Larger, FeedTypes
<1>6. best' \in [Files -> Nat] /\ bar' \in [Files -> Nat]
  BY <1>1, <1>2, <1>4, <1>5 DEF FeedTypes
<1>7. ASSUME NEW g \in Files
      PROVE  /\ g # f => best'[g] = best[g]
             /\ best'[g] >= best[g] /\ best'[g] <= Size[g] /\ bar'[g] <= best'[g]
  <2>1. CASE g = f
    <3>1. bar'[f] = n
      BY <1>1, <1>2 DEF FeedTypes
    <3> QED BY <1>5, <2>1, <3>1
  <2>2. CASE g # f
    <3>1. best'[g] = best[g] /\ bar'[g] = bar[g] /\ best[g] \in Nat
      BY <1>1, <1>2, <2>2 DEF FeedTypes
    <3> QED BY <1>1, <2>2, <3>1 DEF FeedTypes
  <2> QED BY <2>1, <2>2
<1>8. Printed(best'[f]) = Larger(Printed(best[f]), Printed(n))
  BY <1>4, <1>5, PrintedFurther
<1> DEFINE k == Route(agg, pass.tree \cap Runs[pass.at], Base[f], Printed(n), Printed(Size[f])).key
<1>9. /\ st' \in St /\ mgr' \in Books /\ CardSound(st', mgr')
      /\ st'.phase = st.phase
      /\ DOMAIN agg' = DOMAIN agg \cup {k}
      /\ \A j \in DOMAIN agg : j # k => agg'[j] = agg[j]
      /\ agg'[k] \in BarState
      /\ BarsHaveRows(st', agg')
  BY LineIs
<1> HIDE DEF k
<1>10. FeedTypes'
  <2>1. \A j \in DOMAIN agg' : agg'[j] \in BarState
    BY <1>1, <1>9 DEF FeedTypes
  <2>2. owed' \subseteq Files
    BY <1>1, <1>3 DEF FeedTypes
  <2> QED BY <1>1, <1>2, <1>3, <1>6, <1>7, <1>9, <2>1, <2>2 DEF FeedTypes
<1>11. Stages'
  <2>1. Downloading' /\ pass'.at \in pass'.ran
    BY <1>1, <1>2, <1>9 DEF Stages, Downloading
  <2>2. \A g \in owed' : best'[g] > 0 => stage' = "run" /\ g \in Runs[pass'.at]
    BY <1>1, <1>2, <1>3, <1>7 DEF Stages, FeedTypes
  <2> QED BY <1>2, <2>1, <2>2 DEF Stages
<1>12. CardHolds'
  BY <1>9 DEF CardHolds
<1> QED BY <1>2, <1>3, <1>5, <1>6, <1>7, <1>8, <1>10, <1>11, <1>12

(* A line of a nameable bar adds to the card what it adds to the bar's     *)
(* furthest.                                                               *)
LEMMA LineTells ==
    ASSUME FeedInv, NEW f \in Files, NEW n \in 0 .. Size[f], Line(f, n), Nameable
    PROVE  BarsTell' /\ EveryByteOnce'
<1>1. FeedTypes /\ Stages /\ BarsTell /\ EveryByteOnce
  BY DEF FeedInv
<1>2. /\ stage = "run" /\ stage' = stage /\ pass' = pass /\ seed' = seed
      /\ f \in owed \cap Runs[pass.at] /\ owed' \subseteq owed
      /\ best' \in [Files -> Nat]
      /\ Printed(best'[f]) = Larger(Printed(best[f]), Printed(n))
      /\ \A g \in Files : g # f => best'[g] = best[g]
  BY LineMoves
<1> DEFINE tree == pass.tree \cap Runs[pass.at]
           rt == Route(agg, tree, Base[f], Printed(n), Printed(Size[f]))
           k == rt.key
           fs == rt.fs
<1>3. /\ k = <<"path", f>> /\ fs.path = f /\ fs.down = Printed(best[f])
      /\ Larger(fs.total, Printed(Size[f])) = Printed(Size[f])
  BY <1>2, NameableLine
<1>4. /\ st'.done = st.done + (IF Printed(n) > fs.down THEN Printed(n) - fs.down ELSE 0)
      /\ DOMAIN agg' = DOMAIN agg \cup {k}
      /\ \A j \in DOMAIN agg : j # k => agg'[j] = agg[j]
      /\ agg'[k].path = fs.path /\ agg'[k].down = Larger(fs.down, Printed(n))
      /\ agg'[k].total = Larger(fs.total, Printed(Size[f]))
  BY LineIs
<1> HIDE DEF k, fs, rt
<1>5. BarsTell'
  <2>1. ASSUME NEW g \in owed' \cap Runs[pass.at]
        PROVE  IF <<"path", g>> \in DOMAIN agg'
               THEN /\ agg'[<<"path", g>>].path = g
                    /\ agg'[<<"path", g>>].total = Printed(Size[g])
                    /\ agg'[<<"path", g>>].down = Printed(best'[g])
               ELSE best'[g] = 0
    <3>1. CASE g = f
      BY <1>2, <1>3, <1>4, <3>1
    <3>2. CASE g # f
      <4>1. g \in Files /\ best'[g] = best[g] /\ g \in owed \cap Runs[pass.at]
        BY <1>1, <1>2, <3>2 DEF FeedTypes
      <4>2. <<"path", g>> # k
        BY <1>3, <3>2
      <4>3. <<"path", g>> \in DOMAIN agg' <=> <<"path", g>> \in DOMAIN agg
        BY <1>4, <4>2
      <4>4. IF <<"path", g>> \in DOMAIN agg
            THEN /\ agg[<<"path", g>>].path = g
                 /\ agg[<<"path", g>>].total = Printed(Size[g])
                 /\ agg[<<"path", g>>].down = Printed(best[g])
            ELSE best[g] = 0
        BY <1>1, <1>2, <4>1 DEF BarsTell
      <4> QED BY <1>4, <4>1, <4>2, <4>3, <4>4
    <3> QED BY <3>1, <3>2
  <2> QED BY <1>2, <2>1 DEF BarsTell
<1>6. EveryByteOnce'
  <2> DEFINE F == [g \in Files |-> Printed(best[g])]
             G == [g \in Files |-> Printed(best'[g])]
             rest == Files \ {f}
  <2>1. st.done = seed + SumFunctionOnSet(F, Files)
    BY <1>1, <1>2 DEF EveryByteOnce, Stages
  <2>2. \A g \in Files : F[g] \in Nat /\ G[g] \in Nat /\ (g # f => F[g] = G[g])
    <3>1. best \in [Files -> Nat]
      BY <1>1 DEF FeedTypes
    <3> QED BY <1>2, <3>1, PrintedIs
  <2>3. f \in Files /\ IsFiniteSet(Files) /\ IsFiniteSet(rest)
    BY FilesFinite, FS_RemoveElement
  <2>4. F[f] = Printed(best[f]) /\ G[f] = Printed(best'[f])
    OBVIOUS
  <2> HIDE DEF F, G
  <2>5. /\ SumFunctionOnSet(F, Files) = F[f] + SumFunctionOnSet(F, rest)
        /\ SumFunctionOnSet(G, Files) = G[f] + SumFunctionOnSet(G, rest)
    BY <2>2, <2>3, TotalRemove
  <2>6. \A g \in rest : F[g] \in Nat /\ F[g] = G[g]
    BY <2>2
  <2> HIDE DEF rest
  <2>7. SumFunctionOnSet(F, rest) = SumFunctionOnSet(G, rest) /\ SumFunctionOnSet(F, rest) \in Nat
    BY <2>3, <2>6, TotalSame, TotalType
  <2>8. /\ F[f] \in Nat /\ G[f] \in Nat /\ Printed(n) \in Nat /\ seed \in Nat
        /\ G[f] = Larger(F[f], Printed(n))
        /\ st'.done = st.done + (IF Printed(n) > F[f] THEN Printed(n) - F[f] ELSE 0)
    <3>1. n \in Nat
      BY SizeIs
    <3> QED BY <1>1, <1>2, <1>3, <1>4, <2>2, <2>4, <3>1, PrintedIs DEF FeedTypes
  <2>9. st'.done = seed + SumFunctionOnSet(G, Files)
    BY <2>1, <2>5, <2>7, <2>8 DEF Larger
  <2> QED BY <1>2, <2>9 DEF EveryByteOnce, G
<1> QED BY <1>5, <1>6

(* A line closes the row of its own file, when its bar is full.            *)
LEMMA LineRows ==
    ASSUME FeedInv, NEW f \in Files, NEW n \in 0 .. Size[f], Line(f, n),
           Nameable, ~pass.moved, mgr.files \/ NamesDiffer
    PROVE  RowsTell'
<1>1. FeedTypes /\ Stages /\ CardHolds /\ RowsTell
  BY DEF FeedInv
<1>2. /\ stage = "run" /\ pass' = pass /\ f \in owed \cap Runs[pass.at] /\ owed' \subseteq owed
      /\ best' \in [Files -> Nat]
      /\ Printed(best'[f]) = Larger(Printed(best[f]), Printed(n))
      /\ \A g \in Files : best'[g] >= best[g] /\ best'[g] <= Size[g]
      /\ FeedTypes' /\ Stages' /\ CardHolds'
  BY LineMoves
<1> DEFINE rt == Route(agg, pass.tree \cap Runs[pass.at], Base[f], Printed(n), Printed(Size[f]))
           k == rt.key
           fs == rt.fs
           ends == Larger(fs.down, Printed(n)) >= agg'[k].total
<1>3. /\ f \in pass.tree /\ fs.path = f /\ fs.down = Printed(best[f])
      /\ Larger(fs.total, Printed(Size[f])) = Printed(Size[f])
  BY <1>2, NameableLine
<1>4. /\ st' \in St /\ mgr' \in Books /\ CardSound(st', mgr') /\ NotBack(st, st')
      /\ mgr'.files = mgr.files
      /\ OnlyRowOf(st, st', fs.path)
      /\ agg'[k].total = Larger(fs.total, Printed(Size[f]))
      /\ \/ /\ DoneSame(st, st') /\ st'.fdone = st.fdone
            /\ mgr.done \subseteq mgr'.done
         \/ /\ ends /\ fs.path \notin mgr.done /\ mgr'.done = mgr.done \cup {fs.path}
            /\ st'.fdone <= st.fdone + 1
            /\ NewlyDone(st, st', fs.path)
  BY LineIs
<1>5. ends => Larger(Printed(best[f]), Printed(n)) >= Printed(Size[f])
  BY <1>3, <1>4
<1> HIDE DEF rt, k, fs, ends
<1>6. ends => Printed(best'[f]) = Printed(Size[f])
  <2>1. /\ Printed(best'[f]) \in Nat /\ Printed(Size[f]) \in Nat
        /\ Printed(best'[f]) <= Printed(Size[f])
    BY <1>2, SizeIs, PrintedIs
  <2> QED BY <1>2, <1>5, <2>1
<1>7. \A g \in Files : AsPrinted(g) => Printed(best'[g]) = Printed(Size[g])
  <2>1. ASSUME NEW g \in Files, AsPrinted(g) PROVE Printed(best'[g]) = Printed(Size[g])
    BY <1>1, <1>2, <2>1, StaysPrinted DEF AsPrinted
  <2> QED BY <2>1
<1>8. /\ st \in St /\ mgr \in Books /\ owed \subseteq Files /\ pass.tree \subseteq Files
      /\ st.fdone \in Nat /\ st'.fdone \in Nat
  BY <1>1, <1>4, StIs DEF FeedTypes, Passes
<1>9. /\ \A i \in DOMAIN st.files :
           st.files[i].status = "done" /\ st.files[i].path \in owed =>
              AsPrinted(st.files[i].path) /\ st.files[i].path \in mgr.done
      /\ mgr.files => st.fdone <= Cardinality(DoneAt(st.files))
      /\ ~mgr.files => \A i \in DOMAIN st.files : st.files[i].path \in pass.tree
  BY <1>1, <1>2 DEF RowsTell, Stages
<1>10. \A i \in DOMAIN st.files : i \in DOMAIN st'.files /\ st'.files[i].path = st.files[i].path
  BY <1>4 DEF NotBack
<1>11. ~mgr.files => \A i \in DOMAIN st'.files : st'.files[i].path \in pass.tree
  BY <1>3, <1>4, <1>9, <1>10 DEF OnlyRowOf
<1>12. mgr.done \subseteq mgr'.done
  BY <1>4
<1>13. ASSUME NEW i \in DOMAIN st.files, st.files[i].status = "done", st'.files[i].path \in owed'
       PROVE  Printed(best'[st'.files[i].path]) = Printed(Size[st'.files[i].path]) /\ st'.files[i].path \in mgr'.done
  <2>1. st'.files[i].path = st.files[i].path /\ st.files[i].path \in owed
    BY <1>2, <1>10, <1>13
  <2>2. AsPrinted(st.files[i].path) /\ st.files[i].path \in mgr.done
    BY <1>9, <1>13, <2>1
  <2>3. st.files[i].path \in Files
    BY <1>8, <2>1
  <2> QED BY <1>7, <1>12, <2>1, <2>2, <2>3
<1>14. CASE DoneSame(st, st') /\ st'.fdone = st.fdone
  <2>1. \A i \in DOMAIN st'.files :
          st'.files[i].status = "done" /\ st'.files[i].path \in owed' =>
             Printed(best'[st'.files[i].path]) = Printed(Size[st'.files[i].path]) /\ st'.files[i].path \in mgr'.done
    BY <1>13, <1>14 DEF DoneSame
  <2>2. mgr.files => st'.fdone <= Cardinality(DoneAt(st'.files))
    BY <1>4, <1>8, <1>9, <1>14, FewerDone
  <2> QED BY <1>2, <1>4, <1>11, <2>1, <2>2 DEF RowsTell, AsPrinted
<1>15. CASE /\ ends /\ f \notin mgr.done /\ mgr'.done = mgr.done \cup {f}
            /\ st'.fdone <= st.fdone + 1 /\ NewlyDone(st, st', f)
  <2>1. PICK i \in DOMAIN st'.files :
          /\ st'.files[i].status = "done" /\ FileBase(st'.files[i].path) = FileBase(f)
          /\ \A j \in DOMAIN st'.files : st'.files[j].path = f => st'.files[i].path = f
          /\ \A j \in DOMAIN st'.files :
               st'.files[j].status = "done" =>
                  j = i \/ (j \in DOMAIN st.files /\ st.files[j].status = "done")
    BY <1>15 DEF NewlyDone
  <2>2. st'.files[i].path = f
    <3>1. CASE mgr.files
      <4>1. PICK j \in DOMAIN Queue : Queue[j] = f
        BY SourcesAreApart DEF Range
      <4>2. Pinned(st'.files)
        BY <1>4, <3>1 DEF CardSound
      <4>3. j \in DOMAIN st'.files
        BY <1>4, <4>1, <4>2, StIs, SourcesAreApart DEF Pinned
      <4> QED BY <2>1, <4>1, <4>2, <4>3 DEF Pinned
    <3>2. CASE ~mgr.files
      <4>1. st'.files[i].path \in pass.tree
        BY <1>11, <3>2
      <4>2. Base[st'.files[i].path] = Base[f]
        BY <1>8, <2>1, <4>1, FilesAreNames
      <4> QED BY <1>3, <3>2, <4>1, <4>2 DEF NamesDiffer
    <3> QED BY <3>1, <3>2
  <2>3. ASSUME NEW j \in DOMAIN st'.files, st'.files[j].status = "done",
               st'.files[j].path \in owed'
        PROVE  Printed(best'[st'.files[j].path]) = Printed(Size[st'.files[j].path]) /\ st'.files[j].path \in mgr'.done
    <3>1. CASE j = i
      BY <1>6, <1>15, <2>2, <3>1
    <3>2. CASE j # i
      <4>1. j \in DOMAIN st.files /\ st.files[j].status = "done"
        BY <2>1, <2>3, <3>2
      <4> QED BY <1>13, <2>3, <4>1
    <3> QED BY <3>1, <3>2
  <2>4. ASSUME mgr.files PROVE st'.fdone <= Cardinality(DoneAt(st'.files))
    <3>1. i \in DoneAt(st'.files)
      BY <2>1 DEF DoneAt
    <3>2. i \notin DoneAt(st.files)
      <4>1. SUFFICES ASSUME i \in DOMAIN st.files, st.files[i].status = "done" PROVE FALSE
        BY DEF DoneAt
      <4>2. st.files[i].path = f
        BY <1>10, <2>2, <4>1
      <4> QED BY <1>2, <1>9, <1>15, <4>1, <4>2
    <3>3. /\ IsFiniteSet(DoneAt(st'.files)) /\ DoneAt(st.files) \subseteq DoneAt(st'.files)
          /\ Cardinality(DoneAt(st.files)) \in Nat /\ Cardinality(DoneAt(st'.files)) \in Nat
      BY <1>4, <1>8, FewerDone
    <3>4. Cardinality(DoneAt(st'.files) \ {i}) = Cardinality(DoneAt(st'.files)) - 1
      BY <3>1, <3>3, FS_RemoveElement
    <3>5. /\ IsFiniteSet(DoneAt(st'.files) \ {i})
          /\ DoneAt(st.files) \subseteq DoneAt(st'.files) \ {i}
      BY <3>2, <3>3, FS_RemoveElement
    <3>6. Cardinality(DoneAt(st.files)) <= Cardinality(DoneAt(st'.files) \ {i})
      BY <3>5, FS_Subset
    <3>7. st.fdone <= Cardinality(DoneAt(st.files))
      BY <1>9, <2>4
    <3> QED BY <1>8, <1>15, <3>3, <3>4, <3>6, <3>7
  <2> QED BY <1>2, <1>4, <1>11, <2>3, <2>4 DEF RowsTell, AsPrinted
<1> QED BY <1>3, <1>4, <1>14, <1>15

(* A line keeps the invariant and moves the card forward.                  *)
LEMMA LineKeeps ==
    ASSUME FeedInv, NEW f \in Files, NEW n \in 0 .. Size[f], Line(f, n)
    PROVE  FeedInv' /\ NotBack(st, st')
<1>1. /\ pass' = pass /\ FeedTypes' /\ Stages' /\ CardHolds' /\ stage' = stage
  BY LineMoves
<1>2. (Nameable' <=> Nameable) /\ (NamesDiffer' <=> NamesDiffer)
  BY <1>1, SamePass
<1>3. NotBack(st, st') /\ mgr'.files = mgr.files
  BY LineIs
<1>4. BarsTell' /\ EveryByteOnce'
  <2>1. CASE Nameable
    BY <2>1, LineTells
  <2>2. CASE ~Nameable
    BY <1>2, <2>2 DEF BarsTell, EveryByteOnce
  <2> QED BY <2>1, <2>2
<1>5. RowsTell'
  <2>1. CASE Nameable /\ ~pass.moved /\ (mgr.files \/ NamesDiffer)
    BY <2>1, LineRows
  <2>2. CASE ~(Nameable /\ ~pass.moved /\ (mgr.files \/ NamesDiffer))
    BY <1>1, <1>2, <1>3, <2>2 DEF RowsTell
  <2> QED BY <2>1, <2>2
<1> QED BY <1>1, <1>3, <1>4, <1>5 DEF FeedInv

-----------------------------------------------------------------------------
(***************************************************************************)
(* The other steps.                                                        *)
(***************************************************************************)

ForwardOnly == Downloading /\ Downloading' => NotBack(st, st')

(* Outside the download phase the card promises nothing.                   *)
LEMMA NotDownloading ==
    ASSUME ~Downloading', stage' # "run"
    PROVE  CardHolds' /\ BarsTell' /\ RowsTell' /\ EveryByteOnce' /\ ForwardOnly
BY DEF CardHolds, BarsTell, RowsTell, EveryByteOnce, ForwardOnly

(* The sources are a list of sets of files.                                *)
LEMMA RunsAre ==
    /\ Len(Runs) \in Nat /\ DOMAIN Runs = 1 .. Len(Runs)
    /\ \A i \in DOMAIN Runs : Runs[i] \subseteq Files
<1>1. Runs \in Seq(SUBSET Files)
  BY SourcesAreApart
<1>2. \A i \in 1 .. Len(Runs) : Runs[i] \in SUBSET Files
  BY <1>1, ElementOfSeq
<1> QED BY <1>1, <1>2

(* No bar has shown anything.                                              *)
LEMMA ZeroIs == Zero \in [Files -> Nat] /\ \A f \in Files : Zero[f] = 0
BY DEF Zero

(* What a process starts with is well formed.                              *)
LEMMA FreshIs == Fresh \in St /\ Idle \in Passes /\ NoBudget \in Books
<1>1. Fresh \in St
  BY DEF Fresh, St, Phases
<1>2. Idle \in Passes
  BY RunsAre DEF Idle, Passes
<1>3. NoBudget \in Books
  BY DEF NoBudget, Books
<1> QED BY <1>1, <1>2, <1>3

(* The invariant holds at first.                                           *)
LEMMA FeedStarts == FeedInit => FeedInv
<1> SUFFICES ASSUME FeedInit PROVE FeedInv
  OBVIOUS
<1> USE DEF FeedInit
<1>1. st = Fresh /\ mgr = NoBudget /\ pass = Idle /\ agg = <<>> /\ stage = "idle"
  OBVIOUS
<1>2. FeedTypes
  <2>1. \A f \in Files : bar[f] <= best[f] /\ best[f] <= Size[f]
    BY ZeroIs, SizeIs
  <2> QED BY <2>1, FreshIs, ZeroIs DEF FeedTypes
<1>3. ~Downloading
  BY DEF Downloading, Idle
<1>4. Stages
  BY <1>3 DEF Stages
<1>5. CardHolds /\ BarsTell /\ RowsTell /\ EveryByteOnce
  BY <1>1, <1>3 DEF CardHolds, BarsTell, RowsTell, EveryByteOnce
<1> QED BY <1>2, <1>4, <1>5 DEF FeedInv

(* A pass begins with nothing entered, so the card is no download's.       *)
LEMMA StartKeeps ==
    ASSUME FeedInv, NEW force \in BOOLEAN, Start(force)
    PROVE  FeedInv' /\ ForwardOnly
<1> USE DEF Start
<1>1. FeedTypes /\ Stages /\ stage = "idle" /\ stage' = "choose"
  BY DEF FeedInv
<1>2. pass' = [Idle EXCEPT !.force = force] /\ pass' \in Passes /\ ~pass'.entered
  <2>1. Idle \in Passes /\ ~Idle.entered
    BY FreshIs DEF Idle
  <2>2. pass' = [Idle EXCEPT !.force = force]
    OBVIOUS
  <2> QED BY <2>1, <2>2 DEF Passes
<1>3. ~Downloading'
  BY <1>2 DEF Downloading
<1>4. FeedTypes'
  BY <1>1, <1>2 DEF FeedTypes
<1>5. Stages'
  BY <1>1, <1>2, <1>3 DEF Stages
<1> QED BY <1>1, <1>3, <1>4, <1>5, NotDownloading DEF FeedInv

(* The source at hand is passed over.                                      *)
LEMMA NextSource ==
    ASSUME FeedTypes, pass.at \in DOMAIN Runs, pass' = [pass EXCEPT !.at = @ + 1]
    PROVE  /\ pass' \in Passes /\ pass'.entered = pass.entered /\ pass'.moved = pass.moved
           /\ pass'.tree = pass.tree /\ pass'.ran = pass.ran
           /\ (Nameable' <=> Nameable) /\ (NamesDiffer' <=> NamesDiffer)
<1>1. pass \in Passes /\ pass.at + 1 \in 1 .. Len(Runs) + 1
  BY RunsAre DEF FeedTypes, Passes
<1>2. /\ pass' \in Passes /\ pass'.entered = pass.entered /\ pass'.moved = pass.moved
      /\ pass'.tree = pass.tree /\ pass'.ran = pass.ran
  BY <1>1 DEF Passes
<1> QED BY <1>2 DEF Nameable, NamesDiffer

(* A record moves the pass on and leaves the card.                         *)
LEMMA ReuseKeeps == ASSUME FeedInv, Reuse PROVE FeedInv' /\ ForwardOnly
<1> USE DEF Reuse
<1>1. FeedTypes /\ Stages /\ CardHolds /\ RowsTell /\ EveryByteOnce /\ stage = "choose"
  BY DEF FeedInv
<1>2. pass.at \in DOMAIN Runs
  BY <1>1, RunsAre DEF FeedTypes, Passes
<1>3. /\ pass' \in Passes /\ pass'.entered = pass.entered /\ pass'.moved = pass.moved
      /\ pass'.tree = pass.tree /\ pass'.ran = pass.ran
      /\ (Nameable' <=> Nameable) /\ (NamesDiffer' <=> NamesDiffer)
  BY <1>1, <1>2, NextSource
<1>4. FeedTypes'
  BY <1>1, <1>3 DEF FeedTypes
<1>5. Downloading' <=> Downloading
  BY <1>3 DEF Downloading
<1>6. Stages'
  BY <1>1, <1>3, <1>5 DEF Stages
<1>7. CardHolds'
  BY <1>1, <1>5 DEF CardHolds
<1>8. BarsTell'
  BY <1>1 DEF BarsTell
<1>9. RowsTell'
  BY <1>1, <1>3, <1>5 DEF RowsTell, AsPrinted
<1>10. EveryByteOnce'
  BY <1>1, <1>3, <1>5 DEF EveryByteOnce
<1>11. ForwardOnly
  BY <1>1, NotBackSelf DEF ForwardOnly, FeedTypes
<1> QED BY <1>4, <1>6, <1>7, <1>8, <1>9, <1>10, <1>11 DEF FeedInv

(* A file that finishes unseen is owed no longer, and the card is          *)
(* unchanged.                                                              *)
LEMMA SilentKeeps ==
    ASSUME FeedInv, NEW f \in Files, Silent(f) PROVE FeedInv' /\ ForwardOnly
<1> USE DEF Silent, Fetched
<1>1. FeedTypes /\ Stages /\ CardHolds /\ BarsTell /\ RowsTell /\ EveryByteOnce /\ stage = "run"
  BY DEF FeedInv
<1>2. (Nameable' <=> Nameable) /\ (NamesDiffer' <=> NamesDiffer)
  BY SamePass
<1>3. FeedTypes'
  BY <1>1 DEF FeedTypes
<1>4. Downloading' <=> Downloading
  BY DEF Downloading
<1>5. Stages'
  BY <1>1, <1>4 DEF Stages
<1>6. CardHolds'
  BY <1>1, <1>4 DEF CardHolds
<1>7. BarsTell'
  BY <1>1, <1>2 DEF BarsTell
<1>8. RowsTell'
  BY <1>1, <1>2, <1>4 DEF RowsTell, AsPrinted
<1>9. EveryByteOnce'
  BY <1>1, <1>2, <1>4 DEF EveryByteOnce
<1>10. ForwardOnly
  BY <1>1, NotBackSelf DEF ForwardOnly, FeedTypes
<1> QED BY <1>3, <1>5, <1>6, <1>7, <1>8, <1>9, <1>10 DEF FeedInv

(* The banner only raises the number of files.                             *)
LEMMA BannerKeeps == ASSUME FeedInv, Banner PROVE FeedInv' /\ ForwardOnly
<1> USE DEF Banner, Publish, OnFilesTotal, Update, Now
<1>1. FeedTypes /\ Stages /\ CardHolds /\ BarsTell /\ RowsTell /\ EveryByteOnce /\ stage = "run"
  BY DEF FeedInv
<1>2. (Nameable' <=> Nameable) /\ (NamesDiffer' <=> NamesDiffer)
  BY SamePass
<1> DEFINE n == Cardinality(Runs[pass.at])
<1>3. n \in Nat
  BY <1>1, SourceIs, FilesFinite, FS_Subset, FS_CardinalityType
<1>4. st \in St /\ mgr \in Books /\ mgr' = mgr /\ st' = [st EXCEPT !.ftotal = Larger(@, n)]
  BY <1>1 DEF FeedTypes
<1> HIDE DEF n
<1>5. /\ st' \in St /\ st'.files = st.files /\ st'.fdone = st.fdone /\ st'.done = st.done
      /\ st'.phase = st.phase /\ st'.ftotal = Larger(st.ftotal, n)
  <2>1. Larger(st.ftotal, n) \in Nat
    BY <1>3, <1>4, StIs DEF Larger
  <2> QED BY <1>4, <2>1 DEF St
<1>6. Downloading /\ (Downloading' <=> Downloading)
  BY <1>1, <1>5 DEF Downloading, Stages
<1>7. CardSound(st', mgr') /\ NotBack(st, st')
  <2>1. /\ st.ftotal \in Nat /\ st.fdone \in Nat /\ st.done \in Nat
        /\ CardSound(st, mgr) /\ st.fdone <= st.ftotal
    BY <1>1, <1>4, <1>6, StIs DEF CardHolds, CardSound
  <2>2. /\ st'.ftotal >= st.ftotal /\ st'.fdone >= st.fdone /\ st'.fdone <= st'.ftotal
        /\ st'.done >= st.done
    BY <1>3, <1>5, <2>1 DEF Larger
  <2> QED BY <1>4, <1>5, <2>1, <2>2, Recounted
<1>8. FeedTypes'
  BY <1>1, <1>4, <1>5 DEF FeedTypes
<1>9. Stages'
  BY <1>1, <1>6 DEF Stages
<1>10. CardHolds'
  <2>1. BarsHaveRows(st', agg')
    BY <1>1, <1>5, <1>6 DEF CardHolds, BarsHaveRows, HasRow
  <2> QED BY <1>7, <2>1 DEF CardHolds
<1>11. BarsTell'
  BY <1>1, <1>2 DEF BarsTell
<1>12. RowsTell'
  BY <1>1, <1>2, <1>4, <1>5, <1>6 DEF RowsTell, AsPrinted
<1>13. EveryByteOnce'
  BY <1>1, <1>2, <1>5, <1>6 DEF EveryByteOnce
<1> QED BY <1>7, <1>8, <1>9, <1>10, <1>11, <1>12, <1>13 DEF FeedInv, ForwardOnly

(* A run that succeeds owes nothing of its source.                         *)
LEMMA ExitOkKeeps == ASSUME FeedInv, ExitOk PROVE FeedInv' /\ ForwardOnly
<1> USE DEF ExitOk
<1>1. FeedTypes /\ Stages /\ CardHolds /\ RowsTell /\ EveryByteOnce /\ stage = "run"
  BY DEF FeedInv
<1>2. pass.at \in DOMAIN Runs
  BY <1>1, SourceIs
<1>3. /\ pass' \in Passes /\ pass'.entered = pass.entered /\ pass'.moved = pass.moved
      /\ pass'.tree = pass.tree /\ pass'.ran = pass.ran
      /\ (Nameable' <=> Nameable) /\ (NamesDiffer' <=> NamesDiffer)
  BY <1>1, <1>2, NextSource
<1>4. FeedTypes'
  <2>1. \A f \in Files : bar'[f] <= best'[f] /\ best'[f] <= Size[f]
    BY <1>1, ZeroIs DEF FeedTypes
  <2> QED BY <1>1, <1>2, <1>3, <2>1, ZeroIs DEF FeedTypes
<1>5. Downloading /\ (Downloading' <=> Downloading)
  BY <1>1, <1>3 DEF Downloading, Stages
<1>6. Stages'
  BY <1>1, <1>3, <1>5 DEF Stages
<1>7. CardHolds'
  BY <1>1, <1>5 DEF CardHolds, BarsHaveRows
<1>8. BarsTell'
  BY <1>1 DEF BarsTell
<1>9. RowsTell'
  BY <1>1, <1>3, <1>5 DEF RowsTell, AsPrinted
<1>10. EveryByteOnce'
  BY <1>1, <1>3, <1>5 DEF EveryByteOnce
<1>11. ForwardOnly
  BY <1>1, NotBackSelf DEF ForwardOnly, FeedTypes
<1> QED BY <1>4, <1>6, <1>7, <1>8, <1>9, <1>10, <1>11 DEF FeedInv

(* hf is gone, and nothing is downloading.                                 *)
LEMMA QuietKeeps ==
    ASSUME FeedInv, Quiet, st' \in St, mgr' \in Books, pass' \in Passes, saved' \in St,
           rec' = rec, have' = have, stale' = stale,
           stage' \in {"idle", "loading"}, ~Downloading'
    PROVE  FeedInv' /\ ForwardOnly
<1> USE DEF Quiet
<1>1. FeedTypes
  BY DEF FeedInv
<1>2. FeedTypes'
  <2>1. \A f \in Files : bar'[f] <= best'[f] /\ best'[f] <= Size[f]
    BY ZeroIs, SizeIs
  <2> QED BY <1>1, <2>1, ZeroIs DEF FeedTypes
<1>3. Stages'
  BY DEF Stages
<1> QED BY <1>2, <1>3, NotDownloading DEF FeedInv

(* A failure ends the phase.                                               *)
LEMMA ExitFailKeeps == ASSUME FeedInv, ExitFail PROVE FeedInv' /\ ForwardOnly
<1> USE DEF ExitFail, Publish, OnPhase, Update, Now
<1>1. FeedTypes
  BY DEF FeedInv
<1>2. st' = [st EXCEPT !.phase = "degraded"] /\ mgr' = mgr
  BY <1>1 DEF FeedTypes
<1>3. st' \in St /\ st'.phase = "degraded"
  BY <1>1, <1>2 DEF FeedTypes, St, Phases
<1>4. ~Downloading'
  BY <1>3 DEF Downloading
<1> QED BY <1>1, <1>2, <1>3, <1>4, QuietKeeps DEF FeedTypes

(* A settled card is a card.                                               *)
LEMMA SettledIs == ASSUME NEW s \in St PROVE SettleFileRows(s) \in St
                                             /\ SettleFileRows(s).phase = s.phase
<1> DEFINE rows == [i \in DOMAIN s.files |->
                     [s.files[i] EXCEPT !.status = "done",
                                        !.done = IF s.files[i].total > 0 THEN s.files[i].total ELSE @]]
           n == Larger(s.ftotal, Len(rows))
<1>1. ASSUME NEW i \in DOMAIN s.files PROVE rows[i] \in Row
  <2> DEFINE old == s.files[i]
  <2>1. old \in Row /\ old.total \in Nat /\ old.done \in Nat
    BY StIs
  <2> HIDE DEF old
  <2>2. [old EXCEPT !.status = "done", !.done = IF old.total > 0 THEN old.total ELSE @] \in Row
    BY <2>1 DEF Row
  <2> QED BY <2>2 DEF old
<1>2. rows \in [1 .. Len(s.files) -> Row] /\ Len(s.files) \in Nat
  BY <1>1, StIs
<1>3. SettleFileRows(s) = [s EXCEPT !.files = rows, !.ftotal = n, !.fdone = n]
  BY DEF SettleFileRows
<1> HIDE DEF rows
<1>4. rows \in Seq(Row) /\ Len(rows) \in Nat
  BY <1>2
<1>5. n \in Nat
  BY <1>4, StIs DEF Larger
<1> HIDE DEF n
<1> QED BY <1>3, <1>4, <1>5 DEF St

(* The size of some files is a number.                                     *)
LEMMA TotalIs == \A S \in SUBSET Files : Total(S) \in Nat
<1> SUFFICES ASSUME NEW S \in SUBSET Files PROVE Total(S) \in Nat
  OBVIOUS
<1>1. IsFiniteSet(S)
  BY FilesFinite, FS_Subset
<1>2. \A f \in S : Size[f] \in Nat
  BY SizeIs
<1> QED BY <1>1, <1>2, TotalType DEF Total

(* Settling the rows ends the phase.                                       *)
LEMMA LoadKeeps == ASSUME FeedInv, Load PROVE FeedInv' /\ ForwardOnly
<1> USE DEF Load
<1>1. FeedTypes
  BY DEF FeedInv
<1> DEFINE n == Larger(st.total, Total(have))
           s == [st EXCEPT !.total = n, !.done = n]
           t == [s EXCEPT !.phase = "loading"]
<1>2. n \in Nat
  BY <1>1, StIs, TotalIs DEF FeedTypes, Larger
<1>3. ReconcileModelBytes(Now) = [st |-> s, mgr |-> mgr]
  BY DEF ReconcileModelBytes, Update, Now
<1> HIDE DEF n
<1>4. s \in St
  BY <1>1, <1>2 DEF FeedTypes, St
<1>5. t \in St /\ t.phase = "loading"
  BY <1>4 DEF St, Phases
<1>6. SetPhase(ReconcileModelBytes(Now), "loading") = [st |-> SettleFileRows(t), mgr |-> mgr]
  BY <1>3 DEF SetPhase, Update
<1> HIDE DEF s, t
<1>7. st' = SettleFileRows(t) /\ mgr' = mgr
  BY <1>6 DEF Publish
<1>8. st' \in St /\ st'.phase = "loading"
  BY <1>5, <1>7, SettledIs
<1>9. ~Downloading'
  BY <1>8 DEF Downloading
<1> QED BY <1>1, <1>7, <1>8, <1>9, QuietKeeps DEF FeedTypes

(* The engine answers: no download.                                        *)
LEMMA AliveKeeps == ASSUME FeedInv, Alive PROVE FeedInv' /\ ForwardOnly
<1> USE DEF Alive
<1>1. FeedTypes /\ Stages /\ stage = "loading"
  BY DEF FeedInv
<1>2. st' = [st EXCEPT !.phase = "ready"] /\ mgr' = mgr
  BY DEF Publish, SetPhase, Update, Now
<1>3. st' \in St /\ st'.phase = "ready"
  BY <1>1, <1>2 DEF FeedTypes, St, Phases
<1>4. ~Downloading'
  BY <1>3 DEF Downloading
<1>5. FeedTypes'
  BY <1>1, <1>2, <1>3 DEF FeedTypes
<1>6. Stages'
  BY <1>1, <1>4 DEF Stages
<1> QED BY <1>4, <1>5, <1>6, NotDownloading DEF FeedInv

(* The branch moves between passes only.                                   *)
LEMMA BranchMovesKeeps ==
    ASSUME FeedInv, NEW S \in SUBSET Files, BranchMoves(S) PROVE FeedInv' /\ ForwardOnly
<1> USE DEF BranchMoves
<1>1. FeedTypes /\ Stages /\ stage = "idle"
  BY DEF FeedInv
<1>2. FeedTypes'
  BY <1>1 DEF FeedTypes
<1>3. ~Downloading'
  BY <1>1 DEF Downloading, Stages
<1>4. Stages'
  BY <1>1, <1>3 DEF Stages
<1> QED BY <1>1, <1>2, <1>3, <1>4, NotDownloading DEF FeedInv

(* A process that starts has a well formed card and no pass.               *)
LEMMA RestartKeeps ==
    ASSUME FeedInv, NEW graceful \in BOOLEAN, Restart(graceful) PROVE FeedInv' /\ ForwardOnly
<1> USE DEF Restart
<1>1. FeedTypes
  BY DEF FeedInv
<1>2. Sanitised(st) \in St
  <2>1. [Fresh EXCEPT !.phase = "ready", !.total = st.total, !.done = st.done] \in St
    BY <1>1, FreshIs, StIs DEF St, FeedTypes, Phases
  <2> QED BY <2>1, FreshIs DEF Sanitised
<1>3. saved' \in St /\ st' \in St
  BY <1>1, <1>2 DEF FeedTypes
<1>4. pass' \in Passes /\ ~Downloading'
  BY FreshIs DEF Downloading, Idle
<1> QED BY <1>3, <1>4, FreshIs, QuietKeeps

(* The rows of a new queue.                                                *)
LEMMA QueueRowsAre ==
    ASSUME NEW cached \in SUBSET Files
    PROVE  LET rows == QueueRows(cached)
           IN  /\ rows \in Seq(Row) /\ Len(rows) = Len(Queue) /\ DOMAIN rows = 1 .. Len(Queue)
               /\ Len(Queue) \in Nat
               /\ Pinned(rows)
               /\ \A i \in DOMAIN rows :
                    /\ rows[i].done <= rows[i].total
                    /\ rows[i].status = "done" => rows[i].path \in cached
<1> DEFINE rows == QueueRows(cached)
<1>1. Queue \in Seq(Files) /\ Len(Queue) \in Nat /\ DOMAIN Queue = 1 .. Len(Queue)
  BY SourcesAreApart
<1>2. ASSUME NEW i \in 1 .. Len(Queue)
      PROVE  /\ rows[i] \in Row /\ rows[i].path = Queue[i] /\ rows[i].total > 0
             /\ rows[i].done <= rows[i].total
             /\ rows[i].status = "done" => rows[i].path \in cached
  <2>1. Queue[i] \in Files
    BY <1>1, ElementOfSeq
  <2>2. Queue[i] \in Names /\ Size[Queue[i]] \in Nat /\ Size[Queue[i]] > 0
    BY <2>1, FilesAreNames, SizeIs
  <2>3. rows[i] = IF Queue[i] \in cached
          THEN [path |-> Queue[i], total |-> Size[Queue[i]], done |-> Size[Queue[i]], status |-> "done"]
          ELSE [path |-> Queue[i], total |-> Size[Queue[i]], done |-> 0, status |-> "waiting"]
    BY <1>1 DEF QueueRows
  <2> HIDE DEF rows
  <2> QED BY <2>2, <2>3 DEF Row
<1>3. DOMAIN rows = 1 .. Len(Queue) /\ rows = [i \in 1 .. Len(Queue) |-> rows[i]]
  BY <1>1 DEF QueueRows
<1> HIDE DEF rows
<1>4. rows \in Seq(Row) /\ Len(rows) = Len(Queue)
  BY <1>1, <1>2, <1>3
<1>5. Pinned(rows)
  BY <1>2, <1>3, <1>4 DEF Pinned
<1> QED BY <1>1, <1>2, <1>3, <1>4, <1>5 DEF rows

(* A segment of n numbers has n elements.                                  *)
LEMMA CountTo == \A n \in Nat : IsFiniteSet(1 .. n) /\ Cardinality(1 .. n) = n
<1> SUFFICES ASSUME NEW n \in Nat PROVE IsFiniteSet(1 .. n) /\ Cardinality(1 .. n) = n
  OBVIOUS
<1>1. IsFiniteSet(1 .. n) /\ Cardinality(1 .. n) = IF 1 > n THEN 0 ELSE n - 1 + 1
  BY FS_Interval
<1> QED BY <1>1

(* What the two seeding calls leave in the state and in the manager.       *)
WithBudget(z, total, completed) ==
  [z EXCEPT !.total = total, !.done = Smaller(completed, total)]
WithBytes(N, total) == [N EXCEPT !.bytes = total > 0]
WithRows(z, rows) ==
  [z EXCEPT !.files = rows, !.ftotal = Len(rows), !.fdone = Cardinality(DoneAt(rows))]
WithList(N, rows) == [N EXCEPT !.files = rows # <<>>]

(* seedDownloadBudget: the totals of the estimate, and whether they are    *)
(* pinned.                                                                 *)
LEMMA BudgetSeeded ==
    ASSUME NEW z, NEW N \in Books, NEW total, NEW completed
    PROVE  /\ WithBytes(N, total) \in Books
           /\ SeedDownloadBudget([st |-> z, mgr |-> N], total, completed) =
                [st |-> WithBudget(z, total, completed), mgr |-> WithBytes(N, total)]
<1> DEFINE w == [st |-> z, mgr |-> N]
           s == WithBudget(z, total, completed)
           b == total > 0
<1>1. w.st = z /\ b \in BOOLEAN
  OBVIOUS
<1>2. SeedDownloadBudget(w, total, completed) =
          [[w EXCEPT !.st = s] EXCEPT !.mgr.bytes = b]
  BY <1>1, Zenon DEF SeedDownloadBudget, Update, WithBudget
<1> HIDE DEF b, s
<1>3. [w EXCEPT !.st = s] = [st |-> s, mgr |-> N]
  OBVIOUS
<1>4. [[st |-> s, mgr |-> N] EXCEPT !.mgr.bytes = b] = [st |-> s, mgr |-> [N EXCEPT !.bytes = b]]
  BY <1>1 DEF Books
<1>5. [N EXCEPT !.bytes = b] \in Books
  BY <1>1 DEF Books
<1> QED BY <1>2, <1>3, <1>4, <1>5, Zenon DEF b, s, WithBytes

(* seedDownloadFileList: the rows of the estimate, and whether they are    *)
(* pinned.                                                                 *)
LEMMA ListSeeded ==
    ASSUME NEW z, NEW N \in Books, NEW rows
    PROVE  /\ WithList(N, rows) \in Books
           /\ WithList(N, rows).files <=> rows # <<>>
           /\ SeedDownloadFileList([st |-> z, mgr |-> N], rows) =
                [st |-> WithRows(z, rows), mgr |-> WithList(N, rows)]
<1> DEFINE w == [st |-> z, mgr |-> N]
           s == WithRows(z, rows)
           b == rows # <<>>
<1>1. w.st = z /\ b \in BOOLEAN
  OBVIOUS
<1>2. SeedDownloadFileList(w, rows) =
          [[w EXCEPT !.st = s] EXCEPT !.mgr.files = b]
  BY <1>1, Zenon DEF SeedDownloadFileList, Update, DoneAt, WithRows
<1> HIDE DEF b, s
<1>3. [w EXCEPT !.st = s] = [st |-> s, mgr |-> N]
  OBVIOUS
<1>4. [[st |-> s, mgr |-> N] EXCEPT !.mgr.files = b] = [st |-> s, mgr |-> [N EXCEPT !.files = b]]
  BY <1>1 DEF Books
<1>5. [N EXCEPT !.files = b] \in Books /\ ([N EXCEPT !.files = b].files <=> b)
  BY <1>1 DEF Books
<1> QED BY <1>2, <1>3, <1>4, <1>5, Zenon DEF b, s, WithList

(* A card entering the download phase: empty, or seeded with the queue.    *)
LEMMA EnteredIs ==
    ASSUME FeedTypes, NEW force \in BOOLEAN, NEW tree
    PROVE  LET x == OnPhase(EnterDownloadPhase(Now, force, tree), "download")
           IN  /\ x.st \in St /\ x.mgr \in Books /\ x.st.phase = "download"
               /\ x.st.done = EnterDownloadPhase(Now, force, tree).st.done
               /\ CardSound(x.st, x.mgr)
               /\ \A i \in DOMAIN x.st.files :
                    x.st.files[i].status = "done" => x.st.files[i].path \in Cached(force)
               /\ x.mgr.files => x.st.fdone <= Cardinality(DoneAt(x.st.files))
               /\ ~x.mgr.files => x.st.files = <<>>
<1> DEFINE z == [st EXCEPT !.phase = "download", !.total = 0, !.done = 0, !.ftotal = 0,
                           !.fdone = 0, !.cur = "", !.files = <<>>]
           e == EnterDownloadPhase(Now, force, tree)
           x == OnPhase(e, "download")
<1>1. SetPhase(Now, "download") = [st |-> z, mgr |-> NoBudget]
  BY DEF SetPhase, Update, Now
<1>2. /\ z \in St /\ z.phase = "download" /\ z.done = 0 /\ z.ftotal = 0 /\ z.fdone = 0
      /\ z.files = <<>>
  <2>1. st \in St /\ "download" \in Phases /\ <<>> \in Seq(Row)
    BY DEF FeedTypes, Phases
  <2> QED BY <2>1 DEF St
<1> HIDE DEF z
<1>3. CASE tree # Files
  <2>1. e = [st |-> z, mgr |-> NoBudget]
    BY <1>1, <1>3 DEF EnterDownloadPhase
  <2> HIDE DEF e
  <2>2. x = [st |-> [z EXCEPT !.phase = "download"], mgr |-> NoBudget]
    BY <2>1 DEF OnPhase, Update
  <2>3. [z EXCEPT !.phase = "download"] = z
    BY <1>2 DEF St
  <2>4. x.st = z /\ x.mgr = NoBudget /\ e.st = z
    BY <2>1, <2>2, <2>3
  <2> HIDE DEF x
  <2>5. ~NoBudget.files
    BY DEF NoBudget
  <2>6. CardSound(z, NoBudget)
    BY <1>2, <2>5 DEF CardSound, Loose
  <2> QED BY <1>2, <2>4, <2>5, <2>6, FreshIs DEF x, e
<1>4. CASE tree = Files
  <2> DEFINE cached == Cached(force)
             rows == QueueRows(cached)
             total == Total(Files)
             done == Smaller(Total(cached), total)
             fdone == Cardinality(DoneAt(rows))
             r == WithBudget(z, total, Total(cached))
             l == WithBytes(NoBudget, total)
             s == WithRows(r, rows)
             m == WithList(l, rows)
  <2>0. /\ l \in Books /\ m \in Books
        /\ m.files <=> rows # <<>>
    BY BudgetSeeded, ListSeeded, FreshIs, Zenon
  <2>1. e = [st |-> s, mgr |-> m]
    <3>1. e = SeedDownloadFileList(
                SeedDownloadBudget([st |-> z, mgr |-> NoBudget], total, Total(cached)), rows)
      BY <1>1, <1>4 DEF EnterDownloadPhase
    <3>2. SeedDownloadBudget([st |-> z, mgr |-> NoBudget], total, Total(cached)) =
            [st |-> r, mgr |-> l]
      BY BudgetSeeded, FreshIs, Zenon
    <3>3. SeedDownloadFileList([st |-> r, mgr |-> l], rows) = [st |-> s, mgr |-> m]
      BY <2>0, ListSeeded, Zenon
    <3> HIDE DEF r, l, rows, e, s, m
    <3> QED BY <3>1, <3>2, <3>3, Zenon
  <2>2. cached \in SUBSET Files
    BY DEF Cached, FeedTypes
  <2>3. total \in Nat /\ Total(cached) \in Nat /\ done \in Nat
    BY <2>2, TotalIs DEF Smaller
  <2> HIDE DEF cached, total, done
  <2>4. /\ rows \in Seq(Row) /\ Len(rows) = Len(Queue) /\ DOMAIN rows = 1 .. Len(Queue)
        /\ Len(Queue) \in Nat /\ Pinned(rows)
        /\ \A i \in DOMAIN rows :
             /\ rows[i].done <= rows[i].total
             /\ rows[i].status = "done" => rows[i].path \in cached
    BY <2>2, QueueRowsAre
  <2>5. fdone = Cardinality(DoneAt(rows))
    OBVIOUS
  <2> HIDE DEF rows, fdone
  <2>6. fdone \in Nat /\ fdone <= Len(rows)
    <3>1. IsFiniteSet(1 .. Len(Queue)) /\ Cardinality(1 .. Len(Queue)) = Len(Queue)
      BY <2>4, CountTo
    <3>2. DoneAt(rows) \subseteq 1 .. Len(Queue)
      BY <2>4 DEF DoneAt
    <3>3. IsFiniteSet(DoneAt(rows)) /\ Cardinality(DoneAt(rows)) <= Cardinality(1 .. Len(Queue))
      BY <3>1, <3>2, FS_Subset
    <3> QED BY <2>4, <2>5, <3>1, <3>3, FS_CardinalityType
  <2>7. /\ s \in St /\ s.phase = "download" /\ s.done = done /\ s.files = rows
        /\ s.ftotal = Len(rows) /\ s.fdone = fdone
    BY <1>2, <2>3, <2>4, <2>6 DEF St, WithBudget, WithRows, rows, fdone, done, total, cached
  <2>8. m \in Books /\ (m.files <=> rows # <<>>)
    BY <2>0
  <2> HIDE DEF e, s, m
  <2>9. x = [st |-> [s EXCEPT !.phase = "download"], mgr |-> m]
    BY <2>1 DEF OnPhase, Update
  <2>10. [s EXCEPT !.phase = "download"] = s
    BY <2>7 DEF St
  <2>11. x.st = s /\ x.mgr = m /\ e.st = s
    BY <2>1, <2>9, <2>10
  <2> HIDE DEF x
  <2>12. CardSound(s, m)
    <3>1. s.fdone <= s.ftotal /\ Len(s.files) <= s.ftotal
      BY <2>4, <2>6, <2>7
    <3>2. \A i \in DOMAIN s.files : s.files[i].done <= s.files[i].total
      BY <2>4, <2>7
    <3>3. ~m.files => Loose(s.files)
      BY <2>7, <2>8 DEF Loose
    <3> QED BY <2>4, <2>7, <3>1, <3>2, <3>3 DEF CardSound
  <2>13. /\ \A i \in DOMAIN s.files : s.files[i].status = "done" => s.files[i].path \in cached
         /\ m.files => s.fdone <= Cardinality(DoneAt(s.files))
         /\ ~m.files => s.files = <<>>
    BY <2>4, <2>5, <2>6, <2>7, <2>8
  <2> QED BY <2>7, <2>8, <2>11, <2>12, <2>13 DEF x, e, cached
<1> QED BY <1>3, <1>4

(* What hf is run for.                                                     *)
LEMMA SpawnIs ==
    ASSUME FeedTypes, NEW tree \in Listings, Spawn(tree)
    PROVE  /\ stage = "choose" /\ stage' = "run" /\ pass.at \in DOMAIN Runs
           /\ pass' \in Passes /\ pass'.entered /\ pass'.tree = tree /\ pass'.at = pass.at
           /\ pass'.ran = pass.ran \cup {pass.at} /\ pass'.force = pass.force
           /\ pass'.moved = (pass.moved \/ (~pass.entered /\ stale # {}))
           /\ agg' = <<>> /\ bar' = Zero
<1> USE DEF Spawn
<1>1. pass \in Passes
  BY DEF FeedTypes
<1>2. pass.at \in DOMAIN Runs
  BY <1>1, RunsAre DEF Passes
<1>3. tree \in SUBSET Files
  <2>1. PICK k \in 1 .. Len(Runs) + 1 : tree = UNION {Runs[i] : i \in k .. Len(Runs)}
    BY DEF Listings
  <2>2. \A i \in k .. Len(Runs) : Runs[i] \subseteq Files
    BY RunsAre
  <2> QED BY <2>1, <2>2
<1>4. pass' = [pass EXCEPT !.entered = TRUE, !.tree = tree, !.ran = @ \cup {pass.at},
                           !.moved = @ \/ (~pass.entered /\ stale # {})]
  OBVIOUS
<1>5. /\ pass'.entered /\ pass'.tree = tree /\ pass'.at = pass.at
      /\ pass'.ran = pass.ran \cup {pass.at} /\ pass'.force = pass.force
      /\ pass'.moved = (pass.moved \/ (~pass.entered /\ stale # {}))
  BY <1>1, <1>4 DEF Passes
<1>6. pass' \in Passes
  <2> DEFINE mv == pass.moved \/ (~pass.entered /\ stale # {})
             ran == pass.ran \cup {pass.at}
  <2>1. mv \in BOOLEAN /\ ran \in SUBSET DOMAIN Runs
    BY <1>1, <1>2 DEF Passes
  <2>2. pass' = [pass EXCEPT !.entered = TRUE, !.tree = tree, !.ran = ran, !.moved = mv]
    BY <1>4
  <2> HIDE DEF mv, ran
  <2> QED BY <1>1, <1>3, <2>1, <2>2 DEF Passes
<1> QED BY <1>2, <1>5, <1>6

(* hf run for a further source: the card stays that of the pass.           *)
LEMMA SpawnAgainKeeps ==
    ASSUME FeedInv, NEW tree \in Listings, Spawn(tree), pass.entered
    PROVE  FeedInv' /\ ForwardOnly
<1>1. FeedTypes /\ Stages /\ CardHolds /\ RowsTell /\ EveryByteOnce
  BY DEF FeedInv
<1>2. /\ stage = "choose" /\ stage' = "run" /\ pass.at \in DOMAIN Runs
      /\ pass' \in Passes /\ pass'.entered /\ pass'.tree = tree /\ pass'.at = pass.at
      /\ pass'.ran = pass.ran \cup {pass.at}
      /\ pass'.moved = (pass.moved \/ (~pass.entered /\ stale # {}))
      /\ agg' = <<>> /\ bar' = Zero
  BY <1>1, SpawnIs
<1>3. /\ best' = best /\ owed' = owed /\ seed' = seed /\ have' = have /\ stale' = stale
      /\ saved' = saved /\ rec' \subseteq rec /\ tree = pass.tree
      /\ st' = [st EXCEPT !.phase = "download"] /\ mgr' = mgr
  BY DEF Spawn, Publish, OnPhase, Update, Now
<1>4. Downloading
  BY <1>1, <1>2 DEF Stages
<1>5. st' = st
  BY <1>1, <1>3, <1>4 DEF Downloading, FeedTypes, St
<1>6. Downloading'
  BY <1>2, <1>4, <1>5 DEF Downloading
<1>7. /\ Nameable' => Nameable
      /\ (NamesDiffer' <=> NamesDiffer)
      /\ pass'.moved = pass.moved
  <2>1. pass'.tree = pass.tree /\ pass.ran \subseteq pass'.ran
    BY <1>2, <1>3
  <2>4. pass'.moved = pass.moved
    <3>1. pass.moved \in BOOLEAN
      BY <1>1 DEF FeedTypes, Passes
    <3> QED BY <1>2, <3>1
  <2>2. Nameable' => Nameable
    BY <2>1 DEF Nameable
  <2>3. NamesDiffer' <=> NamesDiffer
    BY <2>1 DEF NamesDiffer
  <2> QED BY <2>2, <2>3, <2>4
<1>8. FeedTypes'
  <2>1. \A f \in Files : bar'[f] <= best'[f] /\ best'[f] <= Size[f]
    BY <1>1, <1>2, <1>3, ZeroIs DEF FeedTypes
  <2> QED BY <1>1, <1>2, <1>3, <1>5, <2>1, ZeroIs DEF FeedTypes
<1>9. Stages'
  <2>1. \A f \in owed' : best'[f] > 0 => stage' = "run" /\ f \in Runs[pass'.at]
    BY <1>1, <1>2, <1>3 DEF Stages
  <2> QED BY <1>2, <1>6, <2>1 DEF Stages
<1>10. CardHolds'
  BY <1>1, <1>2, <1>3, <1>4, <1>5 DEF CardHolds, BarsHaveRows
<1>11. BarsTell'
  <2>1. \A f \in owed' : best'[f] = 0
    BY <1>1, <1>2, <1>3 DEF Stages, FeedTypes
  <2> QED BY <1>2, <2>1 DEF BarsTell
<1>12. RowsTell'
  BY <1>1, <1>2, <1>3, <1>4, <1>5, <1>7 DEF RowsTell, AsPrinted
<1>13. EveryByteOnce'
  BY <1>1, <1>3, <1>4, <1>5, <1>7 DEF EveryByteOnce
<1>14. ForwardOnly
  BY <1>1, <1>5, NotBackSelf DEF ForwardOnly, FeedTypes
<1> QED BY <1>8, <1>9, <1>10, <1>11, <1>12, <1>13, <1>14 DEF FeedInv

(* hf run for the first source: the card is empty or the queue's, and no   *)
(* bar has shown anything.                                                 *)
LEMMA SpawnEntersKeeps ==
    ASSUME FeedInv, NEW tree \in Listings, Spawn(tree), ~pass.entered
    PROVE  FeedInv' /\ ForwardOnly
<1> DEFINE e == EnterDownloadPhase(Now, pass.force, tree)
           x == OnPhase(e, "download")
<1>1. FeedTypes /\ pass.force \in BOOLEAN
  BY DEF FeedInv, FeedTypes, Passes
<1>2. /\ stage = "choose" /\ stage' = "run" /\ pass.at \in DOMAIN Runs
      /\ pass' \in Passes /\ pass'.entered /\ pass'.tree = tree /\ pass'.at = pass.at
      /\ pass'.ran = pass.ran \cup {pass.at} /\ pass'.force = pass.force
      /\ pass'.moved = (pass.moved \/ (~pass.entered /\ stale # {}))
      /\ agg' = <<>> /\ bar' = Zero
  BY <1>1, SpawnIs
<1>3. /\ st' = x.st /\ mgr' = x.mgr
      /\ best' = Zero /\ owed' = (IF pass.force THEN Files ELSE (Files \ have) \cup stale)
      /\ seed' = e.st.done /\ have' = have /\ stale' = stale
      /\ saved' = saved /\ rec' \subseteq rec
  BY DEF Spawn, Publish
<1>4. /\ x.st \in St /\ x.mgr \in Books /\ x.st.phase = "download"
      /\ x.st.done = e.st.done
      /\ CardSound(x.st, x.mgr)
      /\ \A i \in DOMAIN x.st.files :
           x.st.files[i].status = "done" => x.st.files[i].path \in Cached(pass.force)
      /\ x.mgr.files => x.st.fdone <= Cardinality(DoneAt(x.st.files))
      /\ ~x.mgr.files => x.st.files = <<>>
  BY <1>1, EnteredIs
<1> HIDE DEF e, x
<1>5. Downloading' /\ ~Downloading
  BY <1>2, <1>3, <1>4 DEF Downloading
<1>6. seed' = st'.done /\ seed' \in Nat
  BY <1>3, <1>4, StIs
<1>7. FeedTypes'
  <2>1. \A f \in Files : bar'[f] <= best'[f] /\ best'[f] <= Size[f]
    BY <1>2, <1>3, ZeroIs, SizeIs
  <2> QED BY <1>1, <1>2, <1>3, <1>4, <1>6, <2>1, ZeroIs DEF FeedTypes
<1>8. \A f \in Files : best'[f] = 0
  BY <1>3, ZeroIs
<1>9. owed' \subseteq Files
  BY <1>7 DEF FeedTypes
<1>10. Stages'
  BY <1>2, <1>5, <1>8, <1>9 DEF Stages
<1>11. CardHolds'
  BY <1>2, <1>3, <1>4 DEF CardHolds, BarsHaveRows
<1>12. BarsTell'
  BY <1>2, <1>8, <1>9 DEF BarsTell
<1>13. RowsTell'
  <2>1. ~pass'.moved => stale = {}
    BY <1>2
  <2>2. stale = {} => Cached(pass.force) \cap owed' = {}
    BY <1>3 DEF Cached
  <2> QED BY <1>3, <1>4, <2>1, <2>2 DEF RowsTell
<1>14. EveryByteOnce'
  <2> DEFINE G == [f \in Files |-> Printed(best'[f])]
             Z == [f \in Files |-> 0]
  <2>1. G = Z
    BY <1>8, PrintedIs
  <2>2. SumFunctionOnSet(Z, Files) = 0
    BY FilesFinite, TotalOfNothing
  <2> HIDE DEF Z
  <2>3. SumFunctionOnSet(G, Files) = 0
    BY <2>1, <2>2
  <2> QED BY <1>6, <2>3 DEF EveryByteOnce
<1>15. ForwardOnly
  BY <1>5 DEF ForwardOnly
<1> QED BY <1>7, <1>10, <1>11, <1>12, <1>13, <1>14, <1>15 DEF FeedInv

-----------------------------------------------------------------------------
(***************************************************************************)
(* The card, over every behaviour.                                         *)
(***************************************************************************)

(* Every step keeps the invariant and moves the card forward.              *)
LEMMA FeedStep == FeedInv /\ [FeedNext]_feedVars => FeedInv' /\ ForwardOnly
<1> SUFFICES ASSUME FeedInv, [FeedNext]_feedVars PROVE FeedInv' /\ ForwardOnly
  OBVIOUS
<1>1. ASSUME NEW force \in BOOLEAN, Start(force) PROVE FeedInv' /\ ForwardOnly
  BY <1>1, StartKeeps
<1>2. CASE Reuse
  BY <1>2, ReuseKeeps
<1>3. ASSUME NEW tree \in Listings, Spawn(tree) PROVE FeedInv' /\ ForwardOnly
  <2>1. CASE pass.entered
    BY <1>3, <2>1, SpawnAgainKeeps
  <2>2. CASE ~pass.entered
    BY <1>3, <2>2, SpawnEntersKeeps
  <2> QED BY <2>1, <2>2
<1>4. ASSUME NEW f \in Files, NEW n \in 0 .. Size[f], Line(f, n) PROVE FeedInv' /\ ForwardOnly
  BY <1>4, LineKeeps DEF ForwardOnly
<1>5. ASSUME NEW f \in Files, Silent(f) PROVE FeedInv' /\ ForwardOnly
  BY <1>5, SilentKeeps
<1>6. CASE Banner
  BY <1>6, BannerKeeps
<1>7. CASE ExitOk
  BY <1>7, ExitOkKeeps
<1>8. CASE ExitFail
  BY <1>8, ExitFailKeeps
<1>9. CASE Load
  BY <1>9, LoadKeeps
<1>10. CASE Alive
  BY <1>10, AliveKeeps
<1>11. ASSUME NEW S \in SUBSET Files, BranchMoves(S) PROVE FeedInv' /\ ForwardOnly
  BY <1>11, BranchMovesKeeps
<1>12. ASSUME NEW graceful \in BOOLEAN, Restart(graceful) PROVE FeedInv' /\ ForwardOnly
  BY <1>12, RestartKeeps
<1>13. CASE UNCHANGED feedVars
  <2>1. FeedInv'
    BY <1>13 DEF FeedInv, FeedTypes, Stages, CardHolds, BarsTell, RowsTell, EveryByteOnce,
                 Downloading, Nameable, NamesDiffer, AsPrinted
  <2>2. st \in St
    BY DEF FeedInv, FeedTypes
  <2> QED BY <1>13, <2>1, <2>2, NotBackSelf DEF ForwardOnly
<1> QED BY <1>1, <1>2, <1>3, <1>4, <1>5, <1>6, <1>7, <1>8, <1>9, <1>10, <1>11, <1>12, <1>13
        DEF FeedNext

(* The invariant holds of every behaviour.                                 *)
LEMMA FeedInvariant == FeedSpec => []FeedInv
<1>1. FeedInit => FeedInv
  BY FeedStarts
<1>2. FeedInv /\ [FeedNext]_feedVars => FeedInv'
  BY FeedStep
<1> QED BY <1>1, <1>2, PTL DEF FeedSpec

(* Aggregator.OnProgress: however the bars of a pass interleave, share a   *)
(* label or start over, bytes_completed counts every byte once.            *)
THEOREM BytesCountedOnce == FeedSpec => []EveryByteOnce
<1>1. FeedInv => EveryByteOnce
  BY DEF FeedInv
<1> QED BY <1>1, FeedInvariant, PTL

(* matchFileIndex, markFileDone: a row that reads done owes nothing.       *)
THEOREM RowsDoneAreDone == FeedSpec => []DoneRowsAreDone
<1>1. FeedInv => DoneRowsAreDone
  BY DEF FeedInv, RowsTell, DoneRowsAreDone
<1> QED BY <1>1, FeedInvariant, PTL

(* progress.State.FilesTotal: a pinned card that reads finished has every  *)
(* file of the pass accounted for.                                         *)
THEOREM FinishedCardIsWhole == FeedSpec => []FinishedCardOwesNothing
<1>1. FeedInv => FinishedCardOwesNothing
  <2> SUFFICES ASSUME FeedInv, Downloading, Nameable, ~pass.moved, mgr.files,
                      st.fdone >= st.ftotal, NEW f \in owed
               PROVE  AsPrinted(f)
    BY DEF FinishedCardOwesNothing
  <2>1. FeedTypes /\ CardSound(st, mgr) /\ RowsTell
    BY DEF FeedInv, CardHolds
  <2> DEFINE D == DoneAt(st.files)
             all == DOMAIN st.files
  <2>2. /\ st \in St /\ f \in Files /\ all = 1 .. Len(st.files) /\ Len(st.files) \in Nat
        /\ st.fdone \in Nat /\ st.ftotal \in Nat
    BY <2>1, StIs DEF FeedTypes
  <2>3. st.fdone <= Cardinality(D) /\ Len(st.files) <= st.ftotal
    BY <2>1 DEF RowsTell, CardSound
  <2>4. D \subseteq all /\ IsFiniteSet(all) /\ Cardinality(all) = Len(st.files)
    BY <2>2, CountTo DEF DoneAt
  <2>5. D = all
    <3> HIDE DEF D, all
    <3>1. IsFiniteSet(D) /\ Cardinality(D) \in Nat
      BY <2>4, FS_Subset, FS_CardinalityType
    <3>2. Cardinality(D) >= Cardinality(all)
      BY <2>2, <2>3, <2>4, <3>1
    <3>3. Cardinality(D) <= Cardinality(all) /\ (Cardinality(D) = Cardinality(all) => D = all)
      BY <2>4, FS_Subset
    <3>4. Cardinality(D) = Cardinality(all)
      BY <2>2, <2>4, <3>1, <3>2, <3>3
    <3> QED BY <3>3, <3>4
  <2>6. PICK i \in DOMAIN Queue : Queue[i] = f
    BY <2>2, SourcesAreApart DEF Range
  <2>7. i \in DOMAIN st.files /\ st.files[i].path = f
    BY <2>1, <2>2, <2>6, SourcesAreApart DEF CardSound, Pinned
  <2>8. st.files[i].status = "done"
    BY <2>5, <2>7 DEF DoneAt
  <2> QED BY <2>1, <2>7, <2>8 DEF RowsTell
<1> QED BY <1>1, FeedInvariant, PTL

(* Within a download phase the card only moves forward.                    *)
THEOREM CardNeverStepsBack == FeedSpec => NoStepBack
<1>1. FeedInv /\ [FeedNext]_feedVars =>
        [Downloading /\ st'.phase = "download" /\ pass'.entered =>
           /\ st'.done >= st.done /\ st'.fdone >= st.fdone /\ st'.ftotal >= st.ftotal
           /\ \A i \in DOMAIN st.files :
                /\ st'.files[i].done >= st.files[i].done
                /\ st.files[i].status = "done" => st'.files[i].status = "done"]_feedVars
  <2> SUFFICES ASSUME FeedInv, [FeedNext]_feedVars,
                      Downloading, st'.phase = "download", pass'.entered
               PROVE  /\ st'.done >= st.done /\ st'.fdone >= st.fdone /\ st'.ftotal >= st.ftotal
                      /\ \A i \in DOMAIN st.files :
                           /\ st'.files[i].done >= st.files[i].done
                           /\ st.files[i].status = "done" => st'.files[i].status = "done"
    OBVIOUS
  <2>1. NotBack(st, st')
    BY FeedStep DEF ForwardOnly, Downloading
  <2> QED BY <2>1 DEF NotBack
<1> QED BY <1>1, FeedInvariant, PTL DEF FeedSpec, NoStepBack

=============================================================================
