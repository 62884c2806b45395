----------------------------- MODULE SumTheorems ----------------------------
(***************************************************************************)
(* What SumFunctionOnSet of the community modules computes on a finite     *)
(* set.  The library's induction theorems quantify over operators, which   *)
(* the provers cannot instantiate; the proofs here take a least            *)
(* counterexample among the subsets of a finite set instead (theorem       *)
(* WFMin, about sets only).                                                *)
(***************************************************************************)
EXTENDS Integers, FiniteSets, Functions, FiniteSetTheorems, TLAPS

Pick(s) == CHOOSE x \in s : TRUE

\* g is the function on the subsets of T that SumFunctionOnSet defines.
IsSum(f, T, g) ==
    g = [s \in SUBSET T |->
           IF s = {} THEN 0 ELSE f[Pick(s)] + g[s \ {Pick(s)}]]

SumFcn(f, T) == CHOOSE g : IsSum(f, T, g)

\* The community operator is the last entry of a table of sums of subsets.
LEMMA SumAsFcn ==
    ASSUME NEW f, NEW T
    PROVE  SumFunctionOnSet(f, T) = SumFcn(f, T)[T]
BY DEF SumFunctionOnSet, FoldFunctionOnSet, MapThenFoldSet, SumFcn, IsSum, Pick

\* What the sum takes first from a set is a member of it.
LEMMA PickIn ==
    ASSUME NEW s, s # {}
    PROVE  Pick(s) \in s
BY DEF Pick

\* A set of subsets of a finite set has a minimal member.
LEMMA MinimalSubset ==
    ASSUME NEW S, IsFiniteSet(S), NEW B, B \subseteq SUBSET S, B # {}
    PROVE  \E u \in B : \A v \in B : v \subseteq u => v = u
<1>1. IsWellFoundedOn(StrictSubsetOrdering(S), SUBSET S)
  BY FS_StrictSubsetOrderingWellFounded, FS_FiniteSubsetsOfFinite
<1>2. PICK u \in B : \A v \in B : <<v, u>> \notin StrictSubsetOrdering(S)
  <2> HIDE DEF StrictSubsetOrdering
  <2> QED BY <1>1, WFMin
<1>3. ASSUME NEW v \in B, v \subseteq u, v # u PROVE FALSE
  <2>1. <<v, u>> \in StrictSubsetOrdering(S)
    BY <1>3 DEF StrictSubsetOrdering
  <2> QED BY <2>1, <1>2
<1> QED BY <1>2, <1>3

\* Two tables of sums agree on the sets that both hold.
LEMMA SumLocal ==
    ASSUME NEW f, NEW S, IsFiniteSet(S), NEW T \in SUBSET S, NEW g, NEW h,
           IsSum(f, S, g), IsSum(f, T, h)
    PROVE  \A s \in SUBSET T : g[s] = h[s]
<1> DEFINE B == {s \in SUBSET T : g[s] # h[s]}
<1> SUFFICES ASSUME B # {} PROVE FALSE
  OBVIOUS
<1>1. IsFiniteSet(T)
  BY FS_Subset
<1>2. PICK u \in B : \A v \in B : v \subseteq u => v = u
  <2>1. B \subseteq SUBSET T
    OBVIOUS
  <2> HIDE DEF B
  <2> QED BY <1>1, <2>1, MinimalSubset
<1> DEFINE r == u \ {Pick(u)}
<1>3. u \in SUBSET T /\ u \in SUBSET S /\ g[u] # h[u]
  BY <1>2
<1>4. CASE u = {}
  <2>1. g[u] = 0 /\ h[u] = 0
    BY <1>3, <1>4 DEF IsSum
  <2> QED BY <1>3, <2>1
<1>5. CASE u # {}
  <2>1. r \subseteq u /\ r # u
    BY <1>5, PickIn
  <2>2. g[r] = h[r]
    BY <2>1, <1>2, <1>3
  <2>3. g[u] = f[Pick(u)] + g[r] /\ h[u] = f[Pick(u)] + h[r]
    BY <1>3, <1>5 DEF IsSum
  <2> QED BY <1>3, <2>2, <2>3
<1> QED BY <1>4, <1>5

\* The table of sums of the subsets of a finite set exists.
LEMMA SumExists ==
    ASSUME NEW f, NEW S, IsFiniteSet(S)
    PROVE  IsSum(f, S, SumFcn(f, S))
<1> DEFINE B == {T \in SUBSET S : ~IsSum(f, T, SumFcn(f, T))}
<1> SUFFICES ASSUME B # {} PROVE FALSE
  OBVIOUS
<1>1. PICK u \in B : \A v \in B : v \subseteq u => v = u
  <2>1. B \subseteq SUBSET S
    OBVIOUS
  <2> HIDE DEF B
  <2> QED BY <2>1, MinimalSubset
<1>2. u \in SUBSET S /\ ~IsSum(f, u, SumFcn(f, u))
  BY <1>1
<1>3. ASSUME NEW v \in SUBSET u, v # u
      PROVE  IsSum(f, v, SumFcn(f, v)) /\ IsFiniteSet(v)
  <2>1. v \in SUBSET S
    BY <1>2
  <2> QED BY <2>1, <1>1, <1>3, FS_Subset
<1> DEFINE Rest(s) == s \ {Pick(s)}
           G == [s \in SUBSET u |->
                   IF s = {} THEN 0
                   ELSE f[Pick(s)] + SumFcn(f, Rest(s))[Rest(s)]]
<1>4. ASSUME NEW s \in SUBSET u, s # {}
      PROVE  G[Rest(s)] = SumFcn(f, Rest(s))[Rest(s)]
  <2> DEFINE r == Rest(s)
             q == Rest(r)
  <2>1. r \in SUBSET u /\ r # u
    BY <1>4, PickIn
  <2>2. IsSum(f, r, SumFcn(f, r)) /\ IsFiniteSet(r)
    BY <1>3, <2>1
  <2>3. CASE r = {}
    <3>1. G[r] = 0
      BY <2>1, <2>3
    <3>2. SumFcn(f, r)[r] = 0
      BY <2>2, <2>3 DEF IsSum
    <3> QED BY <3>1, <3>2
  <2>4. CASE r # {}
    <3>1. q \in SUBSET r /\ q \in SUBSET u /\ q # u
      BY <2>1
    <3>2. IsSum(f, q, SumFcn(f, q))
      BY <1>3, <3>1
    <3>3. G[r] = f[Pick(r)] + SumFcn(f, q)[q]
      BY <2>1, <2>4
    <3>4. SumFcn(f, r)[r] = f[Pick(r)] + SumFcn(f, r)[q]
      BY <2>2, <2>4 DEF IsSum
    <3>5. SumFcn(f, r)[q] = SumFcn(f, q)[q]
      <4> HIDE DEF r, q
      <4> QED BY <2>2, <3>1, <3>2, SumLocal
    <3> QED BY <3>3, <3>4, <3>5
  <2> QED BY <2>3, <2>4
<1>5. IsSum(f, u, G)
  BY <1>4 DEF IsSum
<1>6. IsSum(f, u, SumFcn(f, u))
  <2> HIDE DEF G
  <2> QED BY <1>5 DEF SumFcn
<1> QED BY <1>2, <1>6

\* The sum over nothing is zero: an account without entries has no balance.
THEOREM SumEmpty ==
    ASSUME NEW f
    PROVE  SumFunctionOnSet(f, {}) = 0
<1>1. IsSum(f, {}, SumFcn(f, {}))
  BY SumExists, FS_EmptySet
<1> QED BY <1>1, SumAsFcn DEF IsSum

\* A sum is the value at the picked member and the sum over the others.
LEMMA SumPick ==
    ASSUME NEW f, NEW S, IsFiniteSet(S), S # {}
    PROVE  SumFunctionOnSet(f, S)
             = f[Pick(S)] + SumFunctionOnSet(f, S \ {Pick(S)})
<1> DEFINE r == S \ {Pick(S)}
<1>1. IsFiniteSet(r) /\ r \in SUBSET S
  BY FS_Subset
<1>2. IsSum(f, S, SumFcn(f, S)) /\ IsSum(f, r, SumFcn(f, r))
  BY <1>1, SumExists
<1>3. SumFcn(f, S)[r] = SumFcn(f, r)[r]
  <2> HIDE DEF r
  <2> QED BY <1>1, <1>2, SumLocal
<1>4. SumFcn(f, S)[S] = f[Pick(S)] + SumFcn(f, S)[r]
  BY <1>2 DEF IsSum
<1> QED BY <1>3, <1>4, SumAsFcn

\* A sum of integers over a finite set is an integer: the totals of the
\* services never leave the integers.
THEOREM SumInt ==
    ASSUME NEW f, NEW S, IsFiniteSet(S), \A x \in S : f[x] \in Int
    PROVE  SumFunctionOnSet(f, S) \in Int
<1> DEFINE B == {T \in SUBSET S : SumFunctionOnSet(f, T) \notin Int}
<1> SUFFICES ASSUME B # {} PROVE FALSE
  OBVIOUS
<1>1. PICK u \in B : \A v \in B : v \subseteq u => v = u
  <2>1. B \subseteq SUBSET S
    OBVIOUS
  <2> HIDE DEF B
  <2> QED BY <2>1, MinimalSubset
<1>2. u \in SUBSET S /\ SumFunctionOnSet(f, u) \notin Int
  BY <1>1
<1>3. u # {}
  BY <1>2, SumEmpty
<1> DEFINE r == u \ {Pick(u)}
<1>4. r \in SUBSET S /\ r \subseteq u /\ r # u /\ Pick(u) \in S
  BY <1>2, <1>3, PickIn
<1>5. SumFunctionOnSet(f, r) \in Int
  BY <1>1, <1>4
<1>6. SumFunctionOnSet(f, u) = f[Pick(u)] + SumFunctionOnSet(f, r)
  BY <1>2, <1>3, FS_Subset, SumPick
<1> QED BY <1>2, <1>4, <1>5, <1>6

\* Any member may be taken out of a sum first: what a balance is does not
\* depend on the order in which its entries are added up.
THEOREM SumRemove ==
    ASSUME NEW f, NEW S, IsFiniteSet(S), \A x \in S : f[x] \in Int,
           NEW x \in S
    PROVE  SumFunctionOnSet(f, S) = f[x] + SumFunctionOnSet(f, S \ {x})
<1> DEFINE Removes(u, y) ==
             SumFunctionOnSet(f, u) = f[y] + SumFunctionOnSet(f, u \ {y})
           B == {T \in SUBSET S : \E y \in T : ~Removes(T, y)}
<1> SUFFICES ASSUME B # {} PROVE FALSE
  OBVIOUS
<1>1. PICK u \in B : \A v \in B : v \subseteq u => v = u
  <2>1. B \subseteq SUBSET S
    OBVIOUS
  <2> HIDE DEF B
  <2> QED BY <2>1, MinimalSubset
<1>2. PICK y \in u : ~Removes(u, y)
  BY <1>1
<1> DEFINE p == Pick(u)
<1>3. u \in SUBSET S /\ p \in u
  BY <1>1, <1>2, PickIn
<1>4. Removes(u, p)
  <2> HIDE DEF p
  <2> QED BY <1>2, <1>3, FS_Subset, SumPick DEF p
<1>5. p # y
  BY <1>2, <1>4
<1>6. Removes(u \ {p}, y) /\ Removes(u \ {y}, p)
  <2> HIDE DEF p, Removes
  <2>1. u \ {p} \in SUBSET S /\ u \ {p} # u /\ y \in u \ {p}
    BY <1>2, <1>3, <1>5
  <2>2. u \ {y} \in SUBSET S /\ u \ {y} # u /\ p \in u \ {y}
    BY <1>2, <1>3, <1>5
  <2> QED BY <2>1, <2>2, <1>1
<1>7. (u \ {p}) \ {y} = (u \ {y}) \ {p}
  OBVIOUS
<1> DEFINE q == (u \ {y}) \ {p}
<1>8. SumFunctionOnSet(f, q) \in Int /\ f[p] \in Int /\ f[y] \in Int
  <2>1. IsFiniteSet(q) /\ q \in SUBSET S
    BY <1>3, FS_Subset
  <2>2. SumFunctionOnSet(f, q) \in Int
    <3> HIDE DEF q
    <3> QED BY <2>1, SumInt
  <2> QED BY <2>2, <1>2, <1>3
<1> HIDE DEF p
<1>9. SumFunctionOnSet(f, u) = f[p] + (f[y] + SumFunctionOnSet(f, q))
  BY <1>4, <1>6, <1>7
<1>10. SumFunctionOnSet(f, u \ {y}) = f[p] + SumFunctionOnSet(f, q)
  BY <1>6
<1>11. ~(SumFunctionOnSet(f, u) = f[y] + SumFunctionOnSet(f, u \ {y}))
  BY <1>2
<1> HIDE DEF q
<1> QED BY <1>8, <1>9, <1>10, <1>11

\* Functions that agree on a finite set have one sum over it.
THEOREM SumSame ==
    ASSUME NEW f, NEW g, NEW S, IsFiniteSet(S), \A x \in S : f[x] = g[x]
    PROVE  SumFunctionOnSet(f, S) = SumFunctionOnSet(g, S)
<1> DEFINE B == {T \in SUBSET S :
                   SumFunctionOnSet(f, T) # SumFunctionOnSet(g, T)}
<1> SUFFICES ASSUME B # {} PROVE FALSE
  OBVIOUS
<1>1. PICK u \in B : \A v \in B : v \subseteq u => v = u
  <2>1. B \subseteq SUBSET S
    OBVIOUS
  <2> HIDE DEF B
  <2> QED BY <2>1, MinimalSubset
<1>2. u \in SUBSET S /\ SumFunctionOnSet(f, u) # SumFunctionOnSet(g, u)
  BY <1>1
<1>3. u # {}
  BY <1>2, SumEmpty
<1> DEFINE r == u \ {Pick(u)}
<1>4. r \in SUBSET S /\ r \subseteq u /\ r # u /\ Pick(u) \in S
  BY <1>2, <1>3, PickIn
<1>5. SumFunctionOnSet(f, r) = SumFunctionOnSet(g, r)
  BY <1>1, <1>4
<1>6. /\ SumFunctionOnSet(f, u) = f[Pick(u)] + SumFunctionOnSet(f, r)
      /\ SumFunctionOnSet(g, u) = g[Pick(u)] + SumFunctionOnSet(g, r)
  BY <1>2, <1>3, FS_Subset, SumPick
<1> QED BY <1>2, <1>4, <1>5, <1>6

\* The sum over two disjoint sets is the sum of their sums: a balance may be
\* split at a snapshot.
THEOREM SumUnion ==
    ASSUME NEW f, NEW S, NEW T, IsFiniteSet(S), IsFiniteSet(T),
           S \cap T = {}, \A x \in S \cup T : f[x] \in Int
    PROVE  SumFunctionOnSet(f, S \cup T)
             = SumFunctionOnSet(f, S) + SumFunctionOnSet(f, T)
<1> DEFINE B == {U \in SUBSET T :
                   SumFunctionOnSet(f, S \cup U) #
                     SumFunctionOnSet(f, S) + SumFunctionOnSet(f, U)}
<1> SUFFICES ASSUME B # {} PROVE FALSE
  OBVIOUS
<1>1. PICK u \in B : \A v \in B : v \subseteq u => v = u
  <2>1. B \subseteq SUBSET T
    OBVIOUS
  <2> HIDE DEF B
  <2> QED BY <2>1, MinimalSubset
<1>2. u \in SUBSET T /\ SumFunctionOnSet(f, S \cup u) #
                          SumFunctionOnSet(f, S) + SumFunctionOnSet(f, u)
  BY <1>1
<1>3. SumFunctionOnSet(f, S) \in Int
  BY SumInt
<1>4. u # {}
  <2> SUFFICES ASSUME u = {} PROVE FALSE
    OBVIOUS
  <2>1. S \cup u = S
    OBVIOUS
  <2> QED BY <2>1, <1>2, <1>3, SumEmpty
<1>5. PICK x \in u : TRUE
  BY <1>4
<1> DEFINE r == u \ {x}
<1>6. r \in SUBSET T /\ r # u /\ r \subseteq u /\ x \in T
  BY <1>2, <1>5
<1>7. SumFunctionOnSet(f, S \cup r)
        = SumFunctionOnSet(f, S) + SumFunctionOnSet(f, r)
  BY <1>1, <1>6
<1>8. IsFiniteSet(u) /\ IsFiniteSet(S \cup u) /\ IsFiniteSet(r)
  BY <1>2, <1>6, FS_Subset, FS_Union
<1>9. (S \cup u) \ {x} = S \cup r
  BY <1>2, <1>5
<1>10. SumFunctionOnSet(f, u) = f[x] + SumFunctionOnSet(f, r)
  BY <1>2, <1>5, <1>8, SumRemove
<1>11. SumFunctionOnSet(f, S \cup u) = f[x] + SumFunctionOnSet(f, S \cup r)
  <2>1. x \in S \cup u /\ \A y \in S \cup u : f[y] \in Int
    BY <1>2, <1>5
  <2> HIDE DEF r
  <2> QED BY <2>1, <1>8, <1>9, SumRemove
<1>12. SumFunctionOnSet(f, r) \in Int
  BY <1>6, <1>8, SumInt
<1>13. f[x] \in Int
  BY <1>6
<1> HIDE DEF r
<1> QED BY <1>2, <1>3, <1>7, <1>10, <1>11, <1>12, <1>13

\* The sum of a function that is the sum of two is the sum of their sums: a
\* posting changes the total by what its legs sum to.
THEOREM SumPlus ==
    ASSUME NEW f, NEW g, NEW h, NEW S, IsFiniteSet(S),
           \A x \in S : f[x] \in Int /\ g[x] \in Int /\ h[x] = f[x] + g[x]
    PROVE  SumFunctionOnSet(h, S)
             = SumFunctionOnSet(f, S) + SumFunctionOnSet(g, S)
<1> DEFINE B == {T \in SUBSET S :
                   SumFunctionOnSet(h, T) #
                     SumFunctionOnSet(f, T) + SumFunctionOnSet(g, T)}
<1> SUFFICES ASSUME B # {} PROVE FALSE
  OBVIOUS
<1>1. PICK u \in B : \A v \in B : v \subseteq u => v = u
  <2>1. B \subseteq SUBSET S
    OBVIOUS
  <2> HIDE DEF B
  <2> QED BY <2>1, MinimalSubset
<1>2. u \in SUBSET S /\ SumFunctionOnSet(h, u) #
                          SumFunctionOnSet(f, u) + SumFunctionOnSet(g, u)
  BY <1>1
<1>3. u # {}
  <2>1. /\ SumFunctionOnSet(f, {}) = 0 /\ SumFunctionOnSet(g, {}) = 0
        /\ SumFunctionOnSet(h, {}) = 0
    BY SumEmpty
  <2> QED BY <1>2, <2>1
<1> DEFINE p == Pick(u)
           r == u \ {p}
<1>4. r \in SUBSET S /\ r \subseteq u /\ r # u /\ p \in S
  BY <1>2, <1>3, PickIn
<1>5. SumFunctionOnSet(h, r)
        = SumFunctionOnSet(f, r) + SumFunctionOnSet(g, r)
  BY <1>1, <1>4
<1>6. /\ SumFunctionOnSet(f, u) = f[p] + SumFunctionOnSet(f, r)
      /\ SumFunctionOnSet(g, u) = g[p] + SumFunctionOnSet(g, r)
      /\ SumFunctionOnSet(h, u) = h[p] + SumFunctionOnSet(h, r)
  BY <1>2, <1>3, FS_Subset, SumPick
<1>7. SumFunctionOnSet(f, r) \in Int /\ SumFunctionOnSet(g, r) \in Int
  <2>1. IsFiniteSet(r)
    BY <1>4, FS_Subset
  <2> HIDE DEF r
  <2> QED BY <2>1, <1>4, SumInt
<1>8. f[p] \in Int /\ g[p] \in Int /\ h[p] = f[p] + g[p]
  BY <1>4
<1> HIDE DEF p, r
<1> QED BY <1>2, <1>5, <1>6, <1>7, <1>8

\* A function that is zero on a finite set sums to zero: entries of other
\* accounts add nothing.
THEOREM SumZeros ==
    ASSUME NEW f, NEW S, IsFiniteSet(S), \A x \in S : f[x] = 0
    PROVE  SumFunctionOnSet(f, S) = 0
<1> DEFINE B == {T \in SUBSET S : SumFunctionOnSet(f, T) # 0}
<1> SUFFICES ASSUME B # {} PROVE FALSE
  OBVIOUS
<1>1. PICK u \in B : \A v \in B : v \subseteq u => v = u
  <2>1. B \subseteq SUBSET S
    OBVIOUS
  <2> HIDE DEF B
  <2> QED BY <2>1, MinimalSubset
<1>2. u \in SUBSET S /\ SumFunctionOnSet(f, u) # 0
  BY <1>1
<1>3. u # {}
  BY <1>2, SumEmpty
<1> DEFINE r == u \ {Pick(u)}
<1>4. r \in SUBSET S /\ r \subseteq u /\ r # u /\ Pick(u) \in S
  BY <1>2, <1>3, PickIn
<1>5. SumFunctionOnSet(f, r) = 0
  BY <1>1, <1>4
<1>6. SumFunctionOnSet(f, u) = f[Pick(u)] + SumFunctionOnSet(f, r)
  BY <1>2, <1>3, FS_Subset, SumPick
<1> QED BY <1>2, <1>4, <1>5, <1>6

\* A function that is 0 but at one point sums to its value there: one leg of
\* a posting.
THEOREM SumPoint ==
    ASSUME NEW f, NEW S, IsFiniteSet(S), NEW x, NEW n \in Int,
           \A y \in S : f[y] = IF y = x THEN n ELSE 0
    PROVE  SumFunctionOnSet(f, S) = IF x \in S THEN n ELSE 0
<1>1. CASE x \notin S
  BY <1>1, SumZeros
<1>2. CASE x \in S
  <2>1. SumFunctionOnSet(f, S) = f[x] + SumFunctionOnSet(f, S \ {x})
    BY <1>2, SumRemove
  <2>2. SumFunctionOnSet(f, S \ {x}) = 0
    BY SumZeros, FS_RemoveElement
  <2> QED BY <1>2, <2>1, <2>2
<1> QED BY <1>1, <1>2

\* The sum of ones is the number of members.
THEOREM SumOnes ==
    ASSUME NEW f, NEW S, IsFiniteSet(S), \A x \in S : f[x] = 1
    PROVE  SumFunctionOnSet(f, S) = Cardinality(S)
<1> DEFINE B == {T \in SUBSET S : SumFunctionOnSet(f, T) # Cardinality(T)}
<1> SUFFICES ASSUME B # {} PROVE FALSE
  OBVIOUS
<1>1. PICK u \in B : \A v \in B : v \subseteq u => v = u
  <2>1. B \subseteq SUBSET S
    OBVIOUS
  <2> HIDE DEF B
  <2> QED BY <2>1, MinimalSubset
<1>2. u \in SUBSET S /\ SumFunctionOnSet(f, u) # Cardinality(u)
  BY <1>1
<1>3. u # {}
  BY <1>2, SumEmpty, FS_EmptySet
<1> DEFINE p == Pick(u)
           r == u \ {p}
<1>4. r \in SUBSET S /\ r \subseteq u /\ r # u /\ p \in S /\ p \in u
  BY <1>2, <1>3, PickIn
<1>5. SumFunctionOnSet(f, r) = Cardinality(r)
  BY <1>1, <1>4
<1>6. IsFiniteSet(u)
  BY <1>2, FS_Subset
<1>7. SumFunctionOnSet(f, u) = f[p] + SumFunctionOnSet(f, r)
  BY <1>3, <1>6, SumPick
<1>8. Cardinality(u) \in Nat /\ Cardinality(r) = Cardinality(u) - 1
  BY <1>4, <1>6, FS_RemoveElement, FS_CardinalityType
<1>9. f[p] = 1
  BY <1>4
<1> HIDE DEF p, r
<1> QED BY <1>2, <1>5, <1>7, <1>8, <1>9
=============================================================================
