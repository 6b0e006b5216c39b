-------------------------- MODULE InductionLemmas --------------------------
(***************************************************************************)
(* What the proofs of this project need to know of data defined by         *)
(* recursion: least numbers and smallest sets, in place of induction, and  *)
(* from them the facts about sums over functions and filtered sequences.   *)
(***************************************************************************)
EXTENDS Filtering, Functions, FiniteSets, FiniteSetTheorems, TLAPS

(* A non-empty set of natural numbers has a least element: the form in     *)
(* which induction over Nat is used below.                                 *)
LEMMA LeastNumber ==
    ASSUME NEW T \in SUBSET Nat, T # {}
    PROVE  \E n \in T : \A m \in T : n <= m
  <1>1. \E x \in T : \A y \in T : ~(<<y, x>> \in OpToRel(<, Nat))
    BY NatLessThanWellFounded, WFMin, Zenon
  <1>2. PICK x \in T : \A y \in T : ~(<<y, x>> \in OpToRel(<, Nat))
    BY <1>1
  <1>3. ASSUME NEW y \in T PROVE x <= y
    <2>1. <<y, x>> \notin OpToRel(<, Nat)
      BY <1>2
    <2>2. <<y, x>> \in Nat \X Nat
      OBVIOUS
    <2>3. ~(y < x)
      BY <2>1, <2>2, Zenon DEF OpToRel
    <2> QED BY <2>3
  <1> QED BY <1>3

(* The same for the subsets of a finite set.                               *)
LEMMA SmallestSubset ==
    ASSUME NEW S, IsFiniteSet(S), NEW T \in SUBSET SUBSET S, T # {}
    PROVE  \E u \in T : \A v \in T : v \subseteq u => v = u
  <1>1. T \subseteq FiniteSubsetsOf(S)
    BY FS_FiniteSubsetsOfFinite
  <1>2. PICK u \in T : \A v \in T : ~(<<v, u>> \in StrictSubsetOrdering(S))
    BY <1>1, FS_StrictSubsetOrderingWellFounded, WFMin, Zenon
  <1>3. ASSUME NEW v \in T, v \subseteq u PROVE v = u
    BY <1>2, <1>3 DEF StrictSubsetOrdering
  <1> QED BY <1>3

----------------------------------------------------------------------------
(* Sums.  g gives the sum of f over each subset of S, as SumFunction       *)
(* computes it.                                                            *)
Some(u) == CHOOSE x \in u : TRUE

IsSum(f, S, g) ==
    g = [u \in SUBSET S |-> IF u = {} THEN 0 ELSE f[Some(u)] + g[u \ {Some(u)}]]

LEMMA SumStep ==
    ASSUME NEW f, NEW S, NEW g, IsSum(f, S, g), NEW u \in SUBSET S
    PROVE  /\ u = {} => g[u] = 0
           /\ u # {} => Some(u) \in u /\ g[u] = f[Some(u)] + g[u \ {Some(u)}]
  <1>1. g[u] = IF u = {} THEN 0 ELSE f[Some(u)] + g[u \ {Some(u)}]
    BY Zenon DEF IsSum
  <1>2. u # {} => Some(u) \in u
    BY DEF Some
  <1> QED BY <1>1, <1>2

(* Sums of functions that agree on a set agree on it.                      *)
LEMMA SumsAgree ==
    ASSUME NEW f, NEW S, NEW g, IsSum(f, S, g),
           NEW e, NEW R, NEW h, IsSum(e, R, h),
           NEW u, u \subseteq S, u \subseteq R, IsFiniteSet(u),
           \A x \in u : f[x] = e[x]
    PROVE  g[u] = h[u]
  <1> DEFINE T == {v \in SUBSET u : g[v] # h[v]}
  <1> SUFFICES ASSUME T # {} PROVE FALSE
    OBVIOUS
  <1>1. PICK v \in T : \A w \in T : w \subseteq v => w = v
    <2>1. T \in SUBSET SUBSET u
      OBVIOUS
    <2> HIDE DEF T
    <2> QED BY <2>1, SmallestSubset
  <1>2. v # {}
    BY <1>1, SumStep
  <1> DEFINE x == Some(v)
  <1>3. x \in v /\ g[v] = f[x] + g[v \ {x}]
    BY <1>2, SumStep
  <1>4. h[v] = e[x] + h[v \ {x}]
    BY <1>2, SumStep
  <1>5. g[v \ {x}] = h[v \ {x}]
    BY <1>1, <1>3
  <1> QED BY <1>3, <1>4, <1>5

(* A finite set has a sum.                                                 *)
LEMMA SumExists ==
    ASSUME NEW f, NEW S, IsFiniteSet(S)
    PROVE  \E g : IsSum(f, S, g)
  <1> DEFINE T == {v \in SUBSET S : ~\E g : IsSum(f, v, g)}
  <1> SUFFICES ASSUME T # {} PROVE FALSE
    OBVIOUS
  <1>1. PICK u \in T : \A v \in T : v \subseteq u => v = u
    <2>1. T \in SUBSET SUBSET S
      OBVIOUS
    <2> HIDE DEF T
    <2> QED BY <2>1, SmallestSubset
  <1> DEFINE G(v) == CHOOSE g : IsSum(f, v, g)
             p == Some(u)
             h == [v \in SUBSET u |->
                     IF v # u THEN G(v)[v]
                     ELSE IF u = {} THEN 0 ELSE f[p] + G(u \ {p})[u \ {p}]]
  <1>2. ASSUME NEW v \in SUBSET u, v # u PROVE IsSum(f, v, G(v)) /\ IsFiniteSet(v)
    <2>1. \E g : IsSum(f, v, g)
      BY <1>1, <1>2
    <2> QED BY <2>1, FS_Subset, <1>1
  <1> HIDE DEF G
  <1>3. ASSUME NEW v \in SUBSET u
        PROVE  h[v] = IF v = {} THEN 0
                      ELSE f[Some(v)] + h[v \ {Some(v)}]
    <2>1. CASE v = {}
      <3>1. v # u => G(v)[v] = 0
        BY <1>2, <2>1, SumStep
      <3> QED BY <2>1, <3>1
    <2>2. CASE v = u /\ v # {}
      <3>1. p \in u
        BY <2>2 DEF Some
      <3>2. u \ {p} \in SUBSET u /\ u \ {p} # u
        BY <3>1
      <3>3. h[u \ {p}] = G(u \ {p})[u \ {p}]
        BY <3>2
      <3>4. h[u] = f[p] + G(u \ {p})[u \ {p}]
        BY <2>2
      <3> QED BY <2>2, <3>3, <3>4
    <2>3. CASE v # u /\ v # {}
      <3> DEFINE x == Some(v)
                 w == v \ {x}
      <3>1. x \in v /\ G(v)[v] = f[x] + G(v)[w]
        BY <1>2, <2>3, SumStep
      <3>2. w \in SUBSET u /\ w # u /\ w \subseteq v
        BY <3>1
      <3>3. G(v)[w] = G(w)[w]
        <4>1. IsSum(f, v, G(v)) /\ IsSum(f, w, G(w)) /\ IsFiniteSet(w)
          BY <1>2, <2>3, <3>2
        <4> QED BY <4>1, <3>2, SumsAgree
      <3>4. h[v] = G(v)[v] /\ h[w] = G(w)[w]
        BY <2>3, <3>2
      <3> QED BY <2>3, <3>1, <3>3, <3>4
    <2> QED BY <2>1, <2>2, <2>3
  <1>4. IsSum(f, u, h)
    <2> HIDE DEF h, p
    <2>1. h = [v \in SUBSET u |-> h[v]]
      BY DEF h
    <2> QED BY <1>3, <2>1 DEF IsSum
  <1> QED BY <1>1, <1>4

LEMMA SumIs ==
    ASSUME NEW f, NEW g, IsFiniteSet(DOMAIN f), IsSum(f, DOMAIN f, g)
    PROVE  SumFunction(f) = g[DOMAIN f]
  <1> DEFINE h == CHOOSE h : IsSum(f, DOMAIN f, h)
  <1>1. SumFunction(f) = h[DOMAIN f]
    BY Zenon DEF SumFunction, SumFunctionOnSet, FoldFunctionOnSet, MapThenFoldSet, IsSum, Some
  <1>2. IsSum(f, DOMAIN f, h)
    BY Zenon
  <1> HIDE DEF h
  <1> QED BY <1>1, <1>2, SumsAgree

(* The sum of integers is one, and any element may be taken out first.     *)
LEMMA SumRemove ==
    ASSUME NEW S, IsFiniteSet(S), NEW f, \A x \in S : f[x] \in Int,
           NEW g, IsSum(f, S, g), NEW u \in SUBSET S
    PROVE  /\ g[u] \in Int
           /\ \A a \in u : g[u] = f[a] + g[u \ {a}]
  <1>1. ASSUME NEW v \in SUBSET S PROVE g[v] \in Int
    <2> DEFINE T == {w \in SUBSET S : g[w] \notin Int}
    <2> SUFFICES ASSUME T # {} PROVE FALSE
      OBVIOUS
    <2>1. PICK w \in T : \A t \in T : t \subseteq w => t = w
      <3>1. T \in SUBSET SUBSET S
        OBVIOUS
      <3> HIDE DEF T
      <3> QED BY <3>1, SmallestSubset
    <2> DEFINE x == Some(w)
    <2>2. w # {}
      <3>1. w = {} => g[w] = 0
        BY SumStep
      <3> QED BY <3>1
    <2>3. x \in w /\ g[w] = f[x] + g[w \ {x}]
      BY <2>2, SumStep
    <2>4. g[w \ {x}] \in Int
      BY <2>1, <2>3
    <2> QED BY <2>3, <2>4
  <1>2. \A a \in u : g[u] = f[a] + g[u \ {a}]
    <2> DEFINE T == {w \in SUBSET S : \E a \in w : g[w] # f[a] + g[w \ {a}]}
    <2> SUFFICES ASSUME T # {} PROVE FALSE
      OBVIOUS
    <2>1. PICK w \in T : \A t \in T : t \subseteq w => t = w
      <3>1. T \in SUBSET SUBSET S
        OBVIOUS
      <3> HIDE DEF T
      <3> QED BY <3>1, SmallestSubset
    <2>2. PICK a \in w : g[w] # f[a] + g[w \ {a}]
      BY <2>1
    <2> DEFINE x == Some(w)
    <2>3. x \in w /\ g[w] = f[x] + g[w \ {x}]
      BY <2>1, <2>2, SumStep
    <2> HIDE DEF x
    <2>4. x # a
      BY <2>2, <2>3
    <2>5. /\ g[w \ {x}] = f[a] + g[(w \ {x}) \ {a}]
          /\ g[w \ {a}] = f[x] + g[(w \ {a}) \ {x}]
      <3>1. w \ {x} \notin T /\ w \ {a} \notin T
        BY <2>1, <2>2, <2>3
      <3> QED BY <2>2, <2>3, <2>4, <3>1
    <2>6. (w \ {x}) \ {a} = (w \ {a}) \ {x}
      OBVIOUS
    <2>7. /\ f[a] \in Int /\ f[x] \in Int /\ g[(w \ {a}) \ {x}] \in Int
      BY <1>1, <2>2, <2>3
    <2>8. /\ g[w] = f[x] + (f[a] + g[(w \ {a}) \ {x}])
          /\ f[a] + g[w \ {a}] = f[a] + (f[x] + g[(w \ {a}) \ {x}])
      BY <2>3, <2>5, <2>6
    <2> QED BY <2>2, <2>7, <2>8
  <1> QED BY <1>1, <1>2

(* One value is replaced, added, or nothing is summed but zeros.           *)
LEMMA SumType ==
    ASSUME NEW S, IsFiniteSet(S), NEW f \in [S -> Int]
    PROVE  SumFunction(f) \in Int
  BY SumExists, SumIs, SumRemove

LEMMA SumInsert ==
    ASSUME NEW S, IsFiniteSet(S), NEW f \in [S -> Int], NEW a, a \notin S,
           NEW e \in [S \union {a} -> Int], \A x \in S : e[x] = f[x]
    PROVE  SumFunction(e) = SumFunction(f) + e[a]
  <1> DEFINE R == S \union {a}
  <1>1. IsFiniteSet(R)
    BY FS_AddElement
  <1>2. PICK g : IsSum(f, S, g)
    BY SumExists
  <1>3. PICK h : IsSum(e, R, h)
    BY <1>1, SumExists
  <1>4. SumFunction(f) = g[S] /\ SumFunction(e) = h[R]
    BY <1>1, <1>2, <1>3, SumIs
  <1>5. h[R] = e[a] + h[R \ {a}]
    <2>1. (\A x \in R : e[x] \in Int) /\ a \in R /\ R \in SUBSET R
      OBVIOUS
    <2> HIDE DEF R
    <2> QED BY <1>1, <1>3, <2>1, SumRemove
  <1>6. R \ {a} = S
    OBVIOUS
  <1>7. h[S] = g[S]
    BY <1>2, <1>3, SumsAgree
  <1>8. g[S] \in Int /\ e[a] \in Int
    BY <1>2, SumRemove
  <1> HIDE DEF R
  <1>9. h[R] = e[a] + g[S]
    BY <1>5, <1>6, <1>7
  <1> QED BY <1>4, <1>8, <1>9

LEMMA SumChange ==
    ASSUME NEW S, IsFiniteSet(S), NEW f \in [S -> Int], NEW e \in [S -> Int],
           NEW a \in S, \A x \in S \ {a} : e[x] = f[x]
    PROVE  SumFunction(e) = SumFunction(f) - f[a] + e[a]
  <1> DEFINE R == S \ {a}
  <1>1. IsFiniteSet(R) /\ R \union {a} = S /\ a \notin R
    BY FS_RemoveElement
  <1>2. [x \in R |-> f[x]] \in [R -> Int]
    OBVIOUS
  <1> HIDE DEF R
  <1>3. /\ SumFunction(f) = SumFunction([x \in R |-> f[x]]) + f[a]
        /\ SumFunction(e) = SumFunction([x \in R |-> f[x]]) + e[a]
    <2> DEFINE r == [x \in R |-> f[x]]
    <2>1. \A x \in R : r[x] = f[x] /\ r[x] = e[x]
      BY DEF R
    <2>2. f \in [R \union {a} -> Int] /\ e \in [R \union {a} -> Int]
      BY <1>1
    <2>3. r \in [R -> Int]
      BY <1>2
    <2> HIDE DEF r
    <2>4. SumFunction(f) = SumFunction(r) + f[a]
      BY <1>1, <2>1, <2>2, <2>3, SumInsert
    <2>5. SumFunction(e) = SumFunction(r) + e[a]
      BY <1>1, <2>1, <2>2, <2>3, SumInsert
    <2> QED BY <2>4, <2>5 DEF r
  <1>4. SumFunction([x \in R |-> f[x]]) \in Int
    BY <1>1, <1>2, SumType
  <1>5. f[a] \in Int /\ e[a] \in Int
    OBVIOUS
  <1> QED BY <1>3, <1>4, <1>5

LEMMA SumZero ==
    ASSUME NEW S, IsFiniteSet(S), NEW f \in [S -> Int], \A x \in S : f[x] = 0
    PROVE  SumFunction(f) = 0
  <1>1. PICK g : IsSum(f, S, g)
    BY SumExists
  <1> DEFINE T == {v \in SUBSET S : g[v] # 0}
  <1>2. g[S] = SumFunction(f)
    BY <1>1, SumIs
  <1> SUFFICES ASSUME T # {} PROVE FALSE
    BY <1>2
  <1>3. PICK v \in T : \A w \in T : w \subseteq v => w = v
    <2>1. T \in SUBSET SUBSET S
      OBVIOUS
    <2> HIDE DEF T
    <2> QED BY <2>1, SmallestSubset
  <1> DEFINE x == Some(v)
  <1>4. v # {}
    <2>1. v = {} => g[v] = 0
      BY <1>1, SumStep
    <2> QED BY <2>1
  <1>5. x \in v /\ g[v] = f[x] + g[v \ {x}]
    BY <1>1, <1>4, SumStep
  <1>6. g[v \ {x}] = 0 /\ f[x] = 0
    BY <1>3, <1>5
  <1> QED BY <1>5, <1>6

(* Something is added to one value.                                        *)
LEMMA SumAdd ==
    ASSUME NEW S, IsFiniteSet(S), NEW f \in [S -> Int], NEW e \in [S -> Int],
           NEW a \in S, NEW d \in Int, e[a] = f[a] + d, \A x \in S \ {a} : e[x] = f[x]
    PROVE  SumFunction(e) = SumFunction(f) + d
  <1>1. SumFunction(e) = SumFunction(f) - f[a] + e[a]
    BY SumChange
  <1>2. SumFunction(f) \in Int /\ f[a] \in Int
    BY SumType
  <1> QED BY <1>1, <1>2

(* Sums over a set of arguments.                                           *)
LEMMA SumOnIs ==
    ASSUME NEW f, NEW S, IsFiniteSet(S), NEW g, IsSum(f, S, g)
    PROVE  SumFunctionOnSet(f, S) = g[S]
  <1> DEFINE h == CHOOSE h : IsSum(f, S, h)
  <1>1. SumFunctionOnSet(f, S) = h[S]
    BY Zenon DEF SumFunctionOnSet, FoldFunctionOnSet, MapThenFoldSet, IsSum, Some
  <1>2. IsSum(f, S, h)
    BY Zenon
  <1> HIDE DEF h
  <1> QED BY <1>1, <1>2, SumsAgree

LEMMA SumOnEmpty == ASSUME NEW f PROVE SumFunctionOnSet(f, {}) = 0
  <1>1. IsFiniteSet({})
    BY FS_EmptySet
  <1>2. PICK g : IsSum(f, {}, g)
    BY <1>1, SumExists
  <1>3. SumFunctionOnSet(f, {}) = g[{}]
    BY <1>1, <1>2, SumOnIs
  <1>4. g[{}] = 0
    BY <1>2, SumStep
  <1> QED BY <1>3, <1>4

LEMMA SumOnAdd ==
    ASSUME NEW S, IsFiniteSet(S), NEW f, \A x \in S : f[x] \in Int, NEW a \in S
    PROVE  /\ SumFunctionOnSet(f, S) \in Int /\ SumFunctionOnSet(f, S \ {a}) \in Int
           /\ SumFunctionOnSet(f, S) = f[a] + SumFunctionOnSet(f, S \ {a})
  <1> DEFINE R == S \ {a}
  <1>1. IsFiniteSet(R) /\ R \in SUBSET S
    BY FS_RemoveElement
  <1>2. PICK g : IsSum(f, S, g)
    BY SumExists
  <1>3. PICK h : IsSum(f, R, h)
    BY <1>1, SumExists
  <1>4. SumFunctionOnSet(f, S) = g[S] /\ SumFunctionOnSet(f, R) = h[R]
    BY <1>1, <1>2, <1>3, SumOnIs
  <1>5. h[R] = g[R]
    BY <1>1, <1>2, <1>3, SumsAgree
  <1>6. g[S] \in Int /\ g[R] \in Int /\ g[S] = f[a] + g[R]
    <2>1. S \in SUBSET S
      OBVIOUS
    <2> HIDE DEF R
    <2>2. g[S] \in Int /\ g[R] \in Int
      BY <1>1, <1>2, <2>1, SumRemove
    <2>3. g[S] = f[a] + g[S \ {a}]
      BY <1>2, <2>1, SumRemove
    <2> QED BY <2>2, <2>3 DEF R
  <1> QED BY <1>4, <1>5, <1>6

LEMMA SumOnInt ==
    ASSUME NEW S, IsFiniteSet(S), NEW f, \A x \in S : f[x] \in Int
    PROVE  SumFunctionOnSet(f, S) \in Int
  <1>1. CASE S = {}
    BY <1>1, SumOnEmpty
  <1>2. CASE S # {}
    BY <1>2, SumOnAdd
  <1> QED BY <1>1, <1>2

(* A sum does not shrink when its values grow, or values that are not      *)
(* negative join it.                                                       *)
LEMMA SumOnGrows ==
    ASSUME NEW S, NEW T, S \subseteq T, IsFiniteSet(T),
           NEW f, NEW e, \A x \in S : f[x] \in Int /\ f[x] <= e[x],
           \A x \in T : e[x] \in Nat
    PROVE  SumFunctionOnSet(f, S) <= SumFunctionOnSet(e, T)
  <1> DEFINE B == {u \in SUBSET T :
                    ~(SumFunctionOnSet(f, u \intersect S) <= SumFunctionOnSet(e, u))}
  <1> SUFFICES ASSUME B # {} PROVE FALSE
    <2>1. T \in SUBSET T /\ T \intersect S = S
      OBVIOUS
    <2> QED BY <2>1
  <1>1. PICK u \in B : \A v \in B : v \subseteq u => v = u
    <2>1. B \in SUBSET SUBSET T
      OBVIOUS
    <2> HIDE DEF B
    <2> QED BY <2>1, SmallestSubset
  <1>2. /\ u \subseteq T /\ IsFiniteSet(u)
        /\ ~(SumFunctionOnSet(f, u \intersect S) <= SumFunctionOnSet(e, u))
    BY FS_Subset
  <1>3. u # {}
    <2>1. u = {} => u \intersect S = {}
      OBVIOUS
    <2> QED BY <1>2, <2>1, SumOnEmpty
  <1>4. PICK a \in u : TRUE
    BY <1>3
  <1>5. SumFunctionOnSet(f, (u \ {a}) \intersect S) <= SumFunctionOnSet(e, u \ {a})
    <2>1. u \ {a} \notin B
      BY <1>1, <1>4
    <2> QED BY <1>2, <2>1
  <1> HIDE DEF B
  <1>6. /\ SumFunctionOnSet(e, u) = e[a] + SumFunctionOnSet(e, u \ {a})
        /\ SumFunctionOnSet(e, u \ {a}) \in Int /\ e[a] \in Nat
    BY <1>2, <1>4, SumOnAdd
  <1>7. IsFiniteSet(u \intersect S) /\ \A x \in u \intersect S : f[x] \in Int
    BY <1>2, FS_Subset
  <1>8. CASE a \in S
    <2>1. (u \ {a}) \intersect S = (u \intersect S) \ {a} /\ a \in u \intersect S
      BY <1>4, <1>8
    <2>2. /\ SumFunctionOnSet(f, u \intersect S)
               = f[a] + SumFunctionOnSet(f, (u \intersect S) \ {a})
          /\ SumFunctionOnSet(f, (u \intersect S) \ {a}) \in Int
      BY <1>7, <2>1, SumOnAdd
    <2>3. f[a] \in Int /\ f[a] <= e[a]
      BY <1>8
    <2> QED BY <1>2, <1>5, <1>6, <2>1, <2>2, <2>3
  <1>9. CASE a \notin S
    <2>1. (u \ {a}) \intersect S = u \intersect S
      BY <1>9
    <2>2. SumFunctionOnSet(f, u \intersect S) \in Int
      BY <1>7, SumOnInt
    <2>3. SumFunctionOnSet(f, u \intersect S) <= SumFunctionOnSet(e, u \ {a})
      BY <1>5, <2>1
    <2> QED BY <1>2, <1>6, <2>2, <2>3
  <1> QED BY <1>8, <1>9

(* Losses and gains of one: no more is lost than there are losses.         *)
LEMMA SumOfLosses ==
    ASSUME NEW S, IsFiniteSet(S), NEW f, \A x \in S : f[x] \in {1, -1}
    PROVE  -SumFunctionOnSet(f, S) <= Cardinality({x \in S : f[x] = -1})
  <1> DEFINE L(u) == {x \in u : f[x] = -1}
             B == {u \in SUBSET S : ~(-SumFunctionOnSet(f, u) <= Cardinality(L(u)))}
  <1> SUFFICES ASSUME B # {} PROVE FALSE
    OBVIOUS
  <1>1. PICK u \in B : \A v \in B : v \subseteq u => v = u
    <2>1. B \in SUBSET SUBSET S
      OBVIOUS
    <2> HIDE DEF B
    <2> QED BY <2>1, SmallestSubset
  <1>2. u \subseteq S /\ ~(-SumFunctionOnSet(f, u) <= Cardinality(L(u))) /\ IsFiniteSet(u)
    BY FS_Subset
  <1>3. u # {}
    <2>1. u = {} => L(u) = {}
      OBVIOUS
    <2> QED BY <1>2, <2>1, SumOnEmpty, FS_EmptySet
  <1>4. PICK a \in u : TRUE
    BY <1>3
  <1>5. -SumFunctionOnSet(f, u \ {a}) <= Cardinality(L(u \ {a}))
    <2>1. u \ {a} \notin B
      BY <1>1, <1>4
    <2> QED BY <1>2, <2>1
  <1>6. /\ SumFunctionOnSet(f, u) = f[a] + SumFunctionOnSet(f, u \ {a})
        /\ SumFunctionOnSet(f, u \ {a}) \in Int /\ f[a] \in {1, -1}
    BY <1>2, <1>4, SumOnAdd
  <1>7. /\ L(u \ {a}) = L(u) \ {a}
        /\ (f[a] = -1 => a \in L(u)) /\ (f[a] # -1 => L(u) \ {a} = L(u))
    BY <1>4
  <1>8. IsFiniteSet(L(u))
    BY <1>2, FS_Subset
  <1> HIDE DEF B, L
  <1>9. /\ Cardinality(L(u)) \in Nat
        /\ Cardinality(L(u) \ {a}) = IF a \in L(u) THEN Cardinality(L(u)) - 1
                                     ELSE Cardinality(L(u))
    BY <1>8, FS_RemoveElement, FS_CardinalityType
  <1>10. CASE f[a] = -1
    <2>1. -SumFunctionOnSet(f, u \ {a}) <= Cardinality(L(u)) - 1
      BY <1>5, <1>7, <1>9, <1>10
    <2>2. SumFunctionOnSet(f, u) = SumFunctionOnSet(f, u \ {a}) - 1
      BY <1>6, <1>10
    <2> QED BY <1>2, <1>6, <1>9, <2>1, <2>2
  <1>11. CASE f[a] = 1
    <2>1. -SumFunctionOnSet(f, u \ {a}) <= Cardinality(L(u))
      BY <1>5, <1>7, <1>11
    <2>2. SumFunctionOnSet(f, u) = SumFunctionOnSet(f, u \ {a}) + 1
      BY <1>6, <1>11
    <2> QED BY <1>2, <1>6, <1>9, <2>1, <2>2
  <1> QED BY <1>6, <1>10, <1>11

----------------------------------------------------------------------------
(* Filtered sequences.  k gives what is kept of the first i elements of s. *)
IsKept(s, T, n, k) ==
    k = [i \in 0..n |->
           IF i = 0 THEN << >>
           ELSE IF s[i] \in T THEN Append(k[i - 1], s[i]) ELSE k[i - 1]]

LEMMA KeptStep ==
    ASSUME NEW s, NEW T, NEW n \in Nat, NEW k, IsKept(s, T, n, k), NEW i \in 0..n
    PROVE  /\ i = 0 => k[i] = << >>
           /\ i # 0 /\ s[i] \in T => k[i] = Append(k[i - 1], s[i])
           /\ i # 0 /\ s[i] \notin T => k[i] = k[i - 1]
  <1>1. k[i] = IF i = 0 THEN << >>
               ELSE IF s[i] \in T THEN Append(k[i - 1], s[i]) ELSE k[i - 1]
    BY Zenon DEF IsKept
  <1> QED BY <1>1, Zenon

LEMMA KeptExists ==
    ASSUME NEW s, NEW T, NEW n \in Nat
    PROVE  \E k : IsKept(s, T, n, k)
  <1> DEFINE B == {m \in Nat : ~\E k : IsKept(s, T, m, k)}
  <1> SUFFICES ASSUME B # {} PROVE FALSE
    OBVIOUS
  <1>1. PICK m \in B : \A j \in B : m <= j
    <2>1. B \in SUBSET Nat
      OBVIOUS
    <2> HIDE DEF B
    <2> QED BY <2>1, LeastNumber
  <1>2. m # 0
    <2>1. IsKept(s, T, 0, [i \in 0..0 |-> << >>])
      BY DEF IsKept
    <2> QED BY <1>1, <2>1
  <1>3. PICK k : IsKept(s, T, m - 1, k)
    BY <1>1, <1>2
  <1> DEFINE e == [i \in 0..m |->
                     IF i # m THEN k[i]
                     ELSE IF s[m] \in T THEN Append(k[m - 1], s[m]) ELSE k[m - 1]]
  <1>4. ASSUME NEW i \in 0..m
        PROVE  e[i] = IF i = 0 THEN << >>
                      ELSE IF s[i] \in T THEN Append(e[i - 1], s[i]) ELSE e[i - 1]
    <2>1. CASE i = m
      <3>1. e[i - 1] = k[m - 1] /\ i # 0
        BY <1>2, <2>1
      <3> QED BY <2>1, <3>1
    <2>2. CASE i # m
      <3>1. i \in 0..(m - 1) /\ m - 1 \in Nat
        BY <1>2, <2>2
      <3>2. e[i] = k[i] /\ (i # 0 => e[i - 1] = k[i - 1])
        BY <2>2
      <3> HIDE DEF e
      <3>3. /\ i = 0 => k[i] = << >>
            /\ i # 0 /\ s[i] \in T => k[i] = Append(k[i - 1], s[i])
            /\ i # 0 /\ s[i] \notin T => k[i] = k[i - 1]
        BY <1>3, <3>1, KeptStep
      <3> QED BY <3>2, <3>3, Zenon
    <2> QED BY <2>1, <2>2
  <1>5. IsKept(s, T, m, e)
    <2>1. e = [i \in 0..m |-> e[i]]
      OBVIOUS
    <2> HIDE DEF e
    <2> QED BY <1>4, <2>1, Zenon DEF IsKept
  <1> QED BY <1>1, <1>5

(* r holds the elements of s[1..n] that are in T: h says where they are.   *)
Picks(s, T, n, r, h) ==
    /\ DOMAIN h = DOMAIN r
    /\ \A j \in DOMAIN r : h[j] \in 1..n /\ r[j] = s[h[j]] /\ s[h[j]] \in T
    /\ \A j, l \in DOMAIN r : j < l => h[j] < h[l]
    /\ \A i \in 1..n : s[i] \in T => \E j \in DOMAIN r : h[j] = i

LEMMA PicksAppend ==
    ASSUME NEW S, NEW s \in Seq(S), NEW T, NEW n \in 1..Len(s), NEW r \in Seq(S), NEW h,
           Picks(s, T, n - 1, r, h), s[n] \in T
    PROVE  \E e : Picks(s, T, n, Append(r, s[n]), e)
  <1> DEFINE q == Append(r, s[n])
             l == Len(r) + 1
             e == [j \in 1..l |-> IF j = l THEN n ELSE h[j]]
  <1>1. /\ DOMAIN q = 1..l /\ DOMAIN r = 1..Len(r) /\ Len(r) \in Nat
        /\ q[l] = s[n] /\ \A j \in DOMAIN r : q[j] = r[j]
    OBVIOUS
  <1>2. /\ DOMAIN e = 1..l /\ e[l] = n
        /\ \A j \in DOMAIN r : e[j] = h[j] /\ j # l /\ j \in 1..l
        /\ \A j \in 1..l : j = l \/ j \in DOMAIN r
        /\ \A j \in DOMAIN r : j < l
    BY <1>1
  <1>3. n \in Nat
    OBVIOUS
  <1> HIDE DEF q, e, l
  <1>4. \A j \in DOMAIN q : e[j] \in 1..n /\ q[j] = s[e[j]] /\ s[e[j]] \in T
    <2>1. \A j \in DOMAIN r : h[j] \in 1..(n - 1) /\ r[j] = s[h[j]] /\ s[h[j]] \in T
      BY DEF Picks
    <2>2. 1..(n - 1) \subseteq 1..n /\ n \in 1..n
      BY <1>3
    <2> QED BY <1>1, <1>2, <2>1, <2>2
  <1>5. ASSUME NEW j \in DOMAIN q, NEW i \in DOMAIN q, j < i PROVE e[j] < e[i]
    <2>1. j \in DOMAIN r
      BY <1>1, <1>2, <1>5 DEF l
    <2>2. h[j] \in 1..(n - 1)
      BY <2>1 DEF Picks
    <2>3. CASE i = l
      BY <1>2, <1>3, <2>1, <2>2, <2>3
    <2>4. CASE i \in DOMAIN r
      BY <1>2, <1>5, <2>1, <2>4 DEF Picks
    <2> QED BY <1>1, <1>2, <2>3, <2>4
  <1>6. ASSUME NEW i \in 1..n, s[i] \in T PROVE \E j \in DOMAIN q : e[j] = i
    <2>1. CASE i = n
      <3>1. l \in DOMAIN q /\ e[l] = i
        BY <1>1, <1>2, <2>1 DEF l
      <3> QED BY <3>1
    <2>2. CASE i # n
      <3>1. i \in 1..(n - 1)
        BY <1>3, <2>2
      <3> QED BY <1>1, <1>2, <1>6, <3>1 DEF Picks
    <2> QED BY <2>1, <2>2
  <1>7. Picks(s, T, n, q, e)
    BY <1>1, <1>2, <1>4, <1>5, <1>6 DEF Picks
  <1> QED BY <1>7 DEF q

LEMMA KeptPicks ==
    ASSUME NEW S, NEW s \in Seq(S), NEW T, NEW k, IsKept(s, T, Len(s), k), NEW i \in 0..Len(s)
    PROVE  k[i] \in Seq(S) /\ \E h : Picks(s, T, i, k[i], h)
  <1> DEFINE B == {j \in 0..Len(s) : ~(k[j] \in Seq(S) /\ \E h : Picks(s, T, j, k[j], h))}
  <1> SUFFICES ASSUME B # {} PROVE FALSE
    OBVIOUS
  <1>1. PICK m \in B : \A j \in B : m <= j
    <2>1. B \in SUBSET Nat
      OBVIOUS
    <2> HIDE DEF B
    <2> QED BY <2>1, LeastNumber
  <1>2. m \in 0..Len(s) /\ Len(s) \in Nat
    OBVIOUS
  <1>3. /\ m = 0 => k[m] = << >>
        /\ m # 0 /\ s[m] \in T => k[m] = Append(k[m - 1], s[m])
        /\ m # 0 /\ s[m] \notin T => k[m] = k[m - 1]
    <2> HIDE DEF B
    <2> DEFINE n == Len(s)
    <2>1. n \in Nat /\ m \in 0..n /\ IsKept(s, T, n, k)
      BY <1>2
    <2> HIDE DEF n
    <2>2. k[m] = IF m = 0 THEN << >>
                 ELSE IF s[m] \in T THEN Append(k[m - 1], s[m]) ELSE k[m - 1]
      BY <2>1, Zenon DEF IsKept
    <2> QED BY <2>2, Zenon
  <1>4. m # 0
    <2>1. Picks(s, T, 0, << >>, << >>)
      BY DEF Picks
    <2>2. << >> \in Seq(S)
      OBVIOUS
    <2>3. ~(k[m] \in Seq(S) /\ \E h : Picks(s, T, m, k[m], h))
      BY <1>1
    <2> HIDE DEF B
    <2> QED BY <1>3, <2>1, <2>2, <2>3
  <1>5. k[m - 1] \in Seq(S) /\ \E h : Picks(s, T, m - 1, k[m - 1], h)
    BY <1>1, <1>2, <1>4
  <1>6. PICK h : Picks(s, T, m - 1, k[m - 1], h)
    BY <1>5
  <1>7. m \in 1..Len(s) /\ s[m] \in S
    BY <1>2, <1>4
  <1>8. k[m] \in Seq(S)
    <2> HIDE DEF B
    <2>1. s[m] \in T => k[m] = Append(k[m - 1], s[m])
      BY <1>3, <1>4, Zenon
    <2>2. s[m] \notin T => k[m] = k[m - 1]
      BY <1>3, <1>4, Zenon
    <2>3. Append(k[m - 1], s[m]) \in Seq(S)
      BY <1>5, <1>7
    <2> QED BY <1>5, <2>1, <2>2, <2>3
  <1>9. \E e : Picks(s, T, m, k[m], e)
    <2>1. CASE s[m] \in T
      BY <1>3, <1>4, <1>5, <1>6, <1>7, <2>1, PicksAppend
    <2>2. CASE s[m] \notin T
      <3>1. k[m] = k[m - 1]
        BY <1>3, <1>4, <2>2
      <3>2. 1..(m - 1) \subseteq 1..m /\ \A j \in 1..m : j = m \/ j \in 1..(m - 1)
        BY <1>2
      <3>3. Picks(s, T, m, k[m], h)
        BY <1>6, <2>2, <3>1, <3>2 DEF Picks
      <3> QED BY <3>3
    <2> QED BY <2>1, <2>2
  <1> QED BY <1>1, <1>8, <1>9

(* What Filtered returns.                                                  *)
LEMMA FilteredPicks ==
    ASSUME NEW S, NEW s \in Seq(S), NEW T
    PROVE  Filtered(s, T) \in Seq(S) /\ \E h : Picks(s, T, Len(s), Filtered(s, T), h)
  <1> DEFINE k == CHOOSE k : IsKept(s, T, Len(s), k)
  <1>1. Filtered(s, T) = k[Len(s)]
    BY Zenon DEF Filtered, IsKept
  <1>2. IsKept(s, T, Len(s), k)
    <2>1. Len(s) \in Nat
      OBVIOUS
    <2> QED BY <2>1, KeptExists, Zenon
  <1> HIDE DEF k
  <1>3. Len(s) \in 0..Len(s)
    OBVIOUS
  <1> QED BY <1>1, <1>2, <1>3, KeptPicks

(* Its elements: those of s that are in T.                                 *)
LEMMA FilteredElements ==
    ASSUME NEW S, NEW s \in Seq(S), NEW T
    PROVE  /\ Filtered(s, T) \in Seq(S)
           /\ \A j \in DOMAIN Filtered(s, T) :
                 Filtered(s, T)[j] \in T /\ \E i \in DOMAIN s : s[i] = Filtered(s, T)[j]
           /\ \A i \in DOMAIN s : s[i] \in T =>
                 \E j \in DOMAIN Filtered(s, T) : Filtered(s, T)[j] = s[i]
  <1> DEFINE r == Filtered(s, T)
  <1>1. PICK h : Picks(s, T, Len(s), r, h)
    BY FilteredPicks
  <1>2. DOMAIN s = 1..Len(s)
    OBVIOUS
  <1>3. r \in Seq(S)
    BY FilteredPicks
  <1> HIDE DEF r
  <1>4. \A j \in DOMAIN r : r[j] \in T /\ \E i \in DOMAIN s : s[i] = r[j]
    BY <1>1, <1>2 DEF Picks
  <1>5. \A i \in DOMAIN s : s[i] \in T => \E j \in DOMAIN r : r[j] = s[i]
    BY <1>1, <1>2 DEF Picks
  <1> QED BY <1>3, <1>4, <1>5 DEF r

(* No element twice, if s has none twice.                                  *)
LEMMA FilteredInjective ==
    ASSUME NEW S, NEW s \in Seq(S), NEW T, IsInjective(s)
    PROVE  IsInjective(Filtered(s, T))
  <1> DEFINE r == Filtered(s, T)
  <1>1. PICK h : Picks(s, T, Len(s), r, h)
    BY FilteredPicks
  <1>2. DOMAIN s = 1..Len(s)
    OBVIOUS
  <1>3. r \in Seq(S)
    BY FilteredPicks
  <1>4. DOMAIN r \subseteq Int
    BY <1>3
  <1> HIDE DEF r
  <1>5. ASSUME NEW j \in DOMAIN r, NEW l \in DOMAIN r, r[j] = r[l] PROVE j = l
    <2>1. h[j] = h[l]
      BY <1>1, <1>2, <1>5 DEF Picks, IsInjective
    <2>2. h[j] \in Int /\ h[l] \in Int
      BY <1>1 DEF Picks
    <2> QED BY <1>1, <1>4, <2>1, <2>2 DEF Picks
  <1> QED BY <1>5 DEF r, IsInjective

(* Nothing but one element passes.                                         *)
LEMMA FilteredSingle ==
    ASSUME NEW S, NEW s \in Seq(S), NEW T, NEW i \in DOMAIN s, s[i] \in T,
           \A l \in DOMAIN s : s[l] \in T => l = i
    PROVE  Filtered(s, T) = << s[i] >>
  <1> DEFINE r == Filtered(s, T)
  <1>1. PICK h : Picks(s, T, Len(s), r, h)
    BY FilteredPicks
  <1>2. DOMAIN s = 1..Len(s)
    OBVIOUS
  <1>3. r \in Seq(S) /\ DOMAIN r = 1..Len(r) /\ Len(r) \in Nat
    BY FilteredPicks
  <1> HIDE DEF r
  <1>4. \A j \in DOMAIN r : h[j] = i /\ r[j] = s[i]
    BY <1>1, <1>2 DEF Picks
  <1>5. \E j \in DOMAIN r : TRUE
    BY <1>1, <1>2 DEF Picks
  <1>6. ~(1 \in DOMAIN r /\ 2 \in DOMAIN r)
    <2>1. SUFFICES ASSUME 1 \in DOMAIN r, 2 \in DOMAIN r PROVE FALSE
      OBVIOUS
    <2>2. h[1] < h[2] /\ h[1] = i /\ h[2] = i /\ i \in Int
      BY <1>1, <1>2, <1>4, <2>1 DEF Picks
    <2> QED BY <2>2
  <1>7. Len(r) = 1
    BY <1>3, <1>5, <1>6
  <1> QED BY <1>3, <1>4, <1>7 DEF r

(* Nothing passes.                                                         *)
LEMMA FilteredEmpty ==
    ASSUME NEW S, NEW s \in Seq(S), NEW T
    PROVE  Filtered(s, T) = << >> <=> \A i \in DOMAIN s : s[i] \notin T
  <1> DEFINE r == Filtered(s, T)
  <1>1. r \in Seq(S)
    BY FilteredPicks
  <1>2. (r = << >>) <=> (DOMAIN r = {})
    <2> HIDE DEF r
    <2>1. DOMAIN r = 1..Len(r) /\ Len(r) \in Nat
      BY <1>1
    <2>2. DOMAIN r = {} => Len(r) = 0
      <3>1. Len(r) # 0 => 1 \in 1..Len(r)
        BY <2>1
      <3> QED BY <2>1, <3>1
    <2>3. Len(r) = 0 => r = << >>
      BY <1>1
    <2> QED BY <2>1, <2>2, <2>3
  <1>3. (DOMAIN r = {}) <=> \A i \in DOMAIN s : s[i] \notin T
    BY FilteredElements
  <1> QED BY <1>2, <1>3

(* Filtering shortens.                                                     *)
LEMMA FilteredLength ==
    ASSUME NEW S, NEW s \in Seq(S), NEW T
    PROVE  Len(Filtered(s, T)) \in Nat /\ Len(Filtered(s, T)) <= Len(s)
  <1> DEFINE r == Filtered(s, T)
             n == Len(r)
  <1>1. PICK h : Picks(s, T, Len(s), r, h)
    BY FilteredPicks
  <1>2. r \in Seq(S)
    BY FilteredPicks
  <1> HIDE DEF r
  <1>3. n \in Nat /\ DOMAIN r = 1..n /\ Len(s) \in Nat
    BY <1>2
  <1>4. /\ \A j \in 1..n : h[j] \in 1..Len(s)
        /\ \A j, l \in 1..n : j < l => h[j] < h[l]
    BY <1>1, <1>3 DEF Picks
  <1> HIDE DEF n
  <1> DEFINE B == {j \in 1..n : h[j] < j}
  <1>5. B = {}
    <2> SUFFICES ASSUME B # {} PROVE FALSE
      OBVIOUS
    <2>1. PICK m \in B : \A j \in B : m <= j
      <3>1. B \in SUBSET Nat
        BY <1>3
      <3> HIDE DEF B
      <3> QED BY <3>1, LeastNumber
    <2>2. m # 1
      BY <1>4
    <2>3. m - 1 \in 1..n /\ h[m - 1] \in 1..Len(s) /\ h[m] \in 1..Len(s)
      BY <1>3, <1>4, <2>2
    <2>4. ~(h[m - 1] < m - 1)
      BY <1>3, <2>1, <2>3
    <2>5. h[m - 1] < h[m]
      BY <1>3, <1>4, <2>3
    <2> QED BY <1>3, <2>3, <2>4, <2>5
  <1>6. n <= Len(s)
    <2>1. CASE n = 0
      BY <1>3, <2>1
    <2>2. CASE n # 0
      <3>1. n \in 1..n
        BY <1>3, <2>2
      <3>2. h[n] \in 1..Len(s) /\ ~(h[n] < n)
        BY <1>4, <1>5, <3>1
      <3> QED BY <1>3, <3>2
    <2> QED BY <2>1, <2>2
  <1> QED BY <1>3, <1>6 DEF r, n

(* What no two elements of a sequence share, no two that are left share.   *)
LEMMA FilteredUnique ==
    ASSUME NEW S, NEW s \in Seq(S), NEW T, NEW U,
           \A i, j \in DOMAIN s : s[i] \in U /\ s[j] \in U => i = j
    PROVE  LET r == Filtered(s, T)
           IN  \A i, j \in DOMAIN r : r[i] \in U /\ r[j] \in U => i = j
  <1> DEFINE r == Filtered(s, T)
  <1>1. PICK h : Picks(s, T, Len(s), r, h)
    BY FilteredPicks
  <1>2. r \in Seq(S)
    BY FilteredPicks
  <1> HIDE DEF r
  <1> SUFFICES ASSUME NEW i \in DOMAIN r, NEW j \in DOMAIN r, r[i] \in U, r[j] \in U
               PROVE  i = j
    BY DEF r
  <1>3. h[i] \in DOMAIN s /\ h[j] \in DOMAIN s /\ r[i] = s[h[i]] /\ r[j] = s[h[j]]
    BY <1>1 DEF Picks
  <1>4. h[i] = h[j] /\ h[i] \in Int
    BY <1>3
  <1>5. i \in Int /\ j \in Int
    BY <1>2
  <1>6. ~(i < j) /\ ~(j < i)
    BY <1>1, <1>4 DEF Picks
  <1> QED BY <1>5, <1>6

----------------------------------------------------------------------------
(* Sets with no two elements, and sequences                                *)

LEMMA OneAtMost ==
    ASSUME NEW S, \A x, y \in S : x = y
    PROVE  Cardinality(S) <= 1
  <1>1. CASE S = {}
    BY <1>1, FS_EmptySet
  <1>2. ASSUME NEW x \in S PROVE Cardinality(S) <= 1
    <2>1. S = {x}
      OBVIOUS
    <2> QED BY <2>1, FS_Singleton
  <1> QED BY <1>1, <1>2

LEMMA SeqAppended ==
    ASSUME NEW S, NEW u \in Seq(S), NEW v \in Seq(S)
    PROVE  /\ u \o v \in Seq(S) /\ Len(u \o v) = Len(u) + Len(v)
           /\ Len(u) \in Nat /\ Len(v) \in Nat
           /\ \A i \in 1..Len(u) : (u \o v)[i] = u[i]
           /\ \A i \in (Len(u) + 1)..(Len(u) + Len(v)) : (u \o v)[i] = v[i - Len(u)]
  OBVIOUS

LEMMA SeqTail ==
    ASSUME NEW S, NEW u \in Seq(S), u # <<>>
    PROVE  /\ Tail(u) \in Seq(S) /\ Len(Tail(u)) = Len(u) - 1 /\ Len(u) \in Nat \ {0}
           /\ Head(u) = u[1] /\ 1 \in DOMAIN u
           /\ \A i \in 1..(Len(u) - 1) : Tail(u)[i] = u[i + 1] /\ i + 1 \in DOMAIN u
  OBVIOUS

(* Filtering leaves no more elements of any kind.                          *)
LEMMA FilteredCount ==
    ASSUME NEW S, NEW s \in Seq(S), NEW T, NEW U
    PROVE  Cardinality({j \in DOMAIN Filtered(s, T) : Filtered(s, T)[j] \in U})
             <= Cardinality({i \in DOMAIN s : s[i] \in U})
  <1> DEFINE r == Filtered(s, T)
             J == {j \in DOMAIN r : r[j] \in U}
             I == {i \in DOMAIN s : s[i] \in U}
  <1>1. PICK h : Picks(s, T, Len(s), r, h)
    BY FilteredPicks
  <1>2. r \in Seq(S)
    BY FilteredPicks
  <1> HIDE DEF r
  <1>3. DOMAIN r \subseteq Int /\ DOMAIN s = 1..Len(s) /\ Len(s) \in Nat
    BY <1>2
  <1> DEFINE k == [j \in J |-> h[j]]
  <1>4. \A j \in J : k[j] \in I
    BY <1>1, <1>3 DEF Picks
  <1>5. \A j, l \in J : k[j] = k[l] => j = l
    <2>1. \A j \in DOMAIN r : h[j] \in Int
      BY <1>1, <1>3 DEF Picks
    <2>2. \A j, l \in DOMAIN r : h[j] = h[l] => ~(j < l)
      BY <1>1, <1>3, <2>1 DEF Picks
    <2> QED BY <1>3, <2>2
  <1>6. k \in Injection(J, I)
    BY <1>4, <1>5 DEF Injection, IsInjective
  <1>7. IsFiniteSet(I)
    <2>1. IsFiniteSet(1..Len(s))
      BY <1>3, FS_Interval
    <2> QED BY <1>3, <2>1, FS_Subset
  <1> HIDE DEF I, J, k
  <1>8. Cardinality(J) <= Cardinality(I)
    BY <1>6, <1>7, FS_Injection
  <1> QED BY <1>8 DEF I, J, r

LEMMA SeqExtended ==
    ASSUME NEW S, NEW u \in Seq(S), NEW x \in S, NEW q, q = Append(u, x)
    PROVE  /\ q \in Seq(S) /\ q[Len(u) + 1] = x
           /\ DOMAIN q = DOMAIN u \union {Len(u) + 1} /\ Len(u) + 1 \notin DOMAIN u
           /\ \A j \in DOMAIN u : q[j] = u[j]
  <1>1. q \in Seq(S) /\ Len(u) \in Nat /\ DOMAIN u = 1..Len(u)
    OBVIOUS
  <1>2. q[Len(u) + 1] = x
    OBVIOUS
  <1>3. \A j \in 1..Len(u) : q[j] = u[j]
    OBVIOUS
  <1>4. DOMAIN q = 1..(Len(u) + 1)
    OBVIOUS
  <1>5. 1..(Len(u) + 1) = 1..Len(u) \union {Len(u) + 1}
    BY <1>1
  <1>6. Len(u) + 1 \notin 1..Len(u)
    BY <1>1
  <1> QED BY <1>1, <1>2, <1>3, <1>4, <1>5, <1>6, Zenon

(* An element more is one more of its kind.                                *)
LEMMA AppendedCount ==
    ASSUME NEW S, NEW s \in Seq(S), NEW x \in S, NEW U
    PROVE  /\ Append(s, x) \in Seq(S)
           /\ Cardinality({j \in DOMAIN Append(s, x) : Append(s, x)[j] \in U})
                = Cardinality({i \in DOMAIN s : s[i] \in U}) + (IF x \in U THEN 1 ELSE 0)
  <1> DEFINE q == Append(s, x)
             n == Len(s) + 1
             J == {j \in DOMAIN q : q[j] \in U}
             I == {i \in DOMAIN s : s[i] \in U}
  <1>1. q = Append(s, x)
    OBVIOUS
  <1> HIDE DEF q
  <1>2. /\ q \in Seq(S) /\ q[n] = x /\ DOMAIN q = DOMAIN s \union {n} /\ n \notin DOMAIN s
        /\ \A j \in DOMAIN s : q[j] = s[j]
    BY <1>1, SeqExtended
  <1>3. IsFiniteSet(I)
    <2>1. DOMAIN s = 1..Len(s) /\ Len(s) \in Nat
      OBVIOUS
    <2>2. IsFiniteSet(1..Len(s))
      BY <2>1, FS_Interval
    <2> QED BY <2>1, <2>2, FS_Subset
  <1>4. (x \in U => J = I \union {n}) /\ (x \notin U => J = I) /\ n \notin I
    BY <1>2
  <1> HIDE DEF I, J, n
  <1>5. x \in U => Cardinality(J) = Cardinality(I) + 1
    BY <1>3, <1>4, FS_AddElement
  <1>6. x \notin U => Cardinality(J) = Cardinality(I) + 0
    BY <1>3, <1>4, FS_CardinalityType
  <1>7. Cardinality(J) = Cardinality(I) + (IF x \in U THEN 1 ELSE 0)
    BY <1>5, <1>6
  <1> QED BY <1>2, <1>7 DEF I, J, q
=============================================================================
