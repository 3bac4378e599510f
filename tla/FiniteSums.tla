------------------------------ MODULE FiniteSums ------------------------------
(***************************************************************************)
(* Lemmas about SumFunctionOnSet of the community module Functions, for any*)
(* finite set: the sum a ledger is compared with. The fold is defined by a *)
(* recursive function on subsets; a lemma about every subset is proved by  *)
(* taking a smallest one it fails for, since strict inclusion is well      *)
(* founded on the finite subsets.                                          *)
(***************************************************************************)
EXTENDS Functions, FiniteSets, FiniteSetTheorems, WellFoundedInduction, Integers, TLAPS

(* A family of subsets of a finite set, if not empty, has a smallest one.  *)
LEMMA MinimalSubset ==
  ASSUME NEW S, IsFiniteSet(S), NEW F \in SUBSET SUBSET S, F # {}
  PROVE  \E m \in F : \A n \in F : n \subseteq m => n = m
<1>1. IsWellFoundedOn(StrictSubsetOrdering(S), SUBSET S)
  BY FS_StrictSubsetOrderingWellFounded, FS_FiniteSubsetsOfFinite
<1>2. \E m \in F : \A n \in F : <<n, m>> \notin StrictSubsetOrdering(S)
  <2> DEFINE R == StrictSubsetOrdering(S)
  <2> HIDE DEF R
  <2>1. IsWellFoundedOn(R, SUBSET S)
    BY <1>1 DEF R
  <2>2. \E m \in F : \A n \in F : ~ (<<n, m>> \in R)
    BY <2>1, WFMin
  <2>3. QED
    BY <2>2 DEF R
<1>3. QED
  BY <1>2 DEF StrictSubsetOrdering

(* The element the fold takes out first.                                   *)
Chosen(s) == CHOOSE x \in s : TRUE

(* g is the function the fold is defined by.                               *)
Solves(g, f, S) ==
  g = [s \in SUBSET S |-> IF s = {} THEN 0 ELSE f[Chosen(s)] + g[s \ {Chosen(s)}]]

(* The sum is the value of the function the fold chooses.                  *)
LEMMA SumDef ==
  ASSUME NEW f, NEW S
  PROVE  SumFunctionOnSet(f, S) = (CHOOSE g : Solves(g, f, S))[S]
  BY DEF SumFunctionOnSet, FoldFunctionOnSet, MapThenFoldSet, Solves, Chosen

(* A set that has elements has its chosen one.                             *)
LEMMA ChosenIn ==
  ASSUME NEW s, s # {}
  PROVE  Chosen(s) \in s
  BY DEF Chosen

(* Two such functions agree where both are defined.                        *)
LEMMA SolutionsAgree ==
  ASSUME NEW S, IsFiniteSet(S), NEW f, NEW g, NEW T, NEW h, Solves(g, f, S), Solves(h, f, T),
         NEW s \in SUBSET S, s \in SUBSET T
  PROVE  g[s] = h[s]
<1> DEFINE F == {u \in SUBSET S : u \subseteq T /\ g[u] # h[u]}
<1> SUFFICES ASSUME s \in F PROVE FALSE
  OBVIOUS
<1>1. PICK m \in F : \A n \in F : n \subseteq m => n = m
  <2>1. F \in SUBSET SUBSET S /\ F # {}
    OBVIOUS
  <2> HIDE DEF F
  <2>2. QED
    BY <2>1, MinimalSubset
<1>2. m # {}
  BY <1>1 DEF Solves
<1>3. Chosen(m) \in m
  BY <1>2, ChosenIn
<1> DEFINE r == m \ {Chosen(m)}
<1>4. r \in SUBSET S /\ r \in SUBSET T /\ r \subseteq m /\ r # m
  BY <1>1, <1>3
<1>5. g[r] = h[r]
  BY <1>1, <1>4
<1>6. g[m] = f[Chosen(m)] + g[r]
  BY <1>1, <1>2 DEF Solves
<1>7. h[m] = f[Chosen(m)] + h[r]
  BY <1>1, <1>2 DEF Solves
<1>8. QED
  BY <1>1, <1>5, <1>6, <1>7

(* There is such a function.                                               *)
LEMMA SolutionExists ==
  ASSUME NEW S, IsFiniteSet(S), NEW f
  PROVE  \E g : Solves(g, f, S)
<1> DEFINE F == {u \in SUBSET S : ~ \E g : Solves(g, f, u)}
<1> SUFFICES ASSUME S \in F PROVE FALSE
  OBVIOUS
<1>1. PICK m \in F : \A n \in F : n \subseteq m => n = m
  <2>1. F \in SUBSET SUBSET S /\ F # {}
    OBVIOUS
  <2> HIDE DEF F
  <2>2. QED
    BY <2>1, MinimalSubset
<1>2. ~ \E g : Solves(g, f, m)
  BY <1>1
<1> DEFINE G(v) == CHOOSE g : Solves(g, f, v)
<1>3. ASSUME NEW v \in SUBSET m, v # m
      PROVE  Solves(G(v), f, v)
  <2>1. v \notin F
    BY <1>1, <1>3
  <2>2. \E g : Solves(g, f, v)
    BY <1>1, <1>3, <2>1
  <2>3. QED
    BY <2>2
<1> DEFINE V(v) == IF v = {} THEN 0 ELSE f[Chosen(v)] + G(v \ {Chosen(v)})[v \ {Chosen(v)}]
           g == [v \in SUBSET m |-> V(v)]
<1>4. ASSUME NEW v \in SUBSET m, v # {}
      PROVE  g[v] = f[Chosen(v)] + g[v \ {Chosen(v)}]
  <2> DEFINE r == v \ {Chosen(v)}
  <2>1. Chosen(v) \in v /\ r \in SUBSET m /\ r # m
    BY <1>4, ChosenIn
  <2>2. g[v] = f[Chosen(v)] + G(r)[r]
    BY <1>4
  <2>3. G(r)[r] = g[r]
    <3>1. Solves(G(r), f, r)
      BY <2>1, <1>3
    <3>2. CASE r = {}
      <4>1. g[r] = 0
        BY <3>2, <2>1
      <4>2. G(r)[r] = 0
        BY <3>1, <3>2 DEF Solves
      <4>3. QED
        BY <4>1, <4>2
    <3>3. CASE r # {}
      <4> DEFINE q == r \ {Chosen(r)}
      <4>1. Chosen(r) \in r /\ q \in SUBSET m /\ q # m /\ q \in SUBSET r
        BY <3>3, <2>1, ChosenIn
      <4>2. g[r] = f[Chosen(r)] + G(q)[q]
        BY <3>3, <2>1
      <4>3. G(r)[r] = f[Chosen(r)] + G(r)[q]
        <5> HIDE DEF G
        <5> QED BY <3>1, <3>3 DEF Solves
      <4>4. Solves(G(q), f, q)
        BY <4>1, <1>3
      <4>5. IsFiniteSet(q)
        BY <4>1, <1>1, FS_Subset
      <4>6. G(q)[q] = G(r)[q]
        <5> HIDE DEF G, q, r
        <5>1. q \in SUBSET q
          OBVIOUS
        <5>2. QED
          BY <5>1, <4>1, <4>4, <4>5, <3>1, SolutionsAgree
      <4>7. QED
        BY <4>2, <4>3, <4>6
    <3>4. QED
      BY <3>2, <3>3
  <2>4. QED
    BY <2>2, <2>3
<1>5. Solves(g, f, m)
  <2>1. \A v \in SUBSET m :
          g[v] = IF v = {} THEN 0 ELSE f[Chosen(v)] + g[v \ {Chosen(v)}]
    <3>1. g[{}] = 0
      OBVIOUS
    <3>2. QED
      <4> HIDE DEF g
      <4> QED BY <3>1, <1>4
  <2>2. g = [v \in SUBSET m |-> g[v]]
    OBVIOUS
  <2>3. QED
    <3> HIDE DEF g
    <3> QED BY <2>1, <2>2 DEF Solves
<1>6. QED
  BY <1>2, <1>5

(* So the sum is the value of one.                                         *)
LEMMA SumIsSolution ==
  ASSUME NEW S, IsFiniteSet(S), NEW f
  PROVE  \E g : Solves(g, f, S) /\ SumFunctionOnSet(f, S) = g[S]
<1>1. \E g : Solves(g, f, S)
  BY SolutionExists
<1>2. Solves(CHOOSE g : Solves(g, f, S), f, S)
  BY <1>1
<1>3. QED
  BY <1>2, SumDef

(* Nothing adds up to 0.                                                   *)
LEMMA SumEmpty ==
  ASSUME NEW f
  PROVE  SumFunctionOnSet(f, {}) = 0
<1>1. IsFiniteSet({})
  BY FS_EmptySet
<1>2. QED
  BY <1>1, SumIsSolution DEF Solves

(* The chosen element adds its value to the rest.                          *)
LEMMA SumChosen ==
  ASSUME NEW S, IsFiniteSet(S), S # {}, NEW f
  PROVE  SumFunctionOnSet(f, S) = f[Chosen(S)] + SumFunctionOnSet(f, S \ {Chosen(S)})
<1> DEFINE r == S \ {Chosen(S)}
<1>1. IsFiniteSet(r)
  BY FS_RemoveElement
<1>2. PICK g : Solves(g, f, S) /\ SumFunctionOnSet(f, S) = g[S]
  BY SumIsSolution
<1>3. PICK h : Solves(h, f, r) /\ SumFunctionOnSet(f, r) = h[r]
  BY <1>1, SumIsSolution
<1>4. g[r] = h[r]
  <2>1. r \in SUBSET S /\ r \in SUBSET r
    OBVIOUS
  <2> HIDE DEF r
  <2>2. QED
    BY <2>1, <1>2, <1>3, SolutionsAgree
<1>5. g[S] = f[Chosen(S)] + g[r]
  BY <1>2 DEF Solves
<1>6. QED
  BY <1>2, <1>3, <1>4, <1>5

(* Natural numbers add up to one.                                          *)
LEMMA SumInNat ==
  ASSUME NEW S, IsFiniteSet(S), NEW f, \A x \in S : f[x] \in Nat
  PROVE  SumFunctionOnSet(f, S) \in Nat
<1> DEFINE F == {u \in SUBSET S : SumFunctionOnSet(f, u) \notin Nat}
<1> SUFFICES ASSUME S \in F PROVE FALSE
  OBVIOUS
<1>1. PICK m \in F : \A n \in F : n \subseteq m => n = m
  <2>1. F \in SUBSET SUBSET S /\ F # {}
    OBVIOUS
  <2> HIDE DEF F
  <2>2. QED
    BY <2>1, MinimalSubset
<1>2. IsFiniteSet(m) /\ m # {}
  <2>1. SumFunctionOnSet(f, {}) \in Nat
    BY SumEmpty
  <2>2. m # {}
    BY <1>1, <2>1
  <2>3. QED
    BY <1>1, <2>2, FS_Subset
<1> DEFINE r == m \ {Chosen(m)}
<1>3. Chosen(m) \in m /\ r \in SUBSET S /\ r \subseteq m /\ r # m
  BY <1>1, <1>2, ChosenIn
<1>4. SumFunctionOnSet(f, r) \in Nat
  BY <1>1, <1>3
<1>5. SumFunctionOnSet(f, m) = f[Chosen(m)] + SumFunctionOnSet(f, r)
  BY <1>2, SumChosen
<1>6. f[Chosen(m)] \in Nat
  BY <1>1, <1>3
<1>7. QED
  BY <1>1, <1>4, <1>5, <1>6

(* Any element adds its value to the rest, whichever the fold chose.       *)
LEMMA SumRemove ==
  ASSUME NEW S, IsFiniteSet(S), NEW f, \A x \in S : f[x] \in Nat, NEW p \in S
  PROVE  SumFunctionOnSet(f, S) = f[p] + SumFunctionOnSet(f, S \ {p})
<1> DEFINE Good(u, q) == SumFunctionOnSet(f, u) = f[q] + SumFunctionOnSet(f, u \ {q})
           F == {u \in SUBSET S : \E q \in u : ~ Good(u, q)}
<1> SUFFICES ASSUME S \in F PROVE FALSE
  OBVIOUS
<1>1. PICK m \in F : \A n \in F : n \subseteq m => n = m
  <2>1. F \in SUBSET SUBSET S /\ F # {}
    OBVIOUS
  <2> HIDE DEF F
  <2>2. QED
    BY <2>1, MinimalSubset
<1>2. PICK q \in m : ~ Good(m, q)
  BY <1>1
<1> DEFINE c == Chosen(m)
<1>3. IsFiniteSet(m) /\ m # {} /\ c \in m /\ m \in SUBSET S
  BY <1>1, <1>2, FS_Subset, ChosenIn
<1>4. SumFunctionOnSet(f, m) = f[c] + SumFunctionOnSet(f, m \ {c})
  BY <1>3, SumChosen
<1>5. c # q
  BY <1>2, <1>4
<1>6. \A n \in SUBSET m : n # m => \A x \in n : Good(n, x)
  BY <1>1, <1>3
<1>7. SumFunctionOnSet(f, m \ {c}) = f[q] + SumFunctionOnSet(f, (m \ {c}) \ {q})
  BY <1>2, <1>3, <1>5, <1>6
<1>8. SumFunctionOnSet(f, m \ {q}) = f[c] + SumFunctionOnSet(f, (m \ {q}) \ {c})
  BY <1>2, <1>3, <1>5, <1>6
<1>9. (m \ {c}) \ {q} = (m \ {q}) \ {c}
  OBVIOUS
<1>10. SumFunctionOnSet(f, (m \ {q}) \ {c}) \in Nat
  <2> DEFINE u == (m \ {q}) \ {c}
  <2>1. IsFiniteSet(u) /\ \A x \in u : f[x] \in Nat
    BY <1>3, FS_Subset
  <2> HIDE DEF u
  <2>2. SumFunctionOnSet(f, u) \in Nat
    BY <2>1, SumInNat
  <2>3. QED
    BY <2>2 DEF u
<1>11. f[c] \in Nat /\ f[q] \in Nat
  BY <1>2, <1>3
<1>12. Good(m, q)
  BY <1>4, <1>7, <1>8, <1>9, <1>10, <1>11
<1>13. QED
  BY <1>2, <1>12

(* Only the values on the set count.                                       *)
LEMMA SumSame ==
  ASSUME NEW S, IsFiniteSet(S), NEW f, NEW g, \A x \in S : f[x] = g[x]
  PROVE  SumFunctionOnSet(f, S) = SumFunctionOnSet(g, S)
<1> DEFINE F == {u \in SUBSET S : SumFunctionOnSet(f, u) # SumFunctionOnSet(g, u)}
<1> SUFFICES ASSUME S \in F PROVE FALSE
  OBVIOUS
<1>1. PICK m \in F : \A n \in F : n \subseteq m => n = m
  <2>1. F \in SUBSET SUBSET S /\ F # {}
    OBVIOUS
  <2> HIDE DEF F
  <2>2. QED
    BY <2>1, MinimalSubset
<1>2. IsFiniteSet(m) /\ m # {}
  <2>1. m # {}
    BY <1>1, SumEmpty
  <2>2. QED
    BY <1>1, <2>1, FS_Subset
<1> DEFINE r == m \ {Chosen(m)}
<1>3. Chosen(m) \in m /\ r \in SUBSET S /\ r \subseteq m /\ r # m
  BY <1>1, <1>2, ChosenIn
<1>4. SumFunctionOnSet(f, r) = SumFunctionOnSet(g, r)
  BY <1>1, <1>3
<1>5. SumFunctionOnSet(f, m) = f[Chosen(m)] + SumFunctionOnSet(f, r)
  BY <1>2, SumChosen
<1>6. SumFunctionOnSet(g, m) = g[Chosen(m)] + SumFunctionOnSet(g, r)
  BY <1>2, SumChosen
<1>7. f[Chosen(m)] = g[Chosen(m)]
  BY <1>1, <1>3
<1>8. QED
  BY <1>1, <1>4, <1>5, <1>6, <1>7

(* A larger set adds up to no less.                                        *)
LEMMA SumMonotone ==
  ASSUME NEW S, IsFiniteSet(S), NEW f, \A x \in S : f[x] \in Nat, NEW T \in SUBSET S
  PROVE  SumFunctionOnSet(f, T) <= SumFunctionOnSet(f, S)
<1> DEFINE F == {u \in SUBSET S : T \subseteq u /\ ~ SumFunctionOnSet(f, T) <= SumFunctionOnSet(f, u)}
<1> SUFFICES ASSUME S \in F PROVE FALSE
  OBVIOUS
<1>1. PICK m \in F : \A n \in F : n \subseteq m => n = m
  <2>1. F \in SUBSET SUBSET S /\ F # {}
    OBVIOUS
  <2> HIDE DEF F
  <2>2. QED
    BY <2>1, MinimalSubset
<1>2. \A u \in SUBSET S : SumFunctionOnSet(f, u) \in Nat
  BY FS_Subset, SumInNat
<1>3. m # T
  BY <1>1, <1>2
<1>4. PICK p \in m : p \notin T
  BY <1>1, <1>3
<1> DEFINE r == m \ {p}
<1>5. r \in SUBSET S /\ T \subseteq r /\ r \subseteq m /\ r # m
  BY <1>1, <1>4
<1>6. SumFunctionOnSet(f, T) <= SumFunctionOnSet(f, r)
  BY <1>1, <1>5
<1>7. IsFiniteSet(m) /\ \A x \in m : f[x] \in Nat
  BY <1>1, FS_Subset
<1>8. SumFunctionOnSet(f, m) = f[p] + SumFunctionOnSet(f, r)
  BY <1>7, <1>4, SumRemove
<1>9. f[p] \in Nat
  BY <1>4, <1>7
<1>10. QED
  BY <1>1, <1>2, <1>5, <1>6, <1>8, <1>9

(* A set adds up to what a part of it does and the rest of it.             *)
LEMMA SumSplit ==
  ASSUME NEW S, IsFiniteSet(S), NEW f, \A x \in S : f[x] \in Nat, NEW T \in SUBSET S
  PROVE  SumFunctionOnSet(f, S) = SumFunctionOnSet(f, T) + SumFunctionOnSet(f, S \ T)
<1> DEFINE Splits(u) ==
      SumFunctionOnSet(f, S) = SumFunctionOnSet(f, u) + SumFunctionOnSet(f, S \ u)
<1> DEFINE F == {u \in SUBSET S : ~ Splits(u)}
<1> SUFFICES ASSUME T \in F PROVE FALSE
  OBVIOUS
<1>1. PICK m \in F : \A n \in F : n \subseteq m => n = m
  <2>1. F \in SUBSET SUBSET S /\ F # {}
    OBVIOUS
  <2> HIDE DEF F
  <2>2. QED
    BY <2>1, MinimalSubset
<1>2. \A u \in SUBSET S : IsFiniteSet(u) /\ SumFunctionOnSet(f, u) \in Nat
  BY FS_Subset, SumInNat
<1>3. m # {}
  <2>1. S \ {} = S
    OBVIOUS
  <2>2. Splits({})
    BY <1>2, <2>1, SumEmpty
  <2>3. QED
    BY <1>1, <2>2
<1>4. PICK p \in m : TRUE
  BY <1>3
<1> DEFINE r == m \ {p}
<1>5. r \in SUBSET S /\ S \ r \in SUBSET S /\ p \in S \ r /\ (S \ r) \ {p} = S \ m
  BY <1>1, <1>4
<1>6. Splits(r)
  BY <1>1, <1>4, <1>5
<1>7. SumFunctionOnSet(f, m) = f[p] + SumFunctionOnSet(f, r)
  BY <1>1, <1>2, <1>4, SumRemove
<1>8. SumFunctionOnSet(f, S \ r) = f[p] + SumFunctionOnSet(f, S \ m)
  BY <1>2, <1>5, SumRemove
<1>9. f[p] \in Nat /\ S \ m \in SUBSET S
  BY <1>1, <1>4
<1>10. Splits(m)
  <2> HIDE DEF r
  <2>1. QED
    BY <1>2, <1>5, <1>6, <1>7, <1>8, <1>9, <1>1
<1>11. QED
  BY <1>1, <1>10

(* Where each element belongs to a key and no key's elements come to more  *)
(* than its bound, all of them come to no more than the bounds together.   *)
LEMMA SumByKeys ==
  ASSUME NEW S, IsFiniteSet(S), NEW f, \A x \in S : f[x] \in Nat,
         NEW K, IsFiniteSet(K), NEW g, \A k \in K : g[k] \in Nat,
         \A x \in S : x[1] \in K,
         \A k \in K : SumFunctionOnSet(f, {x \in S : x[1] = k}) <= g[k]
  PROVE  SumFunctionOnSet(f, S) <= SumFunctionOnSet(g, K)
<1> DEFINE Part(u) == {x \in S : x[1] \in u}
           Bounded(u) == SumFunctionOnSet(f, Part(u)) <= SumFunctionOnSet(g, u)
           F == {u \in SUBSET K : ~ Bounded(u)}
<1>1. Part(K) = S
  OBVIOUS
<1> SUFFICES ASSUME K \in F PROVE FALSE
  BY <1>1
<1>2. PICK m \in F : \A n \in F : n \subseteq m => n = m
  <2>1. F \in SUBSET SUBSET K /\ F # {}
    OBVIOUS
  <2> HIDE DEF F
  <2>2. QED
    BY <2>1, MinimalSubset
<1>3. \A T \in SUBSET S : /\ IsFiniteSet(T) /\ \A x \in T : f[x] \in Nat
                          /\ SumFunctionOnSet(f, T) \in Nat
  BY FS_Subset, SumInNat
<1>4. \A u \in SUBSET K : /\ IsFiniteSet(u) /\ \A k \in u : g[k] \in Nat
                          /\ SumFunctionOnSet(g, u) \in Nat
  BY FS_Subset, SumInNat
<1>5. m # {}
  <2>1. Part({}) = {}
    OBVIOUS
  <2>2. SumFunctionOnSet(f, {}) = 0 /\ SumFunctionOnSet(g, {}) = 0
    <3> HIDE DEF Part, Bounded, F
    <3>1. QED
      BY SumEmpty
  <2>3. SumFunctionOnSet(f, Part({})) = 0
    BY ONLY <2>1, <2>2
  <2>4. 0 <= 0
    OBVIOUS
  <2>5. Bounded({})
    BY <2>2, <2>3, <2>4
  <2>6. QED
    BY <1>2, <2>5
<1>6. PICK k \in m : TRUE
  BY <1>5
<1> DEFINE r == m \ {k}
           T == {x \in S : x[1] = k}
<1>7. /\ m \in SUBSET K /\ r \in SUBSET K /\ r \subseteq m /\ r # m /\ k \in K
      /\ T \in SUBSET Part(m) /\ Part(m) \ T = Part(r)
      /\ Part(m) \in SUBSET S /\ Part(r) \in SUBSET S /\ T \in SUBSET S
  BY <1>2, <1>6
<1>8. SumFunctionOnSet(f, Part(r)) <= SumFunctionOnSet(g, r)
  BY <1>2, <1>7
<1>9. SumFunctionOnSet(g, m) = g[k] + SumFunctionOnSet(g, r)
  BY <1>4, <1>6, <1>7, SumRemove
<1>10. SumFunctionOnSet(f, T) <= g[k]
  BY <1>7
<1>11. SumFunctionOnSet(f, Part(m)) = SumFunctionOnSet(f, T) + SumFunctionOnSet(f, Part(r))
  <2> HIDE DEF Part, T, r
  <2>1. SumFunctionOnSet(f, Part(m))
          = SumFunctionOnSet(f, T) + SumFunctionOnSet(f, Part(m) \ T)
    BY <1>3, <1>7, SumSplit
  <2>2. QED
    BY <1>7, <2>1
<1>12. /\ SumFunctionOnSet(f, T) \in Nat /\ SumFunctionOnSet(f, Part(r)) \in Nat
       /\ SumFunctionOnSet(g, r) \in Nat /\ g[k] \in Nat
  BY <1>3, <1>4, <1>7
<1>13. Bounded(m)
  <2> HIDE DEF T, r, Part
  <2>1. QED
    BY <1>8, <1>9, <1>10, <1>11, <1>12
<1>14. QED
  BY <1>2, <1>13
===============================================================================
