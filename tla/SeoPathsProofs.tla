---------------------------- MODULE SeoPathsProofs ----------------------------
(***************************************************************************)
(* Theorems about SeoPaths, for any sets of pages, addresses and visitors. *)
(***************************************************************************)
EXTENDS SeoPaths, FiniteSums

(* PageAt is the one published page at an address.                         *)
LEMMA PageAtUnique ==
  ASSUME TypeOK, NEW g \in Published
  PROVE  PageAt(path[g]) = g
  <1>1. \A h \in Published : path[h] = path[g] => h = g
    BY SeoAssumption DEF TypeOK, Injection, IsInjective
  <1> QED BY <1>1 DEF PageAt

(* An address that redirects was left by a page.                           *)
LeftByPages == \A p \in Paths : redirect[p] # Nothing => owner[p] \in Pages

PagesOwn == \A g \in Pages : owner[path[g]] = g

(* Addresses stay unique: no interleaving of changes of path gives two     *)
(* pages one address.                                                      *)
THEOREM SeoTypeCorrect == Spec => []TypeOK
  <1> DEFINE Inv == TypeOK /\ LeftByPages /\ PagesOwn
  <1>1. Init => Inv
    <2>1. Init => TypeOK
      BY SeoAssumption DEF Init, TypeOK, Injection, IsInjective
    <2>2. Init => LeftByPages /\ PagesOwn
      BY DEF Init, LeftByPages, PagesOwn, Injection, IsInjective
    <2> QED BY <2>1, <2>2
  <1>2. Inv /\ [Next]_vars => Inv'
    <2> SUFFICES ASSUME Inv, [Next]_vars PROVE Inv'
      OBVIOUS
    <2>1. ASSUME NEW g \in Pages, NEW new \in Paths, UpdatePath(g, new) PROVE Inv'
      <3>1. reused' \subseteq Pages
        BY <2>1 DEF UpdatePath, Sharing, TypeOK, LeftByPages
      <3>2. TypeOK'
        BY <2>1, <3>1, SeoAssumption DEF UpdatePath, Destination, TypeOK, Injection, IsInjective
      <3>3. PagesOwn'
        BY <2>1 DEF UpdatePath, PagesOwn, TypeOK, Injection, IsInjective
      <3>4. LeftByPages'
        BY <2>1 DEF UpdatePath, PagesOwn, LeftByPages, TypeOK, Injection
      <3> QED BY <3>2, <3>3, <3>4
    <2>2. ASSUME NEW v \in Visitors, NEW p \in Paths, Resolve(v, p) PROVE Inv'
      BY <2>2 DEF Resolve, TypeOK, LeftByPages, PagesOwn, Injection, IsInjective
    <2>3. ASSUME NEW v \in Visitors, LookUp(v) PROVE Inv'
      BY <2>3 DEF LookUp, TypeOK, LeftByPages, PagesOwn, Injection, IsInjective
    <2>4. CASE UNCHANGED vars
      BY <2>4 DEF vars, TypeOK, LeftByPages, PagesOwn, Injection, IsInjective
    <2> QED BY <2>1, <2>2, <2>3, <2>4 DEF Next
  <1> QED BY <1>1, <1>2, PTL DEF Spec

(* The redirect left behind and the page are never both missing where the  *)
(* second statement of resolve looks.                                      *)
THEOREM AddressesAreFound == Spec => []LookUpFinds
  <1> DEFINE Inv == TypeOK /\ OwnersAreKnown /\ VisitsAreHome
  <1>1. Init => OwnersAreKnown /\ VisitsAreHome
    BY SeoAssumption DEF Init, OwnersAreKnown, VisitsAreHome
  <1>2. Inv /\ [Next]_vars => (OwnersAreKnown /\ VisitsAreHome)'
    <2> SUFFICES ASSUME Inv, [Next]_vars PROVE (OwnersAreKnown /\ VisitsAreHome)'
      OBVIOUS
    <2>1. ASSUME NEW g \in Pages, NEW new \in Paths, UpdatePath(g, new)
          PROVE  (OwnersAreKnown /\ VisitsAreHome)'
      <3> USE <2>1
      <3>1. path[g] \in Paths /\ path[g] # new
        BY DEF TypeOK, Injection, UpdatePath
      <3>2. redirect'[path[g]] # Nothing
        BY <3>1, SeoAssumption DEF TypeOK, UpdatePath, Destination
      <3>3. \A p \in Paths : p # new => owner'[p] = owner[p]
        BY DEF TypeOK, UpdatePath
      <3>4. owner'[new] = g /\ path'[g] = new
        BY DEF TypeOK, UpdatePath, Injection
      <3>5. \A h \in Pages : h # g => path'[h] = path[h]
        BY DEF TypeOK, UpdatePath, Injection
      <3>6. \A p \in Paths : p # path[g] => redirect'[p] = redirect[p]
        BY DEF TypeOK, UpdatePath
      <3>7. OwnersAreKnown'
        BY <3>1, <3>2, <3>3, <3>4, <3>5, <3>6 DEF OwnersAreKnown, TypeOK
      <3>8. VisitsAreHome'
        BY <3>1, <3>3, <3>4, <3>5 DEF VisitsAreHome, TypeOK, UpdatePath
      <3> QED BY <3>7, <3>8
    <2>2. ASSUME NEW v \in Visitors, NEW p \in Paths, Resolve(v, p)
          PROVE  (OwnersAreKnown /\ VisitsAreHome)'
      BY <2>2 DEF Resolve, OwnersAreKnown, VisitsAreHome, TypeOK
    <2>3. ASSUME NEW v \in Visitors, LookUp(v)
          PROVE  (OwnersAreKnown /\ VisitsAreHome)'
      BY <2>3 DEF LookUp, OwnersAreKnown, VisitsAreHome, TypeOK
    <2>4. CASE UNCHANGED vars
      BY <2>4 DEF vars, OwnersAreKnown, VisitsAreHome
    <2> QED BY <2>1, <2>2, <2>3, <2>4 DEF Next
  <1>3. Inv => LookUpFinds
    BY PageAtUnique, SeoAssumption DEF VisitsAreHome, LookUpFinds
  <1> QED BY <1>1, <1>2, <1>3, SeoTypeCorrect, PTL DEF Spec

-----------------------------------------------------------------------------
(* Following redirects. The walk of a visitor is a function defined by     *)
(* recursion; what holds of each of its steps holds of all, or there is a  *)
(* first step where it fails.                                              *)
LEMMA SmallestNumber ==
  ASSUME NEW n \in Nat, NEW F \in SUBSET (0..n), F # {}
  PROVE  \E m \in F : \A k \in F : m <= k
  <1> DEFINE S == 0..n
             Upto == {0..k : k \in F}
  <1>1. IsFiniteSet(S)
    BY FS_Interval
  <1>2. Upto \in SUBSET SUBSET S /\ Upto # {}
    <2>1. ASSUME NEW k \in F PROVE 0..k \in SUBSET S
      BY <2>1
    <2> HIDE DEF S
    <2> QED BY <2>1
  <1> HIDE DEF S, Upto
  <1>3. PICK u \in Upto : \A v \in Upto : v \subseteq u => v = u
    BY <1>1, <1>2, MinimalSubset
  <1>4. PICK m \in F : u = 0..m
    BY DEF Upto
  <1>5. ASSUME NEW k \in F, ~ m <= k PROVE FALSE
    <2>1. 0..k \in Upto
      BY DEF Upto
    <2>2. 0..k \subseteq 0..m /\ m \in 0..m /\ m \notin 0..k
      BY <1>5
    <2> QED BY <1>3, <1>4, <2>1, <2>2
  <1> QED BY <1>5

Follow(p) == IF redirect[p] = Nothing THEN p ELSE redirect[p]

(* g is where a visitor who starts at p is after each of n redirects.      *)
Walks(g, p, n) == g = [k \in 0..n |-> IF k = 0 THEN p ELSE Follow(g[k - 1])]

LEMMA WalkExists ==
  ASSUME NEW p, NEW n \in Nat
  PROVE  \E g : Walks(g, p, n)
  <1> DEFINE F == {m \in 0..n : ~ \E g : Walks(g, p, m)}
  <1> SUFFICES ASSUME n \in F PROVE FALSE
    OBVIOUS
  <1>1. PICK m \in F : \A k \in F : m <= k
    BY SmallestNumber
  <1>2. CASE m = 0
    <2>1. Walks([k \in 0..0 |-> p], p, 0)
      BY DEF Walks
    <2> QED BY <1>2, <2>1
  <1>3. CASE m # 0
    <2>1. m \in Nat /\ m - 1 \in 0..n /\ m - 1 \notin F
      BY <1>1, <1>3
    <2>2. PICK g : Walks(g, p, m - 1)
      BY <2>1
    <2> DEFINE h == [k \in 0..m |-> IF k < m THEN g[k] ELSE Follow(g[m - 1])]
    <2>3. ASSUME NEW k \in 0..m
          PROVE  h[k] = IF k = 0 THEN p ELSE Follow(h[k - 1])
      <3>1. \A j \in 0..(m - 1) : g[j] = IF j = 0 THEN p ELSE Follow(g[j - 1])
        BY <2>2 DEF Walks
      <3>2. CASE k < m
        <4>1. h[k] = g[k] /\ k \in 0..(m - 1) /\ (k # 0 => h[k - 1] = g[k - 1])
          BY <2>1, <3>2
        <4> HIDE DEF h
        <4> QED BY <3>1, <4>1
      <3>3. CASE k = m
        <4>1. h[k] = Follow(g[m - 1]) /\ h[k - 1] = g[m - 1] /\ k # 0
          BY <1>3, <2>1, <3>3
        <4> HIDE DEF h
        <4> QED BY <4>1
      <3> QED BY <2>1, <3>2, <3>3
    <2>4. h = [k \in 0..m |-> h[k]]
      OBVIOUS
    <2> HIDE DEF h
    <2>5. Walks(h, p, m)
      BY <2>3, <2>4 DEF Walks
    <2> QED BY <1>1, <2>5
  <1> QED BY <1>2, <1>3

LEMMA ArrivesByWalk ==
  ASSUME NEW p, NEW n \in Nat
  PROVE  \E g : Walks(g, p, n) /\ Arrives(p, n) = g[n]
  <1>1. Arrives(p, n) = (CHOOSE g : Walks(g, p, n))[n]
    BY DEF Arrives, Walks, Follow
  <1> QED BY <1>1, WalkExists

(* The addresses that redirect, and what orders those of the pages that     *)
(* share none: every redirect goes to an address of the same page, of lower *)
(* rank, and only the address the page has does not redirect.               *)
Left == {p \in Paths : redirect[p] # Nothing}

Own == {p \in Paths : owner[p] \in Pages \ reused}

Ranked(rank) ==
  /\ rank \in [Paths -> Nat]
  /\ \A p \in Paths : rank[p] <= Cardinality(Left)
  /\ \A p \in Left \cap Own : rank[redirect[p]] < rank[p]

Trails ==
  /\ \A g \in Pages : owner[path[g]] = g
  /\ \A p \in Own : /\ redirect[p] = Nothing <=> path[owner[p]] = p
                    /\ p \in Left => owner[redirect[p]] = owner[p]
  /\ \E rank : Ranked(rank)

LEMMA TrailsLead ==
  ASSUME IsFiniteSet(Paths), TypeOK, Trails
  PROVE  OldAddressesLead
  <1> SUFFICES ASSUME NEW p \in Paths, owner[p] \in Pages \ reused
               PROVE  /\ Arrives(p, Cardinality(Paths)) = path[owner[p]]
                      /\ redirect[path[owner[p]]] = Nothing
    BY DEF OldAddressesLead
  <1> DEFINE n == Cardinality(Paths)
  <1>1. n \in Nat /\ Cardinality(Left) \in Nat /\ Cardinality(Left) <= n
    BY FS_CardinalityType, FS_Subset DEF Left
  <1> HIDE DEF n
  <1>2. PICK g : Walks(g, p, n) /\ Arrives(p, n) = g[n]
    BY <1>1, ArrivesByWalk
  <1>3. PICK rank : Ranked(rank)
    BY DEF Trails
  <1> DEFINE OnTrail(k) ==
        /\ g[k] \in Paths /\ owner[g[k]] = owner[p]
        /\ redirect[g[k]] = Nothing \/ rank[g[k]] + k <= rank[p]
  <1>4. \A k \in 0..n : OnTrail(k)
    <2> DEFINE F == {k \in 0..n : ~ OnTrail(k)}
    <2> SUFFICES ASSUME F # {} PROVE FALSE
      OBVIOUS
    <2>1. PICK m \in F : \A k \in F : m <= k
      BY <1>1, SmallestNumber
    <2>2. \A k \in 0..n : g[k] = IF k = 0 THEN p ELSE Follow(g[k - 1])
      BY <1>2 DEF Walks
    <2>3. CASE m = 0
      <3>1. g[0] = p
        BY <1>1, <2>2
      <3>2. rank[p] \in Nat
        BY <1>3 DEF Ranked
      <3> QED BY <2>1, <2>3, <3>1, <3>2
    <2>4. CASE m # 0
      <3> DEFINE l == m - 1
      <3>1. m \in Nat /\ m \in 0..n /\ l \in 0..n /\ l \in Nat /\ m = l + 1 /\ l \notin F
        BY <1>1, <2>1, <2>4
      <3>2. OnTrail(l)
        BY <3>1
      <3>3. g[m] = Follow(g[l])
        BY <2>2, <2>4, <3>1
      <3> HIDE DEF l
      <3>4. CASE redirect[g[l]] = Nothing
        <4>1. g[m] = g[l]
          BY <3>3, <3>4 DEF Follow
        <4> QED BY <2>1, <3>2, <3>4, <4>1
      <3>5. CASE redirect[g[l]] # Nothing
        <4>1. g[m] = redirect[g[l]] /\ g[l] \in Left \cap Own
          BY <3>2, <3>3, <3>5 DEF Follow, Left, Own
        <4>2. g[m] \in Paths /\ owner[g[m]] = owner[p]
          BY <3>2, <3>5, <4>1 DEF Trails, TypeOK, Left
        <4>3. rank[g[m]] < rank[g[l]] /\ rank[g[m]] \in Nat /\ rank[g[l]] \in Nat /\ rank[p] \in Nat
          BY <1>3, <3>2, <4>1, <4>2 DEF Ranked
        <4>4. rank[g[l]] + l <= rank[p]
          BY <3>2, <3>5
        <4>5. rank[g[m]] + m <= rank[p]
          BY <3>1, <4>3, <4>4
        <4> QED BY <2>1, <4>2, <4>5
      <3> QED BY <3>4, <3>5
    <2> QED BY <2>3, <2>4
  <1>5. redirect[g[n]] = Nothing
    <2> SUFFICES ASSUME redirect[g[n]] # Nothing PROVE FALSE
      OBVIOUS
    <2>1. n \in 0..n
      BY <1>1
    <2>2. g[n] \in Left \cap Own /\ rank[g[n]] + n <= rank[p]
      BY <1>4, <2>1 DEF Left, Own
    <2>3. redirect[g[n]] \in Paths
      BY <2>2 DEF TypeOK, Left
    <2>4. /\ rank[redirect[g[n]]] < rank[g[n]] /\ rank[redirect[g[n]]] \in Nat
          /\ rank[g[n]] \in Nat /\ rank[p] \in Nat /\ rank[p] <= Cardinality(Left)
      BY <1>3, <2>2, <2>3 DEF Ranked, Left
    <2> QED BY <1>1, <2>2, <2>4
  <1>6. g[n] \in Paths /\ owner[g[n]] = owner[p]
    BY <1>1, <1>4
  <1>7. path[owner[p]] = g[n]
    BY <1>5, <1>6 DEF Trails, Own
  <1> QED BY <1>2, <1>5, <1>7 DEF n

(* A page without a shared address moves, to one that redirects nowhere:   *)
(* every address it had is one redirect further away from it, and the new  *)
(* one is where they end. A page that shares addresses changes no address  *)
(* of the others.                                                          *)
LEMMA MoveKeepsTrails ==
  ASSUME IsFiniteSet(Paths), TypeOK, TypeOK', Trails,
         NEW g \in Pages, NEW new \in Paths, UpdatePath(g, new)
  PROVE  Trails'
  <1> DEFINE old == path[g]
  <1>1. old # new /\ old \in Paths /\ owner[old] = g
    BY DEF UpdatePath, Trails, TypeOK, Injection
  <1>2. /\ path'[g] = new /\ owner'[new] = g
        /\ redirect'[old] = Destination(g, new) /\ redirect'[old] # Nothing
        /\ \A h \in Pages : h # g => path'[h] = path[h]
        /\ \A p \in Paths : p # old => redirect'[p] = redirect[p]
        /\ \A p \in Paths : p # new => owner'[p] = owner[p]
        /\ reused' = reused \cup Sharing(g, new)
    BY <1>1, SeoAssumption DEF UpdatePath, Destination, TypeOK, Injection
  <1>3. \A p \in Paths : redirect[p] \in Paths \cup {Nothing} /\ owner[p] \in Pages \cup {Nothing}
    BY DEF TypeOK
  <1>4. \A h \in Pages : path[h] \in Paths /\ path[h] # new /\ (h # g => path[h] # old)
    BY DEF TypeOK, Injection, IsInjective, UpdatePath
  <1> HIDE DEF old
  <1>5. Left' = Left \cup {old}
    BY <1>1, <1>2 DEF Left
  <1>6. IsFiniteSet(Left) /\ IsFiniteSet(Left') /\ Cardinality(Left) \in Nat
    BY <1>5, FS_Subset, FS_AddElement, FS_CardinalityType DEF Left
  <1>7. \A h \in Pages : owner'[path'[h]] = h
    BY <1>2, <1>4 DEF Trails
  <1>8. PICK rank : Ranked(rank)
    BY DEF Trails
  <1>9. \A p \in Paths : rank[p] \in Nat /\ rank[p] <= Cardinality(Left)
    BY <1>8 DEF Ranked
  <1>10. CASE g \in reused'
    <2>1. \A p \in Own' : p \in Own /\ p # old /\ p # new /\ owner[p] # g
      BY <1>1, <1>2, <1>3, <1>10 DEF Own
    <2>2. \A p \in Own' : /\ redirect'[p] = redirect[p] /\ owner'[p] = owner[p]
                          /\ path'[owner[p]] = path[owner[p]]
      BY <1>2, <2>1 DEF Own
    <2>3. \A p \in Own' : p \in Left' => p \in Left /\ redirect[p] # new
      <3>1. SUFFICES ASSUME NEW p \in Own', p \in Left', redirect[p] = new
                     PROVE  FALSE
        BY <1>5, <2>1
      <3>2. p \in Left /\ p \in Own /\ owner[new] = owner[p]
        BY <1>5, <2>1, <3>1 DEF Trails
      <3>3. redirect[new] = Nothing
        BY <1>2, <2>1, <3>1, <3>2 DEF Sharing, Own
      <3>4. path[owner[new]] = new /\ owner[new] \in Pages
        BY <3>2, <3>3 DEF Trails, Own
      <3> QED BY <1>4, <3>4
    <2>4. \A p \in Own' : /\ redirect'[p] = Nothing <=> path'[owner'[p]] = p
                          /\ p \in Left' => owner'[redirect'[p]] = owner'[p]
      BY <1>2, <1>3, <2>1, <2>2, <2>3 DEF Trails, Left
    <2>5. Cardinality(Left) <= Cardinality(Left')
      BY <1>5, <1>6, FS_Subset
    <2>6. Ranked(rank)'
      <3>1. Cardinality(Left') \in Nat
        BY <1>6, FS_CardinalityType
      <3>2. \A p \in Paths : rank[p] <= Cardinality(Left')
        BY <1>6, <1>9, <2>5, <3>1
      <3>3. \A p \in Left' \cap Own' : rank[redirect'[p]] < rank[p]
        BY <1>8, <2>1, <2>2, <2>3 DEF Ranked
      <3>4. rank \in [Paths -> Nat]
        BY <1>8 DEF Ranked
      <3> QED BY <3>2, <3>3, <3>4 DEF Ranked
    <2> QED BY <1>7, <2>4, <2>6 DEF Trails
  <1>11. CASE g \notin reused'
    <2>1. redirect[new] = Nothing /\ reused' = reused /\ g \notin reused
      BY <1>2, <1>11 DEF Sharing
    <2>2. old \in Own /\ redirect[old] = Nothing /\ old \notin Left /\ redirect'[old] = new
      BY <1>1, <1>2, <2>1 DEF Own, Trails, old, Left, Destination
    <2>3. new \notin Own
      BY <1>4, <2>1 DEF Own, Trails
    <2>4. Own' = Own \cup {new}
      BY <1>2, <2>1 DEF Own
    <2>5. \A p \in Left \cap Own : /\ p # old /\ p # new /\ redirect[p] # new /\ redirect[p] \in Paths
      <3>1. \A p \in Left \cap Own : redirect[p] \in Own
        BY <1>3 DEF Trails, Own, Left
      <3> QED BY <2>2, <2>3, <3>1 DEF Own
    <2>6. ASSUME NEW p \in Own'
          PROVE  /\ redirect'[p] = Nothing <=> path'[owner'[p]] = p
                 /\ p \in Left' => owner'[redirect'[p]] = owner'[p]
      <3>1. CASE p = new
        BY <1>1, <1>2, <1>5, <2>1, <3>1 DEF Left
      <3>2. CASE p = old
        BY <1>1, <1>2, <2>2, <3>2
      <3>3. CASE p # new /\ p # old
        <4>1. p \in Own /\ p \in Paths /\ owner'[p] = owner[p] /\ redirect'[p] = redirect[p]
          BY <1>2, <2>4, <3>3 DEF Own
        <4>2. redirect'[p] = Nothing <=> path'[owner'[p]] = p
          <5>1. CASE owner[p] = g
            BY <1>2, <3>3, <4>1, <5>1 DEF Trails, old
          <5>2. CASE owner[p] # g
            BY <1>2, <4>1, <5>2 DEF Trails, Own
          <5> QED BY <5>1, <5>2
        <4>3. ASSUME p \in Left' PROVE owner'[redirect'[p]] = owner'[p]
          <5>1. p \in Left \cap Own
            BY <1>5, <3>3, <4>1, <4>3
          <5> QED BY <1>2, <2>5, <4>1, <5>1 DEF Trails
        <4> QED BY <4>2, <4>3
      <3> QED BY <3>1, <3>2, <3>3
    <2> DEFINE further == [p \in Paths |-> IF p = new THEN 0 ELSE rank[p] + 1]
    <2>7. Ranked(further)'
      <3>1. Cardinality(Left') = Cardinality(Left) + 1
        BY <1>5, <1>6, <2>2, FS_AddElement
      <3>2. further \in [Paths -> Nat] /\ \A p \in Paths : further[p] <= Cardinality(Left')
        BY <1>6, <1>9, <3>1
      <3>3. ASSUME NEW p \in Left' \cap Own'
            PROVE  further[redirect'[p]] < further[p]
        <4>1. CASE p = old
          BY <1>1, <1>9, <2>2, <4>1
        <4>2. CASE p # old
          <5>1. p \in Left \cap Own /\ p \in Paths
            BY <1>2, <1>5, <2>1, <2>4, <4>2 DEF Left
          <5>2. redirect'[p] = redirect[p] /\ rank[redirect[p]] < rank[p]
            BY <1>2, <1>8, <4>2, <5>1 DEF Ranked
          <5>3. redirect[p] \in Paths /\ redirect[p] # new /\ p # new
            BY <2>5, <5>1
          <5> QED BY <1>9, <5>1, <5>2, <5>3
        <4> QED BY <4>1, <4>2
      <3> HIDE DEF further
      <3> QED BY <3>2, <3>3 DEF Ranked
    <2>8. \E r : Ranked(r)'
      BY <2>7
    <2> QED BY <1>7, <2>6, <2>8 DEF Trails
  <1> QED BY <1>10, <1>11

(* OldAddressesLead: every address a page has had leads to the page and    *)
(* stops there, for any finite set of addresses, however many moves and    *)
(* pages there are and however other pages share theirs.                   *)
THEOREM OldAddressesKeepLeading ==
  ASSUME IsFiniteSet(Paths)
  PROVE  Spec => []OldAddressesLead
  <1>1. Init => Trails
    <2> SUFFICES ASSUME Init PROVE Trails
      OBVIOUS
    <2>1. Left = {}
      BY DEF Init, Left
    <2>2. \A g \in Pages : owner[path[g]] = g
      BY DEF Init, Injection, IsInjective
    <2>3. \A p \in Paths : owner[p] # Nothing => redirect[p] = Nothing /\ path[owner[p]] = p
      BY SeoAssumption DEF Init
    <2>4. Ranked([p \in Paths |-> 0])
      BY <2>1, FS_EmptySet DEF Ranked
    <2> QED BY <2>1, <2>2, <2>3, <2>4, SeoAssumption DEF Trails, Own
  <1>2. TypeOK /\ TypeOK' /\ Trails /\ [Next]_vars => Trails'
    <2> SUFFICES ASSUME TypeOK, TypeOK', Trails, [Next]_vars PROVE Trails'
      OBVIOUS
    <2>1. ASSUME NEW g \in Pages, NEW new \in Paths, UpdatePath(g, new) PROVE Trails'
      BY <2>1, MoveKeepsTrails
    <2>2. ASSUME UNCHANGED <<path, redirect, owner, reused>> PROVE Trails'
      BY <2>2 DEF Trails, Ranked, Left, Own
    <2> QED BY <2>1, <2>2 DEF Next, Resolve, LookUp, vars
  <1> QED BY <1>1, <1>2, TrailsLead, SeoTypeCorrect, PTL DEF Spec
=============================================================================
