--------------------------- MODULE PageCountsProofs ---------------------------
(***************************************************************************)
(* Theorems about PageCounts, for any number of containers, reactions,      *)
(* posts and answers.  Basics types the state and says that what is listed  *)
(* or answered names an interaction of the database.  On it rest three      *)
(* arguments, each an invariant of its own: Totals, that the sums add up;   *)
(* KnownReactionsShown, which is inductive as it stands; and Counting, that *)
(* a count exceeds the database's by one only where nothing the visitor     *)
(* made still waits for its answer.                                         *)
(*                                                                          *)
(* Sums are folds over functions.  What holds of them for every finite      *)
(* domain is proved by taking a smallest subset for which it does not.      *)
(***************************************************************************)
EXTENDS PageCounts, FiniteSetTheorems, WellFoundedInduction, TLAPS

-----------------------------------------------------------------------------
(* The inductive invariants                                                 *)

(* Whatever is listed names the interaction that it is of.                   *)
ListsInv ==
    /\ \A c \in Containers : \A p \in DOMAIN reactions[c] :
           /\ p \in DOMAIN rows /\ reactions[c][p].node = rows[p].node
           /\ reactions[c][p].count > 0
    /\ summary \in [DOMAIN summary -> Nat] /\ IsFiniteSet(DOMAIN summary)

(* What was posted is of a reaction that is listed, and an answer names an   *)
(* interaction of the visitor.                                               *)
Own(row, c, n) == row.page = "here" /\ row.container = c /\ row.node = n /\ row.mine
PostInv(post, database, listed) ==
    /\ post.op = "plusOne" =>
           /\ post.parent \in DOMAIN listed[post.container]
           /\ listed[post.container][post.parent].node = post.node
    /\ post.op = "summaryPlusOne" => post.container = PageContainer
    /\ post.status \in {"created", "existing"} =>
           post.id \in DOMAIN database /\ Own(database[post.id], post.container, post.node)
PostsInv == \A i \in DOMAIN posts : PostInv(posts[i], rows, reactions)

(* The visitor makes a reaction once.  Until the answer comes it is due: the *)
(* server counts it and the page may not; after that the page may count it   *)
(* once more than the server.                                                *)
Made(c, n) == \E i \in DOMAIN rows : Own(rows[i], c, n)
Due(i, c, n) == posts[i].status = "created" /\ posts[i].container = c /\ posts[i].node = n
MadeOnce ==
    \A c \in Containers, n \in Nodes, i, j \in DOMAIN posts : Due(i, c, n) /\ Due(j, c, n) => i = j
Settled(c, n) == Made(c, n) /\ \A i \in DOMAIN posts : ~Due(i, c, n)
InDatabase(c, n) == Cardinality(Counted(Len(rows), Pages, c, n))
Bound(c, n) == InDatabase(c, n) + (IF Settled(c, n) THEN 1 ELSE 0)
CountsInv ==
    \A c \in Containers, n \in Nodes : \A p \in DOMAIN reactions[c] :
        reactions[c][p].node = n => reactions[c][p].count <= Bound(c, n)

-----------------------------------------------------------------------------
(* Sums                                                                     *)

(* Sum adds up the values of a function in the order in which CHOOSE takes   *)
(* them from its domain; iter is what it has added up for each subset.       *)
Some(s) == CHOOSE x \in s : TRUE
IsIter(f, iter) ==
    iter = [s \in SUBSET DOMAIN f |-> IF s = {} THEN 0 ELSE f[Some(s)] + iter[s \ {Some(s)}]]
Iter(f) == CHOOSE iter : IsIter(f, iter)
Part(f, S) == [i \in S |-> f[i]]

(* The fold of Sum is this recursion, whose function CHOOSE picks.           *)
LEMMA SumUnfolds == ASSUME NEW f PROVE Sum(f) = Iter(f)[DOMAIN f]
BY DEF Sum, FoldFunction, FoldFunctionOnSet, MapThenFoldSet, IsIter, Some, Iter

(* What a set of finite sets has a member of, it has a smallest one of.      *)
LEMMA SmallestSet ==
    ASSUME NEW D, IsFiniteSet(D), NEW B \in SUBSET (SUBSET D), B # {}
    PROVE  \E s \in B : \A t \in B : ~(t \subseteq s /\ t # s)
<1> DEFINE R == StrictSubsetOrdering(D)
<1>1. IsWellFoundedOn(R, FiniteSubsetsOf(D))
  BY FS_StrictSubsetOrderingWellFounded
<1>2. B \subseteq FiniteSubsetsOf(D)
  <2>1. \A s \in B : s \in SUBSET D
    OBVIOUS
  <2>2. \A s \in SUBSET D : IsFiniteSet(s)
    BY FS_Subset
  <2>3. QED
    BY <2>1, <2>2 DEF FiniteSubsetsOf
<1>3. PICK s \in B : \A t \in B : ~(<<t, s>> \in R)
  <2> HIDE DEF R
  <2>1. QED
    BY <1>1, <1>2, WFMin
<1>4. \A t \in B : ~(t \subseteq s /\ t # s)
  <2>1. \A t \in B : t \subseteq s /\ t # s => <<t, s>> \in R
    BY DEF StrictSubsetOrdering
  <2>2. QED
    BY <1>3, <2>1
<1>5. QED
  BY <1>4

(* CHOOSE takes a member of a set that has one.                              *)
LEMMA SomeIn == ASSUME NEW s, s # {} PROVE Some(s) \in s
BY DEF Some

(* Two functions that agree on a set have the same sum over it.              *)
LEMMA ItersAgree ==
    ASSUME NEW D, IsFiniteSet(D), NEW f, NEW g, D \subseteq DOMAIN f, D \subseteq DOMAIN g,
           \A i \in D : f[i] = g[i], NEW a, IsIter(f, a), NEW b, IsIter(g, b)
    PROVE  \A s \in SUBSET D : a[s] = b[s]
<1> DEFINE B == {s \in SUBSET D : a[s] # b[s]}
<1> SUFFICES ASSUME B # {} PROVE FALSE
  OBVIOUS
<1>1. PICK s \in B : \A t \in B : ~(t \subseteq s /\ t # s)
  <2>1. B \in SUBSET (SUBSET D)
    OBVIOUS
  <2> HIDE DEF B
  <2>2. QED
    BY <2>1, SmallestSet
<1>2. \A t \in SUBSET D :
          /\ a[t] = IF t = {} THEN 0 ELSE f[Some(t)] + a[t \ {Some(t)}]
          /\ b[t] = IF t = {} THEN 0 ELSE g[Some(t)] + b[t \ {Some(t)}]
  BY DEF IsIter
<1>3. s # {} /\ s \in SUBSET D /\ a[s] # b[s]
  BY <1>2
<1> DEFINE t == s \ {Some(s)}
<1>4. Some(s) \in s /\ t \in SUBSET D /\ t \subseteq s /\ t # s
  BY <1>3, SomeIn
<1>5. a[t] = b[t]
  BY <1>1, <1>4
<1>6. QED
  BY <1>2, <1>3, <1>4, <1>5

(* The recursion has a solution, and it is typed.                            *)
LEMMA IterExists ==
    ASSUME NEW D, IsFiniteSet(D), NEW f \in [D -> Nat]
    PROVE  \E a \in [SUBSET D -> Nat] : IsIter(f, a)
<1> DEFINE Solved(S, a) == a \in [SUBSET S -> Nat] /\ IsIter(Part(f, S), a)
           B == {S \in SUBSET D : ~\E a : Solved(S, a)}
<1>1. B = {}
  <2> SUFFICES ASSUME B # {} PROVE FALSE
    OBVIOUS
  <2>1. PICK S \in B : \A T \in B : ~(T \subseteq S /\ T # S)
    <3>1. B \in SUBSET (SUBSET D)
      OBVIOUS
    <3> HIDE DEF B
    <3>2. QED
      BY <3>1, SmallestSet
  <2> DEFINE G(T) == CHOOSE a : Solved(T, a)
             less(s) == s \ {Some(s)}
             val(s) == IF s = {} THEN 0 ELSE f[Some(s)] + G(less(s))[less(s)]
             a == [s \in SUBSET S |-> val(s)]
  <2>2. S \in SUBSET D /\ ~\E b : Solved(S, b)
    OBVIOUS
  <2>3. \A T \in SUBSET S : T # S => Solved(T, G(T))
    <3>1. \A T \in SUBSET S : T # S => \E b : Solved(T, b)
      BY <2>1, <2>2
    <3> HIDE DEF Solved
    <3>2. QED
      BY <3>1
  <2>4. \A s \in SUBSET S : s # {} => Some(s) \in s /\ less(s) \in SUBSET S /\ less(s) # S
    BY SomeIn
  <2> HIDE DEF G
  <2>5. \A T \in SUBSET S : T # S => G(T)[T] = val(T)
    <3> SUFFICES ASSUME NEW T \in SUBSET S, T # S PROVE G(T)[T] = val(T)
      OBVIOUS
    <3>1. CASE T = {}
      <4>1. IsIter(Part(f, T), G(T))
        BY <2>3
      <4>2. DOMAIN Part(f, T) = T
        BY DEF Part
      <4>3. QED
        BY <3>1, <4>1, <4>2 DEF IsIter
    <3>2. CASE T # {}
      <4> DEFINE L == less(T)
      <4>1. Some(T) \in T /\ L \in SUBSET S /\ L # S /\ L \subseteq T /\ T \in SUBSET D
        BY <2>2, <2>4, <3>2
      <4>2. IsIter(Part(f, T), G(T)) /\ IsIter(Part(f, L), G(L))
        BY <2>3, <4>1
      <4>3. /\ DOMAIN Part(f, T) = T /\ DOMAIN Part(f, L) = L
            /\ \A i \in T : Part(f, T)[i] = f[i]
            /\ \A i \in L : Part(f, T)[i] = Part(f, L)[i]
        BY <4>1 DEF Part
      <4>4. IsFiniteSet(L)
        BY <2>2, <4>1, FS_Subset
      <4> HIDE DEF less, L
      <4>5. G(T)[L] = G(L)[L]
        <5>1. L \subseteq DOMAIN Part(f, T) /\ L \subseteq DOMAIN Part(f, L)
          BY <4>1, <4>3
        <5>2. \A s \in SUBSET L : G(T)[s] = G(L)[s]
          BY <4>2, <4>3, <4>4, <5>1, ItersAgree
        <5>3. QED
          BY <5>2
      <4>6. G(T)[T] = f[Some(T)] + G(T)[L]
        BY <3>2, <4>1, <4>2, <4>3, ZenonT(60) DEF IsIter, less, L
      <4>7. QED
        BY <3>2, <4>5, <4>6 DEF L
    <3>3. QED
      BY <3>1, <3>2
  <2>6. \A s \in SUBSET S : val(s) \in Nat
    <3> SUFFICES ASSUME NEW s \in SUBSET S, s # {} PROVE f[Some(s)] + G(less(s))[less(s)] \in Nat
      OBVIOUS
    <3>1. Some(s) \in D /\ less(s) \in SUBSET S /\ less(s) # S
      BY <2>2, <2>4
    <3>2. G(less(s)) \in [SUBSET less(s) -> Nat]
      BY <2>3, <3>1
    <3>3. G(less(s))[less(s)] \in Nat /\ f[Some(s)] \in Nat
      BY <3>1, <3>2
    <3>4. QED
      BY <3>3
  <2>7. a \in [SUBSET S -> Nat]
    BY <2>6
  <2>8. IsIter(Part(f, S), a)
    <3>1. \A s \in SUBSET S : s # {} => a[less(s)] = G(less(s))[less(s)]
      BY <2>4, <2>5
    <3>2. DOMAIN Part(f, S) = S /\ \A i \in S : Part(f, S)[i] = f[i]
      BY DEF Part
    <3>3. \A s \in SUBSET S :
              val(s) = IF s = {} THEN 0 ELSE Part(f, S)[Some(s)] + a[less(s)]
      BY <2>4, <3>1, <3>2
    <3>4. QED
      BY <3>2, <3>3 DEF IsIter
  <2>9. QED
    BY <2>2, <2>7, <2>8
<1>2. PICK a : Solved(D, a)
  BY <1>1
<1>3. Part(f, D) = f
  BY DEF Part
<1>4. QED
  BY <1>2, <1>3

(* So the function that CHOOSE picks solves the recursion, and sums are      *)
(* naturals.                                                                 *)
LEMMA IterTyped ==
    ASSUME NEW D, IsFiniteSet(D), NEW f \in [D -> Nat]
    PROVE  /\ IsIter(f, Iter(f)) /\ Sum(f) \in Nat
           /\ \A s \in SUBSET D : Iter(f)[s] \in Nat
<1>1. PICK a \in [SUBSET D -> Nat] : IsIter(f, a)
  BY IterExists
<1>2. IsIter(f, Iter(f))
  BY <1>1 DEF Iter
<1>3. \A s \in SUBSET D : Iter(f)[s] = a[s]
  BY <1>1, <1>2, ItersAgree
<1>4. \A s \in SUBSET D : Iter(f)[s] \in Nat
  BY <1>1, <1>3
<1>5. QED
  BY <1>2, <1>4, SumUnfolds

(* Whatever is taken first, the sum is the same.                             *)
LEMMA AnyFirst ==
    ASSUME NEW D, IsFiniteSet(D), NEW f \in [D -> Nat]
    PROVE  \A s \in SUBSET D : \A x \in s : Iter(f)[s] = f[x] + Iter(f)[s \ {x}]
<1> DEFINE B == {s \in SUBSET D : \E x \in s : Iter(f)[s] # f[x] + Iter(f)[s \ {x}]}
<1> SUFFICES ASSUME B # {} PROVE FALSE
  OBVIOUS
<1>1. PICK s \in B : \A t \in B : ~(t \subseteq s /\ t # s)
  <2>1. B \in SUBSET (SUBSET D)
    OBVIOUS
  <2> HIDE DEF B
  <2>2. QED
    BY <2>1, SmallestSet
<1>2. PICK x \in s : Iter(f)[s] # f[x] + Iter(f)[s \ {x}]
  OBVIOUS
<1> DEFINE y == Some(s)
           t == s \ {y}
           r == s \ {x}
           q == s \ {x, y}
<1>3. s \in SUBSET D /\ x \in D /\ y \in s /\ y \in D
  BY <1>2, SomeIn
<1>4. \A u \in SUBSET D : Iter(f)[u] \in Nat
  BY IterTyped
<1>5. Iter(f)[s] = f[y] + Iter(f)[t]
  <2>1. IsIter(f, Iter(f)) /\ DOMAIN f = D
    BY IterTyped
  <2> HIDE DEF Iter
  <2>2. QED
    BY <1>2, <1>3, <2>1 DEF IsIter
<1>6. \A u \in SUBSET s : u # s => \A z \in u : Iter(f)[u] = f[z] + Iter(f)[u \ {z}]
  BY <1>1, <1>3
<1> HIDE DEF y, B
<1>7. CASE x = y
  BY <1>2, <1>5, <1>7
<1>8. CASE x # y
  <2>1. /\ t \in SUBSET s /\ x \in t /\ t # s /\ t \ {x} = q
        /\ r \in SUBSET s /\ y \in r /\ r # s /\ r \ {y} = q
    BY <1>3, <1>8
  <2> HIDE DEF t, r, q
  <2>2. Iter(f)[t] = f[x] + Iter(f)[q] /\ Iter(f)[r] = f[y] + Iter(f)[q]
    BY <1>6, <2>1
  <2>3. f[x] \in Nat /\ f[y] \in Nat /\ Iter(f)[q] \in Nat
    <3>1. q \in SUBSET D
      BY <1>3 DEF q
    <3>2. QED
      BY <1>3, <1>4, <3>1
  <2>4. Iter(f)[s] # f[x] + Iter(f)[r]
    BY <1>2 DEF r
  <2> HIDE DEF Iter
  <2>5. QED
    BY <1>5, <2>2, <2>3, <2>4
<1>9. QED
  BY <1>7, <1>8

(* The sum over a domain is one value and the sum over the rest of it.       *)
LEMMA SumSplits ==
    ASSUME NEW D, IsFiniteSet(D), NEW f \in [D -> Nat], NEW x \in D,
           NEW g \in [D \ {x} -> Nat], \A i \in D \ {x} : g[i] = f[i]
    PROVE  Sum(f) = f[x] + Sum(g) /\ Sum(g) \in Nat
<1>1. IsFiniteSet(D \ {x})
  BY FS_Subset
<1>2. IsIter(f, Iter(f)) /\ IsIter(g, Iter(g)) /\ Sum(g) \in Nat
  BY <1>1, IterTyped
<1>3. \A s \in SUBSET (D \ {x}) : Iter(f)[s] = Iter(g)[s]
  BY <1>1, <1>2, ItersAgree
<1>4. Iter(f)[D \ {x}] = Sum(g)
  BY <1>3, SumUnfolds
<1>5. Iter(f)[D] = f[x] + Iter(f)[D \ {x}]
  BY AnyFirst
<1>6. QED
  BY <1>2, <1>4, <1>5, SumUnfolds

(* Nothing adds up to 0.                                                     *)
LEMMA SumOfNothing == ASSUME NEW f \in [{} -> Nat] PROVE Sum(f) = 0
BY FS_EmptySet, IterTyped, SumUnfolds DEF IsIter

(* One value more, or a new one of 1, makes the sum one more.                *)
LEMMA SumGrows ==
    ASSUME NEW D, IsFiniteSet(D), NEW f \in [D -> Nat], NEW x,
           NEW g \in [D \cup {x} -> Nat], \A i \in D \ {x} : g[i] = f[i],
           g[x] = IF x \in D THEN f[x] + 1 ELSE 1
    PROVE  Sum(g) = Sum(f) + 1
<1> DEFINE E == D \cup {x}
           h == [i \in D \ {x} |-> f[i]]
<1>1. IsFiniteSet(E) /\ E \ {x} = D \ {x} /\ x \in E
  BY FS_AddElement
<1>2. h \in [D \ {x} -> Nat] /\ \A i \in D \ {x} : h[i] = f[i] /\ h[i] = g[i]
  OBVIOUS
<1> HIDE DEF E, h
<1>3. g \in [E -> Nat] /\ h \in [E \ {x} -> Nat] /\ \A i \in E \ {x} : h[i] = g[i]
  BY <1>1, <1>2 DEF E
<1>4. Sum(g) = g[x] + Sum(h) /\ Sum(h) \in Nat
  BY <1>1, <1>3, SumSplits
<1>5. CASE x \in D
  <2>1. Sum(f) = f[x] + Sum(h)
    <3>1. h \in [D \ {x} -> Nat] /\ \A i \in D \ {x} : h[i] = f[i]
      BY <1>2
    <3>2. QED
      BY <1>5, <3>1, SumSplits
  <2>2. f[x] \in Nat
    BY <1>5
  <2> HIDE DEF Sum
  <2>3. QED
    BY <1>4, <1>5, <2>1, <2>2
<1>6. CASE x \notin D
  <2>1. h = f
    BY <1>2, <1>6
  <2>2. QED
    BY <1>4, <1>6, <2>1
<1>7. QED
  BY <1>5, <1>6

-----------------------------------------------------------------------------
(* Sets of interactions                                                     *)

(* A bounded set of naturals that is not empty has a greatest element.       *)
LEMMA GreatestOf ==
    ASSUME NEW N \in Nat, NEW S \in SUBSET (0..N), S # {}
    PROVE  \E k \in S : \A j \in S : j <= k
<1> DEFINE D == 0..N
           B == {n..N : n \in S}
<1>1. IsFiniteSet(D)
  BY FS_Interval
<1>2. B \in SUBSET (SUBSET D) /\ B # {}
  <2>1. \A n \in S : n..N \subseteq D
    OBVIOUS
  <2>2. QED
    BY <2>1
<1>3. PICK s \in B : \A t \in B : ~(t \subseteq s /\ t # s)
  <2> HIDE DEF B, D
  <2>1. QED
    BY <1>1, <1>2, SmallestSet
<1>4. PICK k \in S : s = k..N
  OBVIOUS
<1>5. ASSUME NEW j \in S, k < j PROVE FALSE
  <2>1. j..N \subseteq k..N /\ j..N # k..N
    BY <1>5
  <2>2. QED
    BY <1>3, <1>4, <2>1
<1>6. QED
  BY <1>5

(* Positions and members of the two sequences.                               *)
LEMMA SeqFacts ==
    ASSUME TypeOK
    PROVE  /\ Len(rows) \in 0..MaxRows /\ DOMAIN rows = 1..Len(rows) /\ MaxRows \in Nat
           /\ DOMAIN rows \subseteq Ids /\ \A i \in DOMAIN rows : rows[i] \in Row
           /\ Len(posts) \in 0..MaxPosts /\ DOMAIN posts = 1..Len(posts) /\ MaxPosts \in Nat
           /\ \A i \in DOMAIN posts : posts[i] \in Post
<1>1. rows \in Seq(Row) /\ posts \in Seq(Post) /\ Len(rows) <= MaxRows /\ Len(posts) <= MaxPosts
  BY DEF TypeOK
<1>2. MaxRows \in Nat /\ MaxPosts \in Nat
  BY SizesAssumption
<1>3. Len(rows) \in Nat /\ DOMAIN rows = 1..Len(rows) /\ \A i \in DOMAIN rows : rows[i] \in Row
  BY <1>1
<1>4. Len(posts) \in Nat /\ DOMAIN posts = 1..Len(posts) /\ \A i \in DOMAIN posts : posts[i] \in Post
  BY <1>1
<1>5. QED
  BY <1>1, <1>2, <1>3, <1>4 DEF Ids

(* What is counted in a prefix of the database is no more than in all of it. *)
LEMMA CountedIn ==
    ASSUME TypeOK, NEW k \in 0..Len(rows), NEW pages \in SUBSET Pages, NEW c, NEW n
    PROVE  /\ IsFiniteSet(Counted(k, pages, c, n))
           /\ Cardinality(Counted(k, pages, c, n)) \in 0..InDatabase(c, n)
           /\ InDatabase(c, n) \in 0..Len(rows)
<1> DEFINE A == Counted(k, pages, c, n)
           B == Counted(Len(rows), Pages, c, n)
<1>1. Len(rows) \in Nat
  BY SeqFacts
<1>2. A \in SUBSET B /\ B \in SUBSET (1..Len(rows))
  BY <1>1 DEF Counted
<1> HIDE DEF A, B
<1>3. IsFiniteSet(1..Len(rows)) /\ Cardinality(1..Len(rows)) = Len(rows)
  <2> DEFINE l == Len(rows)
  <2>1. 1 \in Int /\ l \in Int /\ l \in Nat
    BY <1>1
  <2> HIDE DEF l
  <2>2. IsFiniteSet(1..l) /\ Cardinality(1..l) = l
    BY <2>1, FS_Interval
  <2>3. QED
    BY <2>2 DEF l
<1>4. IsFiniteSet(B) /\ Cardinality(B) <= Len(rows)
  BY <1>2, <1>3, FS_Subset
<1>5. IsFiniteSet(A) /\ Cardinality(A) <= Cardinality(B)
  BY <1>2, <1>4, FS_Subset
<1>6. Cardinality(A) \in Nat /\ Cardinality(B) \in Nat
  BY <1>4, <1>5, FS_CardinalityType
<1>7. QED
  BY <1>1, <1>4, <1>5, <1>6 DEF A, B, InDatabase

(* Whoever is counted makes the count positive.                              *)
LEMMA CountedSome ==
    ASSUME TypeOK, NEW k \in 0..Len(rows), NEW pages \in SUBSET Pages, NEW c, NEW n,
           NEW i \in Counted(k, pages, c, n)
    PROVE  Cardinality(Counted(k, pages, c, n)) > 0
<1>1. IsFiniteSet(Counted(k, pages, c, n))
  BY CountedIn
<1>2. Cardinality(Counted(k, pages, c, n)) \in Nat
  BY <1>1, FS_CardinalityType
<1>3. Cardinality(Counted(k, pages, c, n)) # 0
  BY <1>1, FS_EmptySet
<1>4. QED
  BY <1>2, <1>3

(* What an answer may hold of a container: entries that name interactions,   *)
(* with counts that are not more than the database has.                      *)
Fits(c, d) ==
    /\ DOMAIN d \subseteq DOMAIN rows
    /\ \A p \in DOMAIN d :
           /\ d[p] \in Entry /\ d[p].node = rows[p].node
           /\ d[p].count > 0 /\ d[p].count <= InDatabase(c, d[p].node)

(* Every answer of the server fits the database.                             *)
LEMMA DataFits ==
    ASSUME TypeOK, NEW c \in Containers, NEW k \in 0..Len(rows), NEW pages \in SUBSET Pages
    PROVE  Fits(c, ContainerData(k, pages, c)) /\ Fits(c, Nothing)
<1> DEFINE d == ContainerData(k, pages, c)
<1>1. /\ Len(rows) \in Nat /\ DOMAIN rows = 1..Len(rows)
      /\ \A i \in DOMAIN rows : rows[i] \in Row
  BY SeqFacts
<1>2. DOMAIN d = Roots(k, pages, c)
  BY DEF ContainerData
<1>3. DOMAIN d \subseteq 1..k /\ DOMAIN d \subseteq DOMAIN rows
  BY <1>1, <1>2 DEF Roots
<1>4. ASSUME NEW p \in DOMAIN d
      PROVE  /\ d[p] \in Entry /\ d[p].node = rows[p].node
             /\ d[p].count > 0 /\ d[p].count <= InDatabase(c, d[p].node)
  <2> DEFINE n == rows[p].node
             A == Counted(k, pages, c, n)
  <2>1. d[p] = [node |-> n, count |-> Cardinality(A)]
    BY <1>2 DEF ContainerData
  <2>2. p \in A
    BY <1>2, <1>3 DEF Roots, Counted
  <2>3. n \in Nodes
    BY <1>1, <1>3 DEF Row
  <2> HIDE DEF A, n
  <2>4. /\ Cardinality(A) > 0 /\ Cardinality(A) \in 0..InDatabase(c, n)
        /\ InDatabase(c, n) \in 0..Len(rows)
    BY <2>2, CountedSome, CountedIn DEF A
  <2>5. d[p].node = n /\ d[p].count = Cardinality(A)
    BY <2>1
  <2>6. Cardinality(A) \in Nat
    BY <1>1, <2>4
  <2>7. d[p] \in Entry
    BY <2>1, <2>3, <2>6 DEF Entry
  <2>8. d[p].count <= InDatabase(c, d[p].node)
    BY <1>1, <2>4, <2>5
  <2>9. QED
    BY <2>4, <2>5, <2>7, <2>8 DEF n
<1>5. Fits(c, Nothing)
  BY DEF Fits, Nothing
<1>6. QED
  BY <1>3, <1>4, <1>5 DEF Fits

-----------------------------------------------------------------------------
(* What merging an answer does                                              *)

Basics == TypeOK /\ ListsInv /\ PostsInv

(* The counts of a list can be added up.                                     *)
LEMMA CountsTyped ==
    ASSUME NEW r, DOMAIN r \subseteq Ids, \A p \in DOMAIN r : r[p] \in Entry
    PROVE  /\ IsFiniteSet(DOMAIN r) /\ Counts(r) \in [DOMAIN r -> Nat]
           /\ Sum(Counts(r)) \in Nat
<1>1. IsFiniteSet(DOMAIN r)
  <2>1. 1 \in Int /\ MaxRows \in Int
    BY SizesAssumption
  <2>2. IsFiniteSet(Ids)
    BY <2>1, FS_Interval DEF Ids
  <2>3. QED
    BY <2>2, FS_Subset
<1>2. Counts(r) \in [DOMAIN r -> Nat]
  BY DEF Counts, Entry
<1>3. QED
  BY <1>1, <1>2, IterTyped

(* The lists and totals after UpdateContainerData: nothing is lost or made   *)
(* less, and a count that changes is one the server has.                     *)
LEMMA UpdateMerges ==
    ASSUME Basics, NEW data, \A c \in Containers : Fits(c, data[c]), UpdateContainerData(data)
    PROVE  /\ DOMAIN reactions' = Containers
           /\ \A c \in Containers :
                  /\ DOMAIN reactions'[c] = DOMAIN reactions[c] \cup DOMAIN data[c]
                  /\ \A p \in DOMAIN reactions'[c] :
                      /\ p \in DOMAIN rows /\ reactions'[c][p] \in Entry
                      /\ reactions'[c][p].node = rows[p].node /\ reactions'[c][p].count > 0
                      /\ p \in DOMAIN reactions[c] =>
                             reactions'[c][p].count >= reactions[c][p].count
                      /\ p \in DOMAIN data[c] => reactions'[c][p].count >= data[c][p].count
                      /\ \/ p \in DOMAIN reactions[c] /\ reactions'[c][p] = reactions[c][p]
                         \/ reactions'[c][p].count <= InDatabase(c, rows[p].node)
           /\ total' \in [Containers -> Nat]
           /\ \A c \in Containers : total'[c] = Sum(Counts(reactions'[c]))
<1>1. /\ reactions' = [c \in Containers |-> Merge(reactions[c], data[c])]
      /\ total' = [c \in Containers |-> Sum(Counts(reactions'[c]))]
  BY DEF UpdateContainerData
<1>2. ASSUME NEW c \in Containers
      PROVE  /\ DOMAIN reactions'[c] = DOMAIN reactions[c] \cup DOMAIN data[c]
             /\ \A p \in DOMAIN reactions'[c] :
                      /\ p \in DOMAIN rows /\ reactions'[c][p] \in Entry
                      /\ reactions'[c][p].node = rows[p].node /\ reactions'[c][p].count > 0
                      /\ p \in DOMAIN reactions[c] =>
                             reactions'[c][p].count >= reactions[c][p].count
                      /\ p \in DOMAIN data[c] => reactions'[c][p].count >= data[c][p].count
                      /\ \/ p \in DOMAIN reactions[c] /\ reactions'[c][p] = reactions[c][p]
                         \/ reactions'[c][p].count <= InDatabase(c, rows[p].node)
  <2> DEFINE old == reactions[c]
             new == data[c]
             r == Merge(old, new)
  <2>1. reactions'[c] = r
    BY <1>1
  <2>2. /\ DOMAIN r = DOMAIN old \cup DOMAIN new
        /\ \A p \in DOMAIN r :
               r[p] = IF p \notin DOMAIN old THEN new[p]
                      ELSE IF p \notin DOMAIN new THEN old[p]
                      ELSE [old[p] EXCEPT !.count = Larger(@, new[p].count)]
    BY DEF Merge
  <2>3. \A p \in DOMAIN old : /\ p \in DOMAIN rows /\ old[p] \in Entry
                              /\ old[p].node = rows[p].node /\ old[p].count > 0
    BY DEF Basics, TypeOK, ListsInv
  <2>4. \A p \in DOMAIN new : /\ p \in DOMAIN rows /\ new[p] \in Entry
                              /\ new[p].node = rows[p].node /\ new[p].count > 0
                              /\ new[p].count <= InDatabase(c, rows[p].node)
    BY DEF Fits
  <2> HIDE DEF r, old, new
  <2>5. ASSUME NEW p \in DOMAIN r
        PROVE  /\ p \in DOMAIN rows /\ r[p] \in Entry
               /\ r[p].node = rows[p].node /\ r[p].count > 0
               /\ p \in DOMAIN old => r[p].count >= old[p].count
               /\ p \in DOMAIN new => r[p].count >= new[p].count
               /\ \/ p \in DOMAIN old /\ r[p] = old[p]
                  \/ r[p].count <= InDatabase(c, rows[p].node)
    <3>1. CASE p \notin DOMAIN old
      <4>1. p \in DOMAIN new /\ r[p] = new[p]
        BY <2>2, <3>1
      <4>2. new[p].count \in Nat
        BY <2>4, <4>1 DEF Entry
      <4>3. QED
        BY <2>4, <3>1, <4>1, <4>2
    <3>2. CASE p \in DOMAIN old /\ p \notin DOMAIN new
      <4>1. r[p] = old[p] /\ old[p].count \in Nat
        BY <2>2, <2>3, <3>2 DEF Entry
      <4>2. QED
        BY <2>3, <3>2, <4>1
    <3>3. CASE p \in DOMAIN old /\ p \in DOMAIN new
      <4>1. /\ old[p].count \in Nat /\ new[p].count \in Nat
            /\ old[p] \in Entry /\ new[p] \in Entry
        BY <2>3, <2>4, <3>3 DEF Entry
      <4>2. r[p] = [old[p] EXCEPT !.count = Larger(@, new[p].count)]
        BY <2>2, <3>3
      <4>3. CASE old[p].count > new[p].count
        <5>1. r[p] = old[p]
          BY <4>1, <4>2, <4>3 DEF Larger, Entry
        <5>2. QED
          BY <2>3, <3>3, <4>1, <4>3, <5>1
      <4>4. CASE ~(old[p].count > new[p].count)
        <5>1. r[p] = new[p]
          <6>1. r[p] = [old[p] EXCEPT !.count = new[p].count]
            BY <4>2, <4>4 DEF Larger
          <6>2. old[p].node = new[p].node
            BY <2>3, <2>4, <3>3
          <6>3. QED
            BY <4>1, <6>1, <6>2 DEF Entry
        <5>2. QED
          BY <2>4, <3>3, <4>1, <4>4, <5>1
      <4>5. QED
        BY <4>3, <4>4
    <3>4. QED
      BY <3>1, <3>2, <3>3
  <2>6. QED
    BY <2>1, <2>2, <2>5 DEF r, old, new
<1>3. \A c \in Containers : DOMAIN reactions'[c] \subseteq Ids
  <2>1. DOMAIN rows \subseteq Ids
    BY SeqFacts DEF Basics
  <2>2. QED
    BY <1>2, <2>1
<1>4. \A c \in Containers : Sum(Counts(reactions'[c])) \in Nat
  BY <1>2, <1>3, CountsTyped
<1>5. QED
  BY <1>1, <1>2, <1>4

(* What the browser has been told of: the largest count there was.           *)
LEMMA UpdateTells ==
    ASSUME Basics, NEW data, \A c \in Containers : Fits(c, data[c]), UpdateContainerData(data)
    PROVE  /\ known' \in [Containers -> [Nodes -> Nat]]
           /\ \A c \in Containers, n \in Nodes :
                  \/ known'[c][n] = known[c][n]
                  \/ \E p \in DOMAIN data[c] : data[c][p].node = n /\ known'[c][n] = data[c][p].count
<1> DEFINE told(c, n) == {data[c][p].count : p \in {q \in DOMAIN data[c] : data[c][q].node = n}}
           all(c, n) == told(c, n) \cup {known[c][n]}
           max(c, n) == CHOOSE k \in all(c, n) : \A j \in all(c, n) : j <= k
<1>1. known' = [c \in Containers |-> [n \in Nodes |-> max(c, n)]]
  BY DEF UpdateContainerData
<1>2. ASSUME NEW c \in Containers, NEW n \in Nodes
      PROVE  max(c, n) \in all(c, n) /\ max(c, n) \in Nat
  <2>1. known[c][n] \in Nat /\ MaxRows \in Nat
    BY SizesAssumption DEF Basics, TypeOK
  <2>2. \A p \in DOMAIN data[c] : data[c][p].count \in 0..MaxRows
    <3>1. \A m : InDatabase(c, m) \in 0..Len(rows)
      <4>1. Len(rows) \in 0..Len(rows) /\ Pages \in SUBSET Pages
        BY SeqFacts DEF Basics
      <4>2. QED
        BY <4>1, CountedIn DEF Basics
    <3>2. Len(rows) \in 0..MaxRows
      BY SeqFacts DEF Basics
    <3>3. \A p \in DOMAIN data[c] : /\ data[c][p].count \in Nat
                                    /\ data[c][p].count <= InDatabase(c, data[c][p].node)
      BY DEF Fits, Entry
    <3> HIDE DEF InDatabase
    <3>4. QED
      BY <2>1, <3>1, <3>2, <3>3
  <2> DEFINE N == known[c][n] + MaxRows
             S == all(c, n)
  <2>3. N \in Nat /\ S \in SUBSET (0..N) /\ S # {}
    <3>1. \A j \in told(c, n) : j \in 0..MaxRows
      BY <2>2
    <3> HIDE DEF told
    <3>2. \A j \in S : j \in 0..N
      BY <2>1, <3>1
    <3>3. QED
      BY <2>1, <3>2
  <2>4. \E k \in S : \A j \in S : j <= k
    <3> HIDE DEF S, N
    <3>1. QED
      BY <2>3, GreatestOf
  <2>5. max(c, n) \in S
    <3> HIDE DEF told
    <3>1. QED
      BY <2>4
  <2>6. QED
    <3> HIDE DEF max, told, N
    <3>1. max(c, n) \in 0..N
      BY <2>3, <2>5
    <3>2. QED
      BY <2>3, <2>5, <3>1
<1> HIDE DEF max
<1>3. known' \in [Containers -> [Nodes -> Nat]]
  BY <1>1, <1>2
<1>4. \A c \in Containers, n \in Nodes : known'[c][n] \in all(c, n)
  BY <1>1, <1>2
<1>5. QED
  BY <1>3, <1>4

-----------------------------------------------------------------------------
(* Types, what lists and answers name                                       *)

(* Interactions stay, and so do the reactions that are listed.               *)
Extended ==
    /\ \A i \in DOMAIN rows : i \in DOMAIN rows' /\ rows'[i] = rows[i]
    /\ \A c \in Containers : \A p \in DOMAIN reactions[c] :
           p \in DOMAIN reactions'[c] /\ reactions'[c][p].node = reactions[c][p].node

(* A post that fits the lists goes on fitting them.                          *)
LEMMA PostStays ==
    ASSUME NEW post \in Post, PostInv(post, rows, reactions), Extended
    PROVE  PostInv(post, rows', reactions')
<1>1. post.container \in Containers
  BY DEF Post
<1>2. QED
  BY <1>1 DEF PostInv, Own, Extended

(* A post that is replaced, by one that fits the lists.                      *)
LEMMA PostReplaced ==
    ASSUME Basics, Extended, NEW i \in DOMAIN posts, NEW q \in Post,
           PostInv(q, rows', reactions'), posts' = [posts EXCEPT ![i] = q]
    PROVE  posts' \in Seq(Post) /\ Len(posts') <= MaxPosts /\ PostsInv'
<1>1. posts \in Seq(Post) /\ Len(posts) <= MaxPosts
  BY DEF Basics, TypeOK
<1>2. posts' \in Seq(Post) /\ Len(posts') = Len(posts) /\ DOMAIN posts' = DOMAIN posts
  BY <1>1
<1>3. ASSUME NEW j \in DOMAIN posts' PROVE PostInv(posts'[j], rows', reactions')
  <2>1. CASE j = i
    BY <1>1, <2>1
  <2>2. CASE j # i
    <3>1. posts'[j] = posts[j] /\ posts[j] \in Post
      BY <1>1, <1>2, <2>2
    <3>2. PostInv(posts[j], rows, reactions)
      BY <1>2 DEF Basics, PostsInv
    <3>3. QED
      BY <3>1, <3>2, PostStays
  <2>3. QED
    BY <2>1, <2>2
<1>4. QED
  BY <1>1, <1>2, <1>3 DEF PostsInv

(* What the visitor does next.                                               *)
LEMMA PostAdded ==
    ASSUME Basics, Extended, Len(posts) < MaxPosts, NEW q \in Post,
           PostInv(q, rows', reactions'), posts' = Append(posts, q)
    PROVE  posts' \in Seq(Post) /\ Len(posts') <= MaxPosts /\ PostsInv'
<1>1. posts \in Seq(Post) /\ Len(posts) \in Nat /\ MaxPosts \in Nat
  BY SizesAssumption DEF Basics, TypeOK
<1>2. /\ posts' \in Seq(Post) /\ Len(posts') = Len(posts) + 1
      /\ DOMAIN posts' = 1..(Len(posts) + 1) /\ DOMAIN posts = 1..Len(posts)
      /\ posts'[Len(posts) + 1] = q
      /\ \A j \in 1..Len(posts) : posts'[j] = posts[j] /\ posts[j] \in Post
  BY <1>1
<1>3. ASSUME NEW j \in DOMAIN posts' PROVE PostInv(posts'[j], rows', reactions')
  <2>1. CASE j = Len(posts) + 1
    BY <1>2, <2>1
  <2>2. CASE j # Len(posts) + 1
    <3>1. j \in DOMAIN posts /\ posts'[j] = posts[j] /\ posts[j] \in Post
      BY <1>1, <1>2, <2>2
    <3>2. PostInv(posts[j], rows, reactions)
      BY <3>1 DEF Basics, PostsInv
    <3>3. QED
      BY <3>1, <3>2, PostStays
  <2>3. QED
    BY <2>1, <2>2
<1>4. Len(posts') <= MaxPosts
  BY <1>1, <1>2
<1>5. QED
  BY <1>2, <1>3, <1>4 DEF PostsInv

(* Nothing is posted and nothing answered.                                   *)
LEMMA PostsStay ==
    ASSUME Basics, Extended, posts' = posts
    PROVE  posts' \in Seq(Post) /\ Len(posts') <= MaxPosts /\ PostsInv'
<1>1. posts \in Seq(Post) /\ Len(posts) <= MaxPosts /\ \A j \in DOMAIN posts : posts[j] \in Post
  BY DEF Basics, TypeOK
<1>2. QED
  BY <1>1, PostStays DEF Basics, PostsInv

(* The reactions that the server puts in a summary: finitely many.           *)
LEMMA SummaryTyped ==
    ASSUME TypeOK, NEW k \in 0..Len(rows)
    PROVE  /\ DOMAIN SummaryData(k) \subseteq Nodes /\ IsFiniteSet(DOMAIN SummaryData(k))
           /\ SummaryData(k) \in [DOMAIN SummaryData(k) -> Nat]
<1> DEFINE count(n) == Cardinality(OfPage(k, n))
           listed == {n \in Nodes : count(n) > 0}
           Before(m, n) == count(m) > count(n) \/ (count(m) = count(n) /\ m < n)
           top == {n \in listed : Cardinality({m \in listed : Before(m, n)}) < SummarySize}
           made == {rows[i].node : i \in 1..k}
<1>1. SummaryData(k) = [n \in top |-> count(n)]
  BY DEF SummaryData
<1>2. IsFiniteSet(1..k)
  <2>1. 1 \in Int /\ k \in Int
    OBVIOUS
  <2>2. QED
    BY <2>1, FS_Interval
<1>3. \A n : OfPage(k, n) \in SUBSET (1..k) /\ \A i \in OfPage(k, n) : rows[i].node = n
  BY DEF OfPage, Counted
<1>4. \A n : IsFiniteSet(OfPage(k, n)) /\ count(n) \in Nat
  BY <1>2, <1>3, FS_Subset, FS_CardinalityType
<1>5. ASSUME NEW n \in listed PROVE n \in made
  <2>1. OfPage(k, n) # {}
    <3>1. Cardinality(OfPage(k, n)) > 0 /\ Cardinality({}) = 0
      BY FS_EmptySet
    <3> HIDE DEF count, listed, top, made
    <3>2. SUFFICES ASSUME OfPage(k, n) = {} PROVE FALSE
      OBVIOUS
    <3>3. 0 > 0
      BY <3>1, <3>2
    <3>4. QED
      BY <3>3
  <2>2. QED
    BY <1>3, <2>1
<1>6. IsFiniteSet(made)
  <2> DEFINE f == [i \in 1..k |-> rows[i].node]
  <2>1. f \in Surjection(1..k, made)
    BY DEF Surjection
  <2> HIDE DEF f, made
  <2>2. QED
    BY <1>2, <2>1, FS_Surjection
<1>7. top \in SUBSET made /\ top \subseteq Nodes
  BY <1>5
<1>8. IsFiniteSet(top)
  BY <1>6, <1>7, FS_Subset
<1> HIDE DEF count, top
<1>9. QED
  BY <1>1, <1>4, <1>7, <1>8

(* Data of a page: each conjunct of Basics.                                  *)
LEMMA PageDataBasics ==
    ASSUME Basics, NEW k \in 0..Len(rows), PageDataArrives(k) PROVE Basics'
<1> DEFINE data == [c \in Containers |-> ContainerData(k, {"here"}, c)]
<1>1. TypeOK
  BY DEF Basics
<1>2. /\ UpdateContainerData(data) /\ rows' = rows /\ answers \in Nat /\ answers' = answers + 1
      /\ answers < MaxAnswers /\ summary' = SummaryData(k) /\ summaryTotal' = Sum(summary')
      /\ summaryLoaded' = TRUE /\ ApplyTextIndicatorLimit
      /\ posts' = [i \in DOMAIN posts |->
             [posts[i] EXCEPT !.attached = @ /\ posts[i].op # "summaryPlusOne"]]
  BY <1>1 DEF PageDataArrives, TypeOK
<1>3. \A c \in Containers : Fits(c, data[c])
  <2>1. {"here"} \in SUBSET Pages
    BY DEF Pages
  <2>2. \A c \in Containers : Fits(c, ContainerData(k, {"here"}, c))
    BY <1>1, <2>1, DataFits
  <2>3. QED
    BY <2>2
<1> HIDE DEF data
<1>4. /\ DOMAIN reactions' = Containers /\ total' \in [Containers -> Nat]
      /\ \A c \in Containers :
             /\ DOMAIN reactions[c] \subseteq DOMAIN reactions'[c]
             /\ \A p \in DOMAIN reactions'[c] :
                 /\ p \in DOMAIN rows /\ reactions'[c][p] \in Entry
                 /\ reactions'[c][p].node = rows[p].node /\ reactions'[c][p].count > 0
  BY <1>2, <1>3, UpdateMerges
<1>5. known' \in [Containers -> [Nodes -> Nat]]
  BY <1>2, <1>3, UpdateTells
<1>6. /\ DOMAIN summary' \subseteq Nodes /\ IsFiniteSet(DOMAIN summary')
      /\ summary' \in [DOMAIN summary' -> Nat] /\ summaryTotal' \in Nat
  <2>1. /\ DOMAIN summary' \subseteq Nodes /\ IsFiniteSet(DOMAIN summary')
        /\ summary' \in [DOMAIN summary' -> Nat]
    BY <1>1, <1>2, SummaryTyped
  <2>2. QED
    BY <1>2, <2>1, IterTyped
<1>7. suppress' \in [Containers -> BOOLEAN]
  BY <1>1, <1>2 DEF ApplyTextIndicatorLimit, TypeOK
<1>8. Extended
  BY <1>2, <1>4 DEF Extended, Basics, ListsInv
<1>9. posts' \in Seq(Post) /\ Len(posts') <= MaxPosts /\ PostsInv'
  <2>1. posts \in Seq(Post) /\ Len(posts) <= MaxPosts
    BY <1>1 DEF TypeOK
  <2>2. ASSUME NEW j \in DOMAIN posts
        PROVE  posts'[j] \in Post /\ PostInv(posts'[j], rows', reactions')
    <3>1. posts[j] \in Post /\ PostInv(posts[j], rows, reactions)
      BY <2>1 DEF Basics, PostsInv
    <3>2. PostInv(posts[j], rows', reactions')
      BY <1>8, <3>1, PostStays
    <3>3. posts'[j] = [posts[j] EXCEPT !.attached = @ /\ posts[j].op # "summaryPlusOne"]
      BY <1>2
    <3>4. posts'[j] \in Post
      BY <3>1, <3>3 DEF Post
    <3>5. /\ posts'[j].op = posts[j].op /\ posts'[j].container = posts[j].container
          /\ posts'[j].node = posts[j].node /\ posts'[j].parent = posts[j].parent
          /\ posts'[j].status = posts[j].status /\ posts'[j].id = posts[j].id
      BY <3>1, <3>3 DEF Post
    <3>6. QED
      BY <3>2, <3>4, <3>5 DEF PostInv
  <2>3. DOMAIN posts' = 1..Len(posts) /\ DOMAIN posts = 1..Len(posts) /\ Len(posts) \in Nat
    BY <1>2, <2>1
  <2>4. posts' \in Seq(Post) /\ Len(posts') = Len(posts)
    <3>1. posts' \in [1..Len(posts) -> Post]
      BY <1>2, <2>2, <2>3
    <3>2. QED
      BY <2>3, <3>1
  <2>5. QED
    BY <2>1, <2>2, <2>3, <2>4 DEF PostsInv
<1>10. answers' \in 0..MaxAnswers
  BY <1>1, <1>2, SizesAssumption DEF TypeOK
<1>11. \A c \in Containers : DOMAIN reactions'[c] \subseteq Ids
  BY <1>1, <1>4, SeqFacts
<1>12. TypeOK'
  <2>1. rows' \in Seq(Row) /\ Len(rows') <= MaxRows
    BY <1>1, <1>2 DEF TypeOK
  <2>2. summaryLoaded' \in BOOLEAN /\ \A n \in DOMAIN summary' : summary'[n] \in Nat
    BY <1>2, <1>6
  <2>3. QED
    BY <1>4, <1>5, <1>6, <1>7, <1>9, <1>10, <1>11, <2>1, <2>2 DEF TypeOK
<1>13. ListsInv'
  BY <1>2, <1>4, <1>6 DEF ListsInv
<1>14. QED
  BY <1>9, <1>12, <1>13 DEF Basics

(* Data of other pages, of one container.                                    *)
LEMMA CrosspageBasics ==
    ASSUME Basics, NEW c \in CrossContainers, NEW k \in 0..Len(rows), CrosspageDataArrives(c, k)
    PROVE  Basics'
<1> DEFINE data == [d \in Containers |-> IF d = c THEN ContainerData(k, Pages, c) ELSE Nothing]
<1>1. TypeOK
  BY DEF Basics
<1>2. /\ UpdateContainerData(data) /\ answers \in Nat /\ answers' = answers + 1
      /\ answers < MaxAnswers
      /\ UNCHANGED <<rows, posts, suppress, summary, summaryTotal, summaryLoaded>>
  BY <1>1 DEF CrosspageDataArrives, TypeOK
<1>3. \A d \in Containers : Fits(d, data[d])
  <2>1. Pages \in SUBSET Pages
    OBVIOUS
  <2>2. \A d \in Containers : Fits(d, ContainerData(k, Pages, d)) /\ Fits(d, Nothing)
    BY <1>1, <2>1, DataFits
  <2>3. QED
    BY <2>2
<1> HIDE DEF data
<1>4. /\ DOMAIN reactions' = Containers /\ total' \in [Containers -> Nat]
      /\ \A d \in Containers :
             /\ DOMAIN reactions[d] \subseteq DOMAIN reactions'[d]
             /\ \A p \in DOMAIN reactions'[d] :
                 /\ p \in DOMAIN rows /\ reactions'[d][p] \in Entry
                 /\ reactions'[d][p].node = rows[p].node /\ reactions'[d][p].count > 0
  BY <1>2, <1>3, UpdateMerges
<1>5. known' \in [Containers -> [Nodes -> Nat]]
  BY <1>2, <1>3, UpdateTells
<1>6. Extended
  BY <1>2, <1>4 DEF Extended, Basics, ListsInv
<1>7. posts' \in Seq(Post) /\ Len(posts') <= MaxPosts /\ PostsInv'
  BY <1>2, <1>6, PostsStay
<1>8. answers' \in 0..MaxAnswers
  BY <1>1, <1>2, SizesAssumption DEF TypeOK
<1>9. \A d \in Containers : DOMAIN reactions'[d] \subseteq Ids
  BY <1>1, <1>4, SeqFacts
<1>10. TypeOK'
  <2>1. /\ rows' \in Seq(Row) /\ Len(rows') <= MaxRows
        /\ suppress' \in [Containers -> BOOLEAN]
        /\ DOMAIN summary' \subseteq Nodes /\ \A n \in DOMAIN summary' : summary'[n] \in Nat
        /\ summaryTotal' \in Nat /\ summaryLoaded' \in BOOLEAN
    BY <1>1, <1>2 DEF TypeOK
  <2>2. QED
    BY <1>4, <1>5, <1>7, <1>8, <1>9, <2>1 DEF TypeOK
<1>11. ListsInv'
  <2>1. summary' \in [DOMAIN summary' -> Nat] /\ IsFiniteSet(DOMAIN summary')
    BY <1>2 DEF Basics, ListsInv
  <2>2. QED
    BY <1>2, <1>4, <2>1 DEF ListsInv
<1>12. QED
  BY <1>7, <1>10, <1>11 DEF Basics

(* Whatever leaves the counts alone.                                         *)
LEMMA CountsStay ==
    ASSUME Basics, rows' \in Seq(Row), Len(rows') <= MaxRows,
           \A i \in DOMAIN rows : i \in DOMAIN rows' /\ rows'[i] = rows[i],
           posts' \in Seq(Post), Len(posts') <= MaxPosts, PostsInv',
           UNCHANGED <<lists, summaryLoaded, answers, known>>, suppress' \in [Containers -> BOOLEAN]
    PROVE  Basics'
<1>1. /\ reactions' = reactions /\ total' = total /\ summary' = summary
      /\ summaryTotal' = summaryTotal
  BY DEF lists
<1>2. TypeOK'
  BY <1>1 DEF Basics, TypeOK
<1>3. ListsInv'
  BY <1>1 DEF Basics, ListsInv
<1>4. QED
  BY <1>2, <1>3 DEF Basics

(* The visitor's posts.                                                      *)
LEMMA SendBasics ==
    ASSUME Basics, NEW op \in {"new", "plusOne", "summaryPlusOne"},
           NEW c \in Containers, NEW n \in Nodes, NEW p \in 0..MaxRows,
           op = "plusOne" => p \in DOMAIN reactions[c] /\ reactions[c][p].node = n,
           op = "summaryPlusOne" => c = PageContainer, Send(op, c, n, p)
    PROVE  Basics'
<1> DEFINE q == [op |-> op, container |-> c, node |-> n, parent |-> p,
                 status |-> "sent", id |-> 0, attached |-> TRUE]
<1>1. /\ Len(posts) < MaxPosts /\ posts' = Append(posts, q)
      /\ UNCHANGED <<rows, lists, suppress, summaryLoaded, answers, known>>
  BY DEF Send
<1>2. rows' = rows /\ reactions' = reactions
  BY <1>1 DEF lists
<1>3. Extended
  BY <1>2 DEF Extended
<1>4. q \in Post
  <2>1. 0 \in 0..MaxRows
    BY SizesAssumption
  <2>2. QED
    BY <2>1 DEF Post
<1>5. PostInv(q, rows', reactions')
  BY <1>2 DEF PostInv
<1> HIDE DEF q
<1>6. posts' \in Seq(Post) /\ Len(posts') <= MaxPosts /\ PostsInv'
  BY <1>1, <1>3, <1>4, <1>5, PostAdded
<1>7. /\ rows' \in Seq(Row) /\ Len(rows') <= MaxRows
      /\ \A i \in DOMAIN rows : i \in DOMAIN rows' /\ rows'[i] = rows[i]
  BY <1>2 DEF Basics, TypeOK
<1>8. suppress' \in [Containers -> BOOLEAN]
  BY <1>1 DEF Basics, TypeOK
<1>9. QED
  BY <1>1, <1>6, <1>7, <1>8, CountsStay

(* The three kinds of posts: a reaction, a +1 and a +1 in the summary.       *)
LEMMA PostingBasics ==
    ASSUME Basics
    PROVE  /\ \A c \in Containers, n \in Nodes : PostNewReaction(c, n) => Basics'
           /\ \A c \in Containers, p \in Ids : PostPlusOne(c, p) => Basics'
           /\ \A n \in Nodes : PostSummaryPlusOne(n) => Basics'
<1>0. MaxRows \in Nat /\ 0 \in 0..MaxRows /\ Ids \subseteq 0..MaxRows
  BY SizesAssumption DEF Ids
<1>1. ASSUME NEW c \in Containers, NEW n \in Nodes, PostNewReaction(c, n) PROVE Basics'
  <2>1. Send("new", c, n, 0)
    BY <1>1 DEF PostNewReaction
  <2>2. QED
    BY <1>0, <2>1, SendBasics
<1>2. ASSUME NEW c \in Containers, NEW p \in Ids, PostPlusOne(c, p) PROVE Basics'
  <2>1. p \in DOMAIN reactions[c] /\ Send("plusOne", c, reactions[c][p].node, p)
    BY <1>2 DEF PostPlusOne
  <2>2. reactions[c][p].node \in Nodes
    BY <2>1 DEF Basics, TypeOK, Entry
  <2>3. QED
    BY <1>0, <2>1, <2>2, SendBasics
<1>3. ASSUME NEW n \in Nodes, PostSummaryPlusOne(n) PROVE Basics'
  <2> DEFINE linked == {p \in DOMAIN reactions[PageContainer] :
                            reactions[PageContainer][p].node = n}
  <2>1. PageContainer \in Containers
    BY ContainersAssumption
  <2>2. PICK p \in IF linked = {} THEN {0} ELSE linked :
            Send("summaryPlusOne", PageContainer, n, p)
    BY <1>3 DEF PostSummaryPlusOne
  <2>3. linked \subseteq Ids
    BY <2>1 DEF Basics, TypeOK
  <2>4. p \in 0..MaxRows
    BY <1>0, <2>3
  <2>5. QED
    BY <2>1, <2>2, <2>4, SendBasics
<1>4. QED
  BY <1>1, <1>2, <1>3

(* One more interaction.                                                     *)
LEMMA RowAdded ==
    ASSUME TypeOK, Len(rows) < MaxRows, NEW row \in Row, rows' = Append(rows, row)
    PROVE  /\ rows' \in Seq(Row) /\ Len(rows') <= MaxRows /\ Len(rows') = Len(rows) + 1
           /\ DOMAIN rows' = DOMAIN rows \cup {Len(rows) + 1}
           /\ Len(rows) + 1 \notin DOMAIN rows /\ Len(rows) + 1 \in Ids
           /\ rows'[Len(rows) + 1] = row
           /\ \A i \in DOMAIN rows : i \in DOMAIN rows' /\ rows'[i] = rows[i]
<1>1. rows \in Seq(Row) /\ Len(rows) \in Nat /\ MaxRows \in Nat
  BY SizesAssumption DEF TypeOK
<1>2. QED
  BY <1>1 DEF Ids

(* The server makes the interaction, or finds that it exists.                *)
LEMMA CreateBasics ==
    ASSUME Basics, NEW i \in DOMAIN posts, CreateInteraction(i) PROVE Basics'
<1> DEFINE post == posts[i]
           old == {j \in Counted(Len(rows), {"here"}, post.container, post.node) : rows[j].mine}
           row == [page |-> "here", container |-> post.container,
                   node |-> post.node, root |-> post.parent = 0, mine |-> TRUE]
<1>1. /\ TypeOK /\ posts \in Seq(Post) /\ rows \in Seq(Row) /\ Len(rows) <= MaxRows
      /\ post \in Post /\ PostInv(post, rows, reactions) /\ suppress \in [Containers -> BOOLEAN]
  BY DEF Basics, TypeOK, PostsInv
<1>2. UNCHANGED <<lists, suppress, summaryLoaded, answers, known>> /\ reactions' = reactions
  BY DEF CreateInteraction, lists
<1>3. CASE old # {}
  <2>1. PICK j \in old : posts' = [posts EXCEPT ![i].status = "existing", ![i].id = j]
    BY <1>3 DEF CreateInteraction
  <2>2. rows' = rows
    BY <1>3 DEF CreateInteraction
  <2> DEFINE q == [post EXCEPT !.status = "existing", !.id = j]
  <2>3. posts' = [posts EXCEPT ![i] = q]
    BY <2>1
  <2>4. j \in DOMAIN rows /\ Own(rows[j], post.container, post.node) /\ j \in 0..MaxRows
    <3>1. Len(rows) \in Nat /\ DOMAIN rows = 1..Len(rows) /\ MaxRows \in Nat
      BY <1>1, SeqFacts
    <3>2. QED
      BY <1>1, <2>1, <3>1 DEF Counted, Own
  <2>5. q \in Post /\ q.op = post.op /\ q.container = post.container /\ q.node = post.node
        /\ q.parent = post.parent /\ q.id = j
    BY <1>1, <2>4 DEF Post
  <2> HIDE DEF q
  <2>6. PostInv(q, rows', reactions')
    BY <1>1, <1>2, <2>2, <2>4, <2>5 DEF PostInv
  <2>7. Extended
    BY <1>2, <2>2 DEF Extended
  <2>8. posts' \in Seq(Post) /\ Len(posts') <= MaxPosts /\ PostsInv'
    BY <2>3, <2>5, <2>6, <2>7, PostReplaced
  <2>9. QED
    BY <1>1, <1>2, <2>2, <2>8, CountsStay
<1>4. CASE old = {}
  <2>1. /\ Len(rows) < MaxRows /\ rows' = Append(rows, row)
        /\ posts' = [posts EXCEPT ![i].status = "created", ![i].id = Len(rows) + 1]
    BY <1>4 DEF CreateInteraction
  <2> DEFINE q == [post EXCEPT !.status = "created", !.id = Len(rows) + 1]
  <2>2. posts' = [posts EXCEPT ![i] = q]
    BY <2>1
  <2>3. row \in Row
    BY <1>1 DEF Row, Post, Pages
  <2>4. row.page = "here" /\ row.container = post.container /\ row.node = post.node /\ row.mine
    OBVIOUS
  <2> HIDE DEF row
  <2>5. /\ rows' \in Seq(Row) /\ Len(rows') <= MaxRows
        /\ Len(rows) + 1 \in DOMAIN rows' /\ Len(rows) + 1 \in Ids
        /\ rows'[Len(rows) + 1] = row
        /\ \A j \in DOMAIN rows : j \in DOMAIN rows' /\ rows'[j] = rows[j]
    BY <1>1, <2>1, <2>3, RowAdded
  <2>6. Len(rows) + 1 \in 0..MaxRows
    BY <2>5, SizesAssumption DEF Ids
  <2>7. q \in Post /\ q.op = post.op /\ q.container = post.container /\ q.node = post.node
        /\ q.parent = post.parent /\ q.id = Len(rows) + 1
    BY <1>1, <2>6 DEF Post
  <2> HIDE DEF q
  <2>8. PostInv(q, rows', reactions')
    BY <1>1, <1>2, <2>4, <2>5, <2>7 DEF PostInv, Own
  <2>9. Extended
    BY <1>2, <2>5 DEF Extended
  <2>10. posts' \in Seq(Post) /\ Len(posts') <= MaxPosts /\ PostsInv'
    BY <2>2, <2>7, <2>8, <2>9, PostReplaced
  <2>11. QED
    BY <1>1, <1>2, <2>5, <2>10, CountsStay
<1>5. QED
  BY <1>3, <1>4

(* Somebody else reacts.                                                     *)
LEMMA OthersBasics ==
    ASSUME Basics, NEW page \in Pages, NEW c \in Containers, NEW n \in Nodes,
           NEW root \in BOOLEAN, OthersReact(page, c, n, root)
    PROVE  Basics'
<1> DEFINE row == [page |-> page, container |-> c, node |-> n, root |-> root, mine |-> FALSE]
<1>1. /\ Len(rows) < MaxRows /\ rows' = Append(rows, row)
      /\ UNCHANGED <<posts, lists, suppress, summaryLoaded, answers, known>>
  BY DEF OthersReact
<1>2. row \in Row
  BY DEF Row
<1> HIDE DEF row
<1>3. /\ rows' \in Seq(Row) /\ Len(rows') <= MaxRows
      /\ \A j \in DOMAIN rows : j \in DOMAIN rows' /\ rows'[j] = rows[j]
  BY <1>1, <1>2, RowAdded DEF Basics
<1>4. Extended
  BY <1>1, <1>3 DEF Extended, lists
<1>5. posts' \in Seq(Post) /\ Len(posts') <= MaxPosts /\ PostsInv'
  BY <1>1, <1>4, PostsStay
<1>6. suppress' \in [Containers -> BOOLEAN]
  BY <1>1 DEF Basics, TypeOK
<1>7. QED
  BY <1>1, <1>3, <1>5, <1>6, CountsStay

(* A reactions window opens: only the indicators change.                     *)
LEMMA OpenWindowBasics == ASSUME Basics, OpenWindow PROVE Basics'
<1>1. UNCHANGED <<rows, posts, lists, summaryLoaded, answers, known>>
  BY DEF OpenWindow
<1>2. Extended
  BY <1>1 DEF Extended, lists
<1>3. posts' \in Seq(Post) /\ Len(posts') <= MaxPosts /\ PostsInv'
  BY <1>1, <1>2, PostsStay
<1>4. suppress' \in [Containers -> BOOLEAN]
  BY DEF OpenWindow
<1>5. /\ rows' \in Seq(Row) /\ Len(rows') <= MaxRows
      /\ \A i \in DOMAIN rows : i \in DOMAIN rows' /\ rows'[i] = rows[i]
  BY <1>1 DEF Basics, TypeOK
<1>6. QED
  BY <1>1, <1>3, <1>4, <1>5, CountsStay

-----------------------------------------------------------------------------
(* Answers to what the visitor did                                          *)

(* The answer to a post is handled: it is done, whatever it was.             *)
LEMMA AnsweredPosts ==
    ASSUME Basics, Extended, NEW i \in DOMAIN posts,
           posts' = [posts EXCEPT ![i].status = "done"]
    PROVE  posts' \in Seq(Post) /\ Len(posts') <= MaxPosts /\ PostsInv'
<1> DEFINE q == [posts[i] EXCEPT !.status = "done"]
<1>1. posts[i] \in Post /\ PostInv(posts[i], rows, reactions)
  BY DEF Basics, TypeOK, PostsInv
<1>2. posts' = [posts EXCEPT ![i] = q]
  OBVIOUS
<1>3. /\ q \in Post /\ q.op = posts[i].op /\ q.container = posts[i].container
      /\ q.node = posts[i].node /\ q.parent = posts[i].parent /\ q.status = "done"
  BY <1>1 DEF Post
<1> HIDE DEF q
<1>4. PostInv(posts[i], rows', reactions')
  BY <1>1, PostStays
<1>5. PostInv(q, rows', reactions')
  BY <1>3, <1>4 DEF PostInv
<1>6. QED
  BY <1>2, <1>3, <1>5, PostReplaced

(* A +1 makes one count one more.                                            *)
LEMMA PlusOneDoes ==
    ASSUME Basics, NEW i \in DOMAIN posts, PlusOneSuccess(i), posts[i].status = "created"
    PROVE  LET c == posts[i].container
               p == posts[i].parent
           IN /\ c \in Containers /\ p \in DOMAIN reactions[c]
              /\ reactions[c][p].node = posts[i].node
              /\ DOMAIN reactions' = Containers
              /\ \A d \in Containers \ {c} : reactions'[d] = reactions[d]
              /\ DOMAIN reactions'[c] = DOMAIN reactions[c]
              /\ \A q \in DOMAIN reactions[c] \ {p} : reactions'[c][q] = reactions[c][q]
              /\ reactions'[c][p] = [node |-> reactions[c][p].node,
                                     count |-> reactions[c][p].count + 1]
              /\ total' = [total EXCEPT ![c] = @ + 1] /\ summaryTotal' = summaryTotal + 1
<1> DEFINE c == posts[i].container
           p == posts[i].parent
<1>1. /\ posts[i] \in Post /\ PostInv(posts[i], rows, reactions) /\ posts[i].op = "plusOne"
      /\ reactions' = [reactions EXCEPT ![c][p].count = @ + 1]
      /\ total' = [total EXCEPT ![c] = @ + 1] /\ summaryTotal' = summaryTotal + 1
  BY DEF Basics, TypeOK, PostsInv, PlusOneSuccess
<1>2. /\ c \in Containers /\ p \in DOMAIN reactions[c] /\ reactions[c][p].node = posts[i].node
      /\ DOMAIN reactions = Containers
  BY <1>1 DEF PostInv, Post, Basics, TypeOK
<1>3. reactions[c][p] \in Entry
  BY <1>2 DEF Basics, TypeOK
<1> DEFINE e == [reactions[c][p] EXCEPT !.count = @ + 1]
           r == [reactions[c] EXCEPT ![p] = e]
<1>4. reactions' = [reactions EXCEPT ![c] = r]
  BY <1>1
<1>5. e = [node |-> reactions[c][p].node, count |-> reactions[c][p].count + 1]
  BY <1>3 DEF Entry
<1>6. /\ DOMAIN r = DOMAIN reactions[c] /\ r[p] = e
      /\ \A q \in DOMAIN reactions[c] \ {p} : r[q] = reactions[c][q]
  BY <1>2
<1> HIDE DEF e, r, c, p
<1>7. /\ DOMAIN reactions' = Containers /\ reactions'[c] = r
      /\ \A d \in Containers \ {c} : reactions'[d] = reactions[d]
  BY <1>2, <1>4
<1>8. QED
  BY <1>1, <1>2, <1>5, <1>6, <1>7 DEF c, p

(* A +1 is answered.                                                         *)
LEMMA PlusOneBasics ==
    ASSUME Basics, NEW i \in DOMAIN posts, PlusOneSuccess(i) PROVE Basics'
<1>1. /\ posts' = [posts EXCEPT ![i].status = "done"]
      /\ UNCHANGED <<rows, summary, suppress, summaryLoaded, answers, known>>
      /\ posts[i].status \in {"created", "existing"}
  BY DEF PlusOneSuccess
<1>2. /\ rows' \in Seq(Row) /\ Len(rows') <= MaxRows
      /\ \A j \in DOMAIN rows : j \in DOMAIN rows' /\ rows'[j] = rows[j]
      /\ suppress' \in [Containers -> BOOLEAN]
  BY <1>1 DEF Basics, TypeOK
<1>3. CASE posts[i].status = "existing"
  <2>1. UNCHANGED lists
    BY <1>1, <1>3 DEF PlusOneSuccess, lists
  <2>2. Extended
    BY <1>1, <2>1 DEF Extended, lists
  <2>3. posts' \in Seq(Post) /\ Len(posts') <= MaxPosts /\ PostsInv'
    BY <1>1, <2>2, AnsweredPosts
  <2>4. QED
    BY <1>1, <1>2, <2>1, <2>3, CountsStay
<1>4. CASE posts[i].status = "created"
  <2> DEFINE c == posts[i].container
             p == posts[i].parent
  <2>1. /\ c \in Containers /\ p \in DOMAIN reactions[c]
        /\ DOMAIN reactions' = Containers
        /\ \A d \in Containers \ {c} : reactions'[d] = reactions[d]
        /\ DOMAIN reactions'[c] = DOMAIN reactions[c]
        /\ \A q \in DOMAIN reactions[c] \ {p} : reactions'[c][q] = reactions[c][q]
        /\ reactions'[c][p] = [node |-> reactions[c][p].node,
                               count |-> reactions[c][p].count + 1]
        /\ total' = [total EXCEPT ![c] = @ + 1] /\ summaryTotal' = summaryTotal + 1
    BY <1>4, PlusOneDoes
  <2> HIDE DEF c, p
  <2>2. \A d \in Containers : \A q \in DOMAIN reactions[d] :
            /\ q \in Ids /\ q \in DOMAIN rows /\ reactions[d][q] \in Entry
            /\ reactions[d][q].node = rows[q].node /\ reactions[d][q].count > 0
    BY DEF Basics, TypeOK, ListsInv
  <2>3. reactions'[c][p] \in Entry /\ reactions'[c][p].node = reactions[c][p].node
        /\ reactions'[c][p].count > 0
    BY <2>1, <2>2 DEF Entry
  <2>4. \A d \in Containers :
            /\ DOMAIN reactions'[d] = DOMAIN reactions[d]
            /\ \A q \in DOMAIN reactions[d] :
                   /\ reactions'[d][q] \in Entry /\ reactions'[d][q].count > 0
                   /\ reactions'[d][q].node = reactions[d][q].node
    BY <2>1, <2>2, <2>3
  <2>5. Extended
    BY <1>1, <2>4 DEF Extended
  <2>6. posts' \in Seq(Post) /\ Len(posts') <= MaxPosts /\ PostsInv'
    BY <1>1, <2>5, AnsweredPosts
  <2>7. total' \in [Containers -> Nat] /\ summaryTotal' \in Nat
    BY <2>1 DEF Basics, TypeOK
  <2>8. TypeOK'
    BY <1>1, <1>2, <2>1, <2>2, <2>4, <2>6, <2>7 DEF Basics, TypeOK
  <2>9. ListsInv'
    BY <1>1, <2>2, <2>4 DEF Basics, ListsInv
  <2>10. QED
    BY <2>6, <2>8, <2>9 DEF Basics
<1>5. QED
  BY <1>1, <1>3, <1>4

(* A +1 in the summary, whose list may be gone.                              *)
LEMMA SummaryPlusOneBasics ==
    ASSUME Basics, NEW i \in DOMAIN posts, SummaryPlusOneSuccess(i) PROVE Basics'
<1>1. /\ posts' = [posts EXCEPT ![i].status = "done"]
      /\ UNCHANGED <<rows, reactions, suppress, summaryLoaded, answers, known>>
  BY DEF SummaryPlusOneSuccess
<1>2. /\ rows' \in Seq(Row) /\ Len(rows') <= MaxRows
      /\ suppress' \in [Containers -> BOOLEAN]
  BY <1>1 DEF Basics, TypeOK
<1>3. Extended
  BY <1>1 DEF Extended
<1>4. posts' \in Seq(Post) /\ Len(posts') <= MaxPosts /\ PostsInv'
  BY <1>1, <1>3, AnsweredPosts
<1>5. summary \in [DOMAIN summary -> Nat] /\ IsFiniteSet(DOMAIN summary)
      /\ DOMAIN summary \subseteq Nodes
  BY DEF Basics, ListsInv, TypeOK
<1>6. DOMAIN summary' = DOMAIN summary /\ summary' \in [DOMAIN summary -> Nat]
  <2>1. \/ summary' = summary
        \/ summary' = [summary EXCEPT ![posts[i].node] = @ + 1]
    BY DEF SummaryPlusOneSuccess
  <2>2. QED
    BY <1>5, <2>1
<1>7. total' \in [Containers -> Nat] /\ summaryTotal' \in Nat
  BY DEF SummaryPlusOneSuccess, Basics, TypeOK
<1>8. TypeOK'
  BY <1>1, <1>2, <1>4, <1>5, <1>6, <1>7 DEF Basics, TypeOK
<1>9. ListsInv'
  BY <1>1, <1>5, <1>6 DEF Basics, ListsInv
<1>10. QED
  BY <1>4, <1>8, <1>9 DEF Basics

(* A new reaction is registered under the interaction that was made, unless  *)
(* the container lists it already.                                           *)
Registered(c, n, id) ==
    /\ \A p \in DOMAIN reactions[c] : reactions[c][p].node # n
    /\ id \notin DOMAIN reactions[c] /\ DOMAIN reactions' = Containers
    /\ \A d \in Containers \ {c} : reactions'[d] = reactions[d]
    /\ DOMAIN reactions'[c] = DOMAIN reactions[c] \cup {id}
    /\ reactions'[c][id] = [node |-> n, count |-> 1]
    /\ \A p \in DOMAIN reactions[c] : reactions'[c][p] = reactions[c][p]
    /\ total' = [total EXCEPT ![c] = @ + 1]
    /\ summary' \in [DOMAIN summary \cup {n} -> Nat]
    /\ \A m \in DOMAIN summary \ {n} : summary'[m] = summary[m]
    /\ summary'[n] = IF n \in DOMAIN summary THEN summary[n] + 1 ELSE 1
    /\ summaryTotal' = summaryTotal + 1

(* What registering does: nothing if the reaction is listed, else the above. *)
LEMMA RegisterDoes ==
    ASSUME Basics, NEW c \in Containers, NEW n \in Nodes, NEW id \in DOMAIN rows,
           rows[id].node = n, RegisterReaction(c, n, id)
    PROVE  \/ UNCHANGED lists /\ \E p \in DOMAIN reactions[c] : reactions[c][p].node = n
           \/ Registered(c, n, id)
<1>1. CASE n \in NodesOf(reactions[c])
  BY <1>1 DEF RegisterReaction, NodesOf
<1>2. CASE n \notin NodesOf(reactions[c])
  <2>1. /\ reactions' = [reactions EXCEPT ![c] = Merge(@, NewEntry(id, n))]
        /\ total' = [total EXCEPT ![c] = @ + 1]
        /\ summary' = [m \in DOMAIN summary \cup {n} |->
               IF m \notin DOMAIN summary THEN 1
               ELSE IF m = n THEN summary[m] + 1 ELSE summary[m]]
        /\ summaryTotal' = summaryTotal + 1
    BY <1>2 DEF RegisterReaction
  <2>2. DOMAIN reactions = Containers /\ \A m \in DOMAIN summary : summary[m] \in Nat
    BY DEF Basics, TypeOK
  <2>3. \A p \in DOMAIN reactions[c] : reactions[c][p].node # n
    BY <1>2 DEF NodesOf
  <2>4. id \notin DOMAIN reactions[c]
    BY <2>3 DEF Basics, ListsInv
  <2> DEFINE r == Merge(reactions[c], NewEntry(id, n))
  <2>5. /\ DOMAIN r = DOMAIN reactions[c] \cup {id} /\ r[id] = [node |-> n, count |-> 1]
        /\ \A p \in DOMAIN reactions[c] : r[p] = reactions[c][p]
    BY <2>4 DEF Merge, NewEntry
  <2> HIDE DEF r
  <2>6. reactions' = [reactions EXCEPT ![c] = r]
    BY <2>1 DEF r
  <2>7. /\ DOMAIN reactions' = Containers /\ reactions'[c] = r
        /\ \A d \in Containers \ {c} : reactions'[d] = reactions[d]
    BY <2>2, <2>6
  <2>8. /\ summary' \in [DOMAIN summary \cup {n} -> Nat]
        /\ \A m \in DOMAIN summary \ {n} : summary'[m] = summary[m]
        /\ summary'[n] = IF n \in DOMAIN summary THEN summary[n] + 1 ELSE 1
    BY <2>1, <2>2
  <2>9. QED
    BY <2>1, <2>3, <2>4, <2>5, <2>7, <2>8 DEF Registered
<1>3. QED
  BY <1>1, <1>2

(* A new reaction is answered.                                               *)
LEMMA NewReactionBasics ==
    ASSUME Basics, NEW i \in DOMAIN posts, NewReactionSuccess(i) PROVE Basics'
<1> DEFINE c == posts[i].container
           n == posts[i].node
           id == posts[i].id
<1>1. /\ posts' = [posts EXCEPT ![i].status = "done"] /\ RegisterReaction(c, n, id)
      /\ known' = [known EXCEPT ![c][n] = Larger(@, 1)]
      /\ UNCHANGED <<rows, suppress, summaryLoaded, answers>>
      /\ posts[i].status \in {"created", "existing"}
  BY DEF NewReactionSuccess
<1>2. /\ rows' \in Seq(Row) /\ Len(rows') <= MaxRows
      /\ \A j \in DOMAIN rows : j \in DOMAIN rows' /\ rows'[j] = rows[j]
      /\ suppress' \in [Containers -> BOOLEAN]
  BY <1>1 DEF Basics, TypeOK
<1>3. /\ c \in Containers /\ n \in Nodes /\ id \in DOMAIN rows /\ rows[id].node = n
  <2>1. posts[i] \in Post /\ PostInv(posts[i], rows, reactions)
    BY DEF Basics, TypeOK, PostsInv
  <2>2. QED
    BY <1>1, <2>1 DEF Post, PostInv, Own
<1>4. known' \in [Containers -> [Nodes -> Nat]]
  <2>1. known \in [Containers -> [Nodes -> Nat]]
    BY DEF Basics, TypeOK
  <2>2. Larger(known[c][n], 1) \in Nat
    BY <1>3, <2>1 DEF Larger
  <2> DEFINE k == [known[c] EXCEPT ![n] = Larger(known[c][n], 1)]
  <2>3. k \in [Nodes -> Nat]
    BY <1>3, <2>1, <2>2
  <2>4. known' = [known EXCEPT ![c] = k]
    BY <1>1
  <2> HIDE DEF k, c
  <2>5. QED
    BY <1>3, <2>1, <2>3, <2>4
<1> HIDE DEF c, n, id
<1>5. /\ summary \in [DOMAIN summary -> Nat] /\ IsFiniteSet(DOMAIN summary)
      /\ DOMAIN summary \subseteq Nodes /\ DOMAIN reactions = Containers
      /\ total \in [Containers -> Nat] /\ summaryTotal \in Nat
      /\ \A d \in Containers : \A q \in DOMAIN reactions[d] :
            /\ q \in Ids /\ q \in DOMAIN rows /\ reactions[d][q] \in Entry
            /\ reactions[d][q].node = rows[q].node /\ reactions[d][q].count > 0
  BY DEF Basics, ListsInv, TypeOK
<1>6. /\ DOMAIN reactions' = Containers /\ total' \in [Containers -> Nat] /\ summaryTotal' \in Nat
      /\ summary' \in [DOMAIN summary' -> Nat] /\ IsFiniteSet(DOMAIN summary')
      /\ DOMAIN summary' \subseteq Nodes
      /\ \A d \in Containers : \A p \in DOMAIN reactions[d] :
           p \in DOMAIN reactions'[d] /\ reactions'[d][p] = reactions[d][p]
      /\ \A d \in Containers : \A q \in DOMAIN reactions'[d] :
            /\ q \in Ids /\ q \in DOMAIN rows /\ reactions'[d][q] \in Entry
            /\ reactions'[d][q].node = rows[q].node /\ reactions'[d][q].count > 0
  <2>1. CASE UNCHANGED lists
    BY <1>5, <2>1 DEF lists
  <2>2. CASE Registered(c, n, id)
    <3>1. IsFiniteSet(DOMAIN summary \cup {n})
      BY <1>5, FS_AddElement
    <3>2. /\ total' \in [Containers -> Nat] /\ summaryTotal' \in Nat
          /\ DOMAIN summary' = DOMAIN summary \cup {n}
          /\ DOMAIN summary' \subseteq Nodes
      BY <1>3, <1>5, <2>2 DEF Registered
    <3>3. /\ id \in Ids /\ reactions'[c][id] \in Entry
          /\ reactions'[c][id].node = rows[id].node /\ reactions'[c][id].count > 0
      <4>1. id \in Ids
        BY <1>3, SeqFacts DEF Basics
      <4>2. QED
        BY <1>3, <2>2, <4>1 DEF Entry, Registered
    <3>4. QED
      BY <1>3, <1>5, <2>2, <3>1, <3>2, <3>3, SMTT(30) DEF Registered
  <2>3. QED
    BY <1>1, <1>3, <2>1, <2>2, RegisterDoes
<1>7. Extended
  BY <1>1, <1>6 DEF Extended
<1>8. posts' \in Seq(Post) /\ Len(posts') <= MaxPosts /\ PostsInv'
  BY <1>1, <1>7, AnsweredPosts
<1>9. summaryLoaded' \in BOOLEAN /\ answers' \in 0..MaxAnswers
      /\ \A m \in DOMAIN summary' : summary'[m] \in Nat
  BY <1>1, <1>6 DEF Basics, TypeOK
<1>10. TypeOK'
  BY <1>2, <1>4, <1>6, <1>8, <1>9 DEF TypeOK
<1>11. ListsInv'
  BY <1>1, <1>6 DEF ListsInv
<1>12. QED
  BY <1>8, <1>10, <1>11 DEF Basics

(* A post fails.                                                             *)
LEMMA PostFailsBasics ==
    ASSUME Basics, NEW i \in DOMAIN posts, PostFails(i) PROVE Basics'
<1>1. /\ posts' = [posts EXCEPT ![i].status = "done"]
      /\ UNCHANGED <<rows, lists, suppress, summaryLoaded, answers, known>>
  BY DEF PostFails
<1>2. Extended
  BY <1>1 DEF Extended, lists
<1>3. posts' \in Seq(Post) /\ Len(posts') <= MaxPosts /\ PostsInv'
  BY <1>1, <1>2, AnsweredPosts
<1>4. /\ rows' \in Seq(Row) /\ Len(rows') <= MaxRows
      /\ \A j \in DOMAIN rows : j \in DOMAIN rows' /\ rows'[j] = rows[j]
      /\ suppress' \in [Containers -> BOOLEAN]
  BY <1>1 DEF Basics, TypeOK
<1>5. QED
  BY <1>1, <1>3, <1>4, CountsStay

(* The empty page is typed.                                                  *)
LEMMA BasicsInit == ASSUME Init PROVE Basics
<1>1. /\ rows = <<>> /\ posts = <<>> /\ DOMAIN rows = {} /\ DOMAIN posts = {}
      /\ Len(rows) = 0 /\ Len(posts) = 0
  BY DEF Init
<1>2. /\ DOMAIN Nothing = {} /\ IsFiniteSet({}) /\ Nothing \in [{} -> Nat]
      /\ \A c \in Containers : DOMAIN reactions[c] = {}
  BY FS_EmptySet DEF Nothing, Init
<1>3. TypeOK
  <2>1. rows \in Seq(Row) /\ posts \in Seq(Post)
    BY <1>1
  <2>2. known \in [Containers -> [Nodes -> Nat]]
    BY DEF Init
  <2>3. 0 \in Nat /\ 0 <= MaxRows /\ 0 <= MaxPosts /\ 0 \in 0..MaxAnswers
    BY SizesAssumption
  <2>4. /\ total \in [Containers -> Nat] /\ suppress \in [Containers -> BOOLEAN]
        /\ summaryTotal \in Nat /\ summaryLoaded \in BOOLEAN /\ answers \in 0..MaxAnswers
        /\ DOMAIN summary = {} /\ DOMAIN reactions = Containers
    BY <1>2, <2>3 DEF Init
  <2>5. QED
    BY <1>1, <1>2, <2>1, <2>2, <2>3, <2>4 DEF TypeOK
<1>4. QED
  BY <1>1, <1>2, <1>3 DEF Init, Basics, ListsInv, PostsInv

(* Every step keeps the types and what lists and answers name.               *)
LEMMA BasicsStep == ASSUME Basics, [Next]_vars PROVE Basics'
<1>1. CASE Next
  <2>1. CASE \E k \in 0..Len(rows) : PageDataArrives(k)
    BY <2>1, PageDataBasics
  <2>2. CASE \E c \in CrossContainers, k \in 0..Len(rows) : CrosspageDataArrives(c, k)
    BY <2>2, CrosspageBasics
  <2>3. CASE \/ OpenWindow \/ \E c \in Containers, n \in Nodes : PostNewReaction(c, n)
             \/ \E c \in Containers, p \in Ids : PostPlusOne(c, p)
             \/ \E n \in Nodes : PostSummaryPlusOne(n)
    BY <2>3, OpenWindowBasics, PostingBasics
  <2>4. CASE \E i \in DOMAIN posts :
                 \/ CreateInteraction(i) \/ PostFails(i)
                 \/ PlusOneSuccess(i) \/ SummaryPlusOneSuccess(i) \/ NewReactionSuccess(i)
    BY <2>4, CreateBasics, PostFailsBasics, PlusOneBasics, SummaryPlusOneBasics, NewReactionBasics
  <2>5. CASE \E page \in Pages, c \in Containers, n \in Nodes, root \in BOOLEAN :
                 OthersReact(page, c, n, root)
    BY <2>5, OthersBasics
  <2>6. QED
    BY <1>1, <2>1, <2>2, <2>3, <2>4, <2>5 DEF Next
<1>2. CASE UNCHANGED vars
  <2>1. /\ UNCHANGED <<rows, posts, lists, suppress, summaryLoaded, answers, known>>
        /\ rows \in Seq(Row) /\ Len(rows) <= MaxRows /\ suppress \in [Containers -> BOOLEAN]
    BY <1>2 DEF vars, Basics, TypeOK
  <2>2. Extended
    BY <2>1 DEF Extended, lists
  <2>3. posts' \in Seq(Post) /\ Len(posts') <= MaxPosts /\ PostsInv'
    BY <2>1, <2>2, PostsStay
  <2>4. QED
    BY <2>1, <2>3, CountsStay
<1>3. QED
  BY <1>1, <1>2

(* Types, what the lists name and what the answers name: the invariant that  *)
(* every other proof here starts from.                                       *)
THEOREM BasicsHold == Spec => []Basics
<1>1. Init => Basics
  BY BasicsInit
<1>2. Basics /\ [Next]_vars => Basics'
  BY BasicsStep
<1>3. QED
  BY <1>1, <1>2, PTL DEF Spec

(* Type correctness, whatever arrives in whatever order (page-data.js).       *)
THEOREM PageCountsTypeCorrect == Spec => []TypeOK
<1>1. Basics => TypeOK
  BY DEF Basics
<1>2. QED
  BY <1>1, BasicsHold, PTL

-----------------------------------------------------------------------------
(* The totals                                                               *)

Totals == TotalsAddUp /\ SummaryCoversItsList

(* One more in the list of a container is one more in its sum.               *)
LEMMA CountGrows ==
    ASSUME NEW r, DOMAIN r \subseteq Ids, \A q \in DOMAIN r : r[q] \in Entry,
           NEW x \in Ids, NEW s, DOMAIN s = DOMAIN r \cup {x},
           \A q \in DOMAIN s : s[q] \in Entry,
           \A q \in DOMAIN r \ {x} : s[q] = r[q],
           s[x].count = IF x \in DOMAIN r THEN r[x].count + 1 ELSE 1
    PROVE  Sum(Counts(s)) = Sum(Counts(r)) + 1 /\ Sum(Counts(r)) \in Nat
<1> DEFINE D == DOMAIN r
           f == Counts(r)
           g == Counts(s)
<1>1. IsFiniteSet(D) /\ f \in [D -> Nat] /\ Sum(f) \in Nat
  BY CountsTyped
<1>2. g \in [D \cup {x} -> Nat]
  BY DEF Counts, Entry
<1>3. \A q \in D \ {x} : g[q] = f[q]
  BY DEF Counts
<1>4. g[x] = IF x \in D THEN f[x] + 1 ELSE 1
  BY DEF Counts
<1> HIDE DEF D, f, g
<1>5. Sum(g) = Sum(f) + 1
  BY <1>1, <1>2, <1>3, <1>4, SumGrows
<1>6. QED
  BY <1>1, <1>5 DEF f, g

(* Totals and sums are naturals.                                             *)
LEMMA SumsTyped ==
    ASSUME Basics
    PROVE  /\ \A c \in Containers : total[c] \in Nat /\ Sum(Counts(reactions[c])) \in Nat
           /\ summaryTotal \in Nat /\ Sum(summary) \in Nat
<1>1. \A c \in Containers : Sum(Counts(reactions[c])) \in Nat
  <2>1. \A c \in Containers :
            DOMAIN reactions[c] \subseteq Ids /\ \A p \in DOMAIN reactions[c] : reactions[c][p] \in Entry
    BY DEF Basics, TypeOK
  <2>2. QED
    BY <2>1, CountsTyped
<1>2. Sum(summary) \in Nat
  <2>1. summary \in [DOMAIN summary -> Nat] /\ IsFiniteSet(DOMAIN summary)
    BY DEF Basics, ListsInv
  <2>2. QED
    BY <2>1, IterTyped
<1>3. QED
  BY <1>1, <1>2 DEF Basics, TypeOK

(* Where no list and no total changes, they go on adding up.                 *)
LEMMA TotalsStay == ASSUME Totals, UNCHANGED lists PROVE Totals'
<1>1. /\ reactions' = reactions /\ total' = total /\ summary' = summary
      /\ summaryTotal' = summaryTotal
  BY DEF lists
<1>2. QED
  BY <1>1 DEF Totals, TotalsAddUp, SummaryCoversItsList

(* Data that arrives: all totals of containers are added up again, and with  *)
(* the data of the page the total of the summary.                            *)
LEMMA DataTotals ==
    ASSUME Basics, Totals
    PROVE  /\ \A k \in 0..Len(rows) : PageDataArrives(k) => Totals'
           /\ \A c \in CrossContainers, k \in 0..Len(rows) : CrosspageDataArrives(c, k) => Totals'
<1>1. ASSUME NEW k \in 0..Len(rows), PageDataArrives(k) PROVE Totals'
  <2>1. Basics'
    BY <1>1, PageDataBasics
  <2>2. /\ \A c \in Containers : total'[c] \in Nat /\ total'[c] = Sum(Counts(reactions'[c]))
        /\ summaryTotal' = Sum(summary') /\ summaryTotal' \in Nat
    BY <1>1, <2>1 DEF PageDataArrives, UpdateContainerData, Basics, TypeOK
  <2>3. QED
    BY <2>2 DEF Totals, TotalsAddUp, SummaryCoversItsList
<1>2. ASSUME NEW c \in CrossContainers, NEW k \in 0..Len(rows), CrosspageDataArrives(c, k)
      PROVE  Totals'
  <2>1. Basics'
    BY <1>2, CrosspageBasics
  <2>2. /\ \A d \in Containers : total'[d] \in Nat /\ total'[d] = Sum(Counts(reactions'[d]))
        /\ summaryTotal' = summaryTotal /\ summary' = summary
    BY <1>2, <2>1 DEF CrosspageDataArrives, UpdateContainerData, Basics, TypeOK
  <2>3. QED
    BY <2>2 DEF Totals, TotalsAddUp, SummaryCoversItsList
<1>3. QED
  BY <1>1, <1>2

(* One count and the total of its container grow together.                   *)
LEMMA BothGrow ==
    ASSUME Basics, Basics', TotalsAddUp, NEW c \in Containers, NEW x \in Ids,
           \A d \in Containers \ {c} : reactions'[d] = reactions[d],
           DOMAIN reactions'[c] = DOMAIN reactions[c] \cup {x},
           \A q \in DOMAIN reactions[c] \ {x} : reactions'[c][q] = reactions[c][q],
           reactions'[c][x].count = IF x \in DOMAIN reactions[c] THEN reactions[c][x].count + 1 ELSE 1,
           total' = [total EXCEPT ![c] = @ + 1]
    PROVE  TotalsAddUp'
<1>1. /\ \A d \in Containers :
             /\ DOMAIN reactions[d] \subseteq Ids
             /\ \A p \in DOMAIN reactions[d] : reactions[d][p] \in Entry
             /\ \A p \in DOMAIN reactions'[d] : reactions'[d][p] \in Entry
      /\ total \in [Containers -> Nat]
  BY DEF Basics, TypeOK
<1>2. Sum(Counts(reactions'[c])) = Sum(Counts(reactions[c])) + 1 /\ Sum(Counts(reactions[c])) \in Nat
  BY <1>1, CountGrows
<1>3. /\ \A d \in Containers \ {c} : total'[d] = total[d]
      /\ total'[c] = total[c] + 1 /\ total[c] \in Nat
  BY <1>1
<1> DEFINE before(d) == Sum(Counts(reactions[d]))
           after(d) == Sum(Counts(reactions'[d]))
<1>4. \A d \in Containers \ {c} : after(d) = before(d)
  OBVIOUS
<1>5. \A d \in Containers : total[d] >= before(d) /\ (d # PageContainer => total[d] = before(d))
  BY DEF TotalsAddUp
<1>6. after(c) = before(c) + 1 /\ before(c) \in Nat
  BY <1>2
<1> HIDE DEF before, after
<1>7. \A d \in Containers : total'[d] >= after(d) /\ (d # PageContainer => total'[d] = after(d))
  BY <1>3, <1>4, <1>5, <1>6
<1>8. QED
  BY <1>7 DEF TotalsAddUp, after

(* A +1 is one more in the list, in its total and in the total of the        *)
(* summary.                                                                  *)
LEMMA PlusOneTotals ==
    ASSUME Basics, Totals, NEW i \in DOMAIN posts, PlusOneSuccess(i) PROVE Totals'
<1>1. CASE posts[i].status = "existing"
  <2>1. UNCHANGED lists
    BY <1>1 DEF PlusOneSuccess, lists
  <2>2. QED
    BY <2>1, TotalsStay
<1>2. CASE posts[i].status = "created"
  <2> DEFINE c == posts[i].container
             p == posts[i].parent
  <2>1. Basics' /\ summary' = summary /\ TotalsAddUp /\ summaryTotal >= Sum(summary)
    BY PlusOneBasics DEF PlusOneSuccess, Totals, SummaryCoversItsList
  <2>2. /\ c \in Containers /\ p \in DOMAIN reactions[c]
        /\ \A d \in Containers \ {c} : reactions'[d] = reactions[d]
        /\ DOMAIN reactions'[c] = DOMAIN reactions[c]
        /\ \A q \in DOMAIN reactions[c] \ {p} : reactions'[c][q] = reactions[c][q]
        /\ reactions'[c][p] = [node |-> reactions[c][p].node,
                               count |-> reactions[c][p].count + 1]
        /\ total' = [total EXCEPT ![c] = @ + 1] /\ summaryTotal' = summaryTotal + 1
    BY <1>2, PlusOneDoes
  <2> HIDE DEF c, p
  <2>3. p \in Ids /\ DOMAIN reactions'[c] = DOMAIN reactions[c] \cup {p}
        /\ reactions'[c][p].count = IF p \in DOMAIN reactions[c] THEN reactions[c][p].count + 1 ELSE 1
    BY <2>2 DEF Basics, TypeOK
  <2>4. TotalsAddUp'
    BY <2>1, <2>2, <2>3, BothGrow
  <2>5. SummaryCoversItsList'
    <3>1. summaryTotal \in Nat /\ Sum(summary) \in Nat
      BY SumsTyped
    <3>2. summaryTotal' >= Sum(summary')
      BY <2>1, <2>2, <3>1
    <3>3. QED
      BY <3>2 DEF SummaryCoversItsList
  <2>6. QED
    BY <2>4, <2>5 DEF Totals
<1>3. QED
  BY <1>1, <1>2 DEF PlusOneSuccess

(* A +1 in the summary: the page's container gets it in its total and not in *)
(* its list, and the summary in its total and, unless its list was replaced, *)
(* in its list.                                                              *)
LEMMA SummaryPlusOneTotals ==
    ASSUME Basics, Totals, NEW i \in DOMAIN posts, SummaryPlusOneSuccess(i) PROVE Totals'
<1>1. CASE posts[i].status = "existing"
  <2>1. UNCHANGED lists
    BY <1>1 DEF SummaryPlusOneSuccess, lists
  <2>2. QED
    BY <2>1, TotalsStay
<1>2. CASE posts[i].status = "created"
  <2> DEFINE n == posts[i].node
  <2>1. posts[i].container = PageContainer
    BY DEF Basics, PostsInv, PostInv, SummaryPlusOneSuccess
  <2>2. /\ \/ summary' = summary
           \/ summary' = [summary EXCEPT ![n] = @ + 1]
        /\ total' = [total EXCEPT ![PageContainer] = @ + 1]
        /\ summaryTotal' = summaryTotal + 1 /\ reactions' = reactions
    BY <1>2, <2>1 DEF SummaryPlusOneSuccess
  <2>3. /\ \A c \in Containers : total[c] \in Nat /\ Sum(Counts(reactions[c])) \in Nat
        /\ total \in [Containers -> Nat] /\ summaryTotal \in Nat /\ Sum(summary) \in Nat
        /\ summaryTotal >= Sum(summary) /\ TotalsAddUp
    BY SumsTyped DEF Basics, TypeOK, Totals, SummaryCoversItsList
  <2>4. TotalsAddUp'
    <3>1. \A c \in Containers :
              /\ total'[c] >= Sum(Counts(reactions[c]))
              /\ c # PageContainer => total'[c] = Sum(Counts(reactions[c]))
      <4> HIDE DEF Sum, n
      <4>1. \A c \in Containers : total'[c] = IF c = PageContainer THEN total[c] + 1 ELSE total[c]
        BY <2>2, <2>3
      <4>2. QED
        BY <2>3, <4>1 DEF TotalsAddUp
    <3>2. QED
      BY <2>2, <3>1 DEF TotalsAddUp
  <2>5. Sum(summary') = Sum(summary) \/ Sum(summary') = Sum(summary) + 1
    <3>1. CASE summary' = summary
      BY <3>1
    <3>2. CASE summary' = [summary EXCEPT ![n] = @ + 1] /\ n \in DOMAIN summary
      <4> DEFINE D == DOMAIN summary
      <4>1. summary \in [D -> Nat] /\ IsFiniteSet(D)
        BY DEF Basics, ListsInv
      <4> HIDE DEF n
      <4>2. /\ summary' \in [D \cup {n} -> Nat]
            /\ \A m \in D \ {n} : summary'[m] = summary[m]
            /\ summary'[n] = IF n \in D THEN summary[n] + 1 ELSE 1
        BY <3>2, <4>1
      <4> HIDE DEF D
      <4>3. QED
        BY <4>1, <4>2, SumGrows
    <3>3. CASE summary' = [summary EXCEPT ![n] = @ + 1] /\ n \notin DOMAIN summary
      <4>1. summary' = summary
        BY <3>3 DEF Basics, ListsInv
      <4>2. QED
        BY <4>1
    <3>4. QED
      BY <2>2, <3>1, <3>2, <3>3
  <2>6. summaryTotal' >= Sum(summary')
    <3> HIDE DEF n
    <3>1. QED
      BY <2>2, <2>3, <2>5
  <2>7. QED
    BY <2>4, <2>6 DEF Totals, SummaryCoversItsList
<1>3. QED
  BY <1>1, <1>2 DEF SummaryPlusOneSuccess

(* A new reaction is one more in its container's list and total, and in      *)
(* those of the summary.                                                     *)
LEMMA NewReactionTotals ==
    ASSUME Basics, Totals, NEW i \in DOMAIN posts, NewReactionSuccess(i) PROVE Totals'
<1> DEFINE c == posts[i].container
           n == posts[i].node
           id == posts[i].id
<1>1. RegisterReaction(c, n, id) /\ Basics'
  BY NewReactionBasics DEF NewReactionSuccess
<1>2. /\ c \in Containers /\ n \in Nodes /\ id \in DOMAIN rows /\ rows[id].node = n
  <2>1. posts[i] \in Post /\ PostInv(posts[i], rows, reactions)
        /\ posts[i].status \in {"created", "existing"}
    BY DEF Basics, TypeOK, PostsInv, NewReactionSuccess
  <2>2. QED
    BY <2>1 DEF Post, PostInv, Own
<1> HIDE DEF c, n, id
<1>3. CASE UNCHANGED lists
  BY <1>3, TotalsStay
<1>4. CASE Registered(c, n, id)
  <2>1. /\ \A q \in DOMAIN reactions[c] \ {id} : reactions'[c][q] = reactions[c][q]
        /\ reactions'[c][id].count = IF id \in DOMAIN reactions[c]
                                     THEN reactions[c][id].count + 1 ELSE 1
    BY <1>4 DEF Registered
  <2>2. id \in Ids
    BY <1>2, SeqFacts DEF Basics
  <2>3. TotalsAddUp /\ summaryTotal >= Sum(summary) /\ summaryTotal \in Nat /\ Sum(summary) \in Nat
        /\ summary \in [DOMAIN summary -> Nat] /\ IsFiniteSet(DOMAIN summary)
    BY SumsTyped DEF Totals, SummaryCoversItsList, Basics, ListsInv
  <2>4. TotalsAddUp'
    BY <1>1, <1>2, <1>4, <2>1, <2>2, <2>3, BothGrow DEF Registered
  <2>5. Sum(summary') = Sum(summary) + 1
    BY <1>4, <2>3, SumGrows DEF Registered
  <2>6. summaryTotal' >= Sum(summary')
    BY <1>4, <2>3, <2>5 DEF Registered
  <2>7. QED
    BY <2>4, <2>6 DEF Totals, SummaryCoversItsList
<1>5. QED
  BY <1>1, <1>2, <1>3, <1>4, RegisterDoes

(* Every step keeps the totals.                                              *)
LEMMA TotalsStep == ASSUME Basics, Totals, [Next]_vars PROVE Totals'
<1>1. CASE \/ \E k \in 0..Len(rows) : PageDataArrives(k)
           \/ \E c \in CrossContainers, k \in 0..Len(rows) : CrosspageDataArrives(c, k)
  BY <1>1, DataTotals
<1>2. CASE \E i \in DOMAIN posts :
               PlusOneSuccess(i) \/ SummaryPlusOneSuccess(i) \/ NewReactionSuccess(i)
  BY <1>2, PlusOneTotals, SummaryPlusOneTotals, NewReactionTotals
<1>3. CASE UNCHANGED lists
  BY <1>3, TotalsStay
<1>4. CASE UNCHANGED vars
  BY <1>3, <1>4 DEF vars
<1>5. \/ OpenWindow \/ (\E c \in Containers, n \in Nodes : PostNewReaction(c, n))
      \/ (\E c \in Containers, p \in Ids : PostPlusOne(c, p))
      \/ (\E n \in Nodes : PostSummaryPlusOne(n))
      \/ (\E i \in DOMAIN posts : CreateInteraction(i) \/ PostFails(i))
      \/ (\E page \in Pages, c \in Containers, n \in Nodes, root \in BOOLEAN :
              OthersReact(page, c, n, root))
      => UNCHANGED lists
  BY DEF OpenWindow, PostNewReaction, PostPlusOne, PostSummaryPlusOne, Send, CreateInteraction,
         PostFails, OthersReact
<1>6. QED
  BY <1>1, <1>2, <1>3, <1>4, <1>5 DEF Next

(* The totals add up: the two invariants about them together.                *)
THEOREM TotalsHold == Spec => []Totals
<1>1. Init => Totals
  <2> SUFFICES ASSUME Init PROVE Totals
    OBVIOUS
  <2>1. Nothing \in [{} -> Nat] /\ Counts(Nothing) \in [{} -> Nat]
    BY DEF Nothing, Counts
  <2>2. Sum(Nothing) = 0 /\ Sum(Counts(Nothing)) = 0
    BY <2>1, SumOfNothing
  <2>3. QED
    BY <2>2 DEF Init, Totals, TotalsAddUp, SummaryCoversItsList
<1>2. Basics /\ Totals /\ [Next]_vars => Totals'
  BY TotalsStep
<1>3. QED
  BY <1>1, <1>2, BasicsHold, PTL DEF Spec

(* The number on an indicator is the sum of what its window lists, and only  *)
(* that of the page's container may be ahead (page-data.js:149-161, 273).     *)
THEOREM IndicatorsAddUp == Spec => []TotalsAddUp
<1>1. Totals => TotalsAddUp
  BY DEF Totals
<1>2. QED
  BY <1>1, TotalsHold, PTL

(* The summary's total is at least what its list adds up to, also when the   *)
(* list was replaced under a +1 (page-data.js:60-65, 274-292).               *)
THEOREM SummaryIsCovered == Spec => []SummaryCoversItsList
<1>1. Totals => SummaryCoversItsList
  BY DEF Totals
<1>2. QED
  BY <1>1, TotalsHold, PTL

-----------------------------------------------------------------------------
(* What the browser was told of                                             *)

(* Counts that are listed stay, and become no less.                          *)
NoneLess ==
    \A c \in Containers : \A p \in DOMAIN reactions[c] :
        /\ p \in DOMAIN reactions'[c] /\ reactions'[c][p].node = reactions[c][p].node
        /\ reactions'[c][p].count \in Nat /\ reactions[c][p].count \in Nat
        /\ reactions'[c][p].count >= reactions[c][p].count

(* What was told of and is listed is still listed when no count becomes      *)
(* less.                                                                     *)
LEMMA ShownStays ==
    ASSUME Basics, KnownReactionsShown, NoneLess, NEW c \in Containers, NEW n \in Nodes,
           known[c][n] > 0
    PROVE  \E p \in DOMAIN reactions'[c] :
               reactions'[c][p].node = n /\ reactions'[c][p].count >= known[c][n]
<1>1. PICK p \in DOMAIN reactions[c] :
          reactions[c][p].node = n /\ reactions[c][p].count >= known[c][n]
  BY DEF KnownReactionsShown
<1>2. known[c][n] \in Nat
  BY DEF Basics, TypeOK
<1>3. QED
  BY <1>1, <1>2 DEF NoneLess

(* Nothing is told.                                                          *)
LEMMA SameStillShown ==
    ASSUME Basics, KnownReactionsShown, NoneLess, known' = known PROVE KnownReactionsShown'
BY ShownStays DEF KnownReactionsShown

(* Lists that stay have no count that is less.                               *)
LEMMA ListsSame == ASSUME Basics, reactions' = reactions PROVE NoneLess
<1>1. \A c \in Containers : \A p \in DOMAIN reactions[c] : reactions[c][p].count \in Nat
  BY DEF Basics, TypeOK, Entry
<1>2. QED
  BY <1>1 DEF NoneLess

(* What an answer tells is in the lists after the merge, and what was told   *)
(* before it has not become less by it.                                      *)
LEMMA UpdateShows ==
    ASSUME Basics, KnownReactionsShown, NEW data, \A c \in Containers : Fits(c, data[c]),
           UpdateContainerData(data)
    PROVE  KnownReactionsShown'
<1>1. \A c \in Containers :
          /\ DOMAIN reactions'[c] = DOMAIN reactions[c] \cup DOMAIN data[c]
          /\ \A p \in DOMAIN reactions'[c] :
              /\ p \in DOMAIN rows /\ reactions'[c][p] \in Entry
              /\ reactions'[c][p].node = rows[p].node
              /\ p \in DOMAIN reactions[c] => reactions'[c][p].count >= reactions[c][p].count
              /\ p \in DOMAIN data[c] => reactions'[c][p].count >= data[c][p].count
  BY UpdateMerges
<1>2. \A c \in Containers, n \in Nodes :
          \/ known'[c][n] = known[c][n]
          \/ \E p \in DOMAIN data[c] : data[c][p].node = n /\ known'[c][n] = data[c][p].count
  BY UpdateTells
<1>3. NoneLess
  <2>1. \A c \in Containers : \A p \in DOMAIN reactions[c] :
            reactions[c][p] \in Entry /\ reactions[c][p].node = rows[p].node
    BY DEF Basics, TypeOK, ListsInv
  <2>2. QED
    BY <1>1, <2>1 DEF NoneLess, Entry
<1>4. ASSUME NEW c \in Containers, NEW n \in Nodes, known'[c][n] > 0
      PROVE  \E p \in DOMAIN reactions'[c] :
                 reactions'[c][p].node = n /\ reactions'[c][p].count >= known'[c][n]
  <2>1. CASE known'[c][n] = known[c][n]
    BY <1>3, <1>4, <2>1, ShownStays
  <2>2. CASE \E p \in DOMAIN data[c] : data[c][p].node = n /\ known'[c][n] = data[c][p].count
    <3>1. PICK p \in DOMAIN data[c] : data[c][p].node = n /\ known'[c][n] = data[c][p].count
      BY <2>2
    <3>2. data[c][p].node = rows[p].node
      BY DEF Fits
    <3>3. QED
      BY <1>1, <3>1, <3>2
  <2>3. QED
    BY <1>2, <2>1, <2>2
<1>5. QED
  BY <1>4 DEF KnownReactionsShown

(* The visitor is shown the new reaction, or the older one like it.          *)
LEMMA NewReactionShows ==
    ASSUME Basics, KnownReactionsShown, NEW i \in DOMAIN posts, NewReactionSuccess(i)
    PROVE  KnownReactionsShown'
<1> DEFINE c == posts[i].container
           n == posts[i].node
           id == posts[i].id
<1>1. RegisterReaction(c, n, id) /\ known' = [known EXCEPT ![c][n] = Larger(@, 1)]
  BY DEF NewReactionSuccess
<1>2. /\ c \in Containers /\ n \in Nodes /\ id \in DOMAIN rows /\ rows[id].node = n
  <2>1. posts[i] \in Post /\ PostInv(posts[i], rows, reactions)
        /\ posts[i].status \in {"created", "existing"}
    BY DEF Basics, TypeOK, PostsInv, NewReactionSuccess
  <2>2. QED
    BY <2>1 DEF Post, PostInv, Own
<1> HIDE DEF c, n, id
<1>3. /\ known \in [Containers -> [Nodes -> Nat]]
      /\ \A d \in Containers : \A p \in DOMAIN reactions[d] :
             reactions[d][p].count \in Nat /\ reactions[d][p].count > 0
  BY DEF Basics, TypeOK, ListsInv, Entry
<1>4. /\ known'[c][n] = Larger(known[c][n], 1)
      /\ \A d \in Containers, m \in Nodes : <<d, m>> # <<c, n>> => known'[d][m] = known[d][m]
  BY <1>1, <1>2, <1>3
<1>5. NoneLess
  <2>1. CASE UNCHANGED lists
    BY <2>1, ListsSame DEF lists
  <2>2. CASE Registered(c, n, id)
    BY <1>2, <1>3, <2>2 DEF Registered, NoneLess
  <2>3. QED
    BY <1>1, <1>2, <2>1, <2>2, RegisterDoes
<1>6. \E p \in DOMAIN reactions'[c] :
          reactions'[c][p].node = n /\ reactions'[c][p].count >= known'[c][n]
  <2>1. CASE known[c][n] > 0
    <3>1. known'[c][n] = known[c][n]
      BY <1>2, <1>3, <1>4, <2>1 DEF Larger
    <3>2. QED
      BY <1>2, <1>5, <2>1, <3>1, ShownStays
  <2>2. CASE ~(known[c][n] > 0)
    <3>1. known'[c][n] = 1
      BY <1>2, <1>3, <1>4, <2>2 DEF Larger
    <3>2. CASE UNCHANGED lists /\ \E p \in DOMAIN reactions[c] : reactions[c][p].node = n
      BY <1>2, <1>3, <3>1, <3>2 DEF lists
    <3>3. CASE Registered(c, n, id)
      BY <1>2, <3>1, <3>3 DEF Registered
    <3>4. QED
      BY <1>1, <1>2, <3>2, <3>3, RegisterDoes
  <2>3. QED
    BY <2>1, <2>2
<1>7. ASSUME NEW d \in Containers, NEW m \in Nodes, <<d, m>> # <<c, n>>, known'[d][m] > 0
      PROVE  \E p \in DOMAIN reactions'[d] :
                 reactions'[d][p].node = m /\ reactions'[d][p].count >= known'[d][m]
  <2>1. known'[d][m] = known[d][m]
    BY <1>4, <1>7
  <2>2. QED
    BY <1>5, <1>7, <2>1, ShownStays
<1>8. QED
  BY <1>6, <1>7 DEF KnownReactionsShown

(* The answers that hold data, as updates of the lists.                      *)
LEMMA AnswersUpdate ==
    ASSUME Basics
    PROVE  /\ \A k \in 0..Len(rows) : PageDataArrives(k) =>
                  \E data : (\A c \in Containers : Fits(c, data[c])) /\ UpdateContainerData(data)
           /\ \A d \in CrossContainers, k \in 0..Len(rows) : CrosspageDataArrives(d, k) =>
                  \E data : (\A c \in Containers : Fits(c, data[c])) /\ UpdateContainerData(data)
<1>1. \A k \in 0..Len(rows), c \in Containers :
          /\ Fits(c, ContainerData(k, {"here"}, c)) /\ Fits(c, ContainerData(k, Pages, c))
          /\ Fits(c, Nothing)
  <2>1. {"here"} \in SUBSET Pages /\ Pages \in SUBSET Pages
    BY DEF Pages
  <2>2. QED
    BY <2>1, DataFits DEF Basics
<1>2. ASSUME NEW k \in 0..Len(rows), PageDataArrives(k)
      PROVE  \E data : (\A c \in Containers : Fits(c, data[c])) /\ UpdateContainerData(data)
  <2> DEFINE data == [c \in Containers |-> ContainerData(k, {"here"}, c)]
  <2>1. UpdateContainerData(data)
    BY <1>2 DEF PageDataArrives
  <2>2. \A c \in Containers : Fits(c, data[c])
    BY <1>1
  <2> HIDE DEF data
  <2>3. QED
    BY <2>1, <2>2
<1>3. ASSUME NEW d \in CrossContainers, NEW k \in 0..Len(rows), CrosspageDataArrives(d, k)
      PROVE  \E data : (\A c \in Containers : Fits(c, data[c])) /\ UpdateContainerData(data)
  <2> DEFINE data == [c \in Containers |-> IF c = d THEN ContainerData(k, Pages, d) ELSE Nothing]
  <2>1. UpdateContainerData(data)
    BY <1>3 DEF CrosspageDataArrives
  <2>2. \A c \in Containers : Fits(c, data[c])
    BY <1>1
  <2> HIDE DEF data
  <2>3. QED
    BY <2>1, <2>2
<1>4. QED
  BY <1>2, <1>3

(* What the steps without data and without a new reaction do.                *)
LEMMA OtherSteps ==
    ASSUME Basics,
           \/ UNCHANGED vars \/ OpenWindow
           \/ \E c \in Containers, n \in Nodes : PostNewReaction(c, n)
           \/ \E c \in Containers, p \in Ids : PostPlusOne(c, p)
           \/ \E n \in Nodes : PostSummaryPlusOne(n)
           \/ \E i \in DOMAIN posts : CreateInteraction(i) \/ PostFails(i)
                                      \/ PlusOneSuccess(i) \/ SummaryPlusOneSuccess(i)
           \/ \E page \in Pages, c \in Containers, n \in Nodes, root \in BOOLEAN :
                  OthersReact(page, c, n, root)
    PROVE  known' = known /\ NoneLess
<1>1. CASE \E i \in DOMAIN posts : PlusOneSuccess(i) /\ posts[i].status = "created"
  <2>1. PICK i \in DOMAIN posts : PlusOneSuccess(i) /\ posts[i].status = "created"
    BY <1>1
  <2> DEFINE c == posts[i].container
             p == posts[i].parent
  <2>2. /\ c \in Containers /\ p \in DOMAIN reactions[c]
        /\ \A d \in Containers \ {c} : reactions'[d] = reactions[d]
        /\ DOMAIN reactions'[c] = DOMAIN reactions[c]
        /\ \A q \in DOMAIN reactions[c] \ {p} : reactions'[c][q] = reactions[c][q]
        /\ reactions'[c][p] = [node |-> reactions[c][p].node,
                               count |-> reactions[c][p].count + 1]
    BY <2>1, PlusOneDoes, SMTT(30)
  <2>3. known' = known
    BY <2>1 DEF PlusOneSuccess
  <2> HIDE DEF c, p
  <2>4. \A d \in Containers : \A q \in DOMAIN reactions[d] : reactions[d][q].count \in Nat
    BY DEF Basics, TypeOK, Entry
  <2>5. QED
    BY <2>2, <2>3, <2>4 DEF NoneLess
<1>2. CASE known' = known /\ reactions' = reactions
  BY <1>2, ListsSame, SMTT(30)
<1>3. (~\E i \in DOMAIN posts : PlusOneSuccess(i) /\ posts[i].status = "created")
      => known' = known /\ reactions' = reactions
  BY DEF OpenWindow, PostNewReaction, PostPlusOne, PostSummaryPlusOne, Send, CreateInteraction,
         PostFails, OthersReact, PlusOneSuccess, SummaryPlusOneSuccess, vars, lists
<1>4. QED
  BY <1>1, <1>2, <1>3

(* Every step goes on showing what is known.                                 *)
LEMMA ShownStep == ASSUME Basics, KnownReactionsShown, [Next]_vars PROVE KnownReactionsShown'
<1>1. CASE \/ \E k \in 0..Len(rows) : PageDataArrives(k)
           \/ \E c \in CrossContainers, k \in 0..Len(rows) : CrosspageDataArrives(c, k)
  <2>1. PICK data : (\A c \in Containers : Fits(c, data[c])) /\ UpdateContainerData(data)
    BY <1>1, AnswersUpdate
  <2>2. QED
    BY <2>1, UpdateShows
<1>2. CASE \E i \in DOMAIN posts : NewReactionSuccess(i)
  BY <1>2, NewReactionShows
<1>3. CASE known' = known /\ NoneLess
  BY <1>3, SameStillShown
<1>4. QED
  BY <1>1, <1>2, <1>3, OtherSteps DEF Next

(* What the browser was told of stays on the page: no answer, however late   *)
(* or old, takes a reaction or a count away (page-data.js:109-133).          *)
THEOREM KnownStaysShown == Spec => []KnownReactionsShown
<1>1. Init => KnownReactionsShown
  BY DEF Init, KnownReactionsShown
<1>2. Basics /\ KnownReactionsShown /\ [Next]_vars => KnownReactionsShown'
  BY ShownStep
<1>3. QED
  BY <1>1, <1>2, BasicsHold, PTL DEF Spec

-----------------------------------------------------------------------------
(* No count is more than one too many                                       *)

RowsKept ==
    /\ Len(rows) <= Len(rows')
    /\ \A i \in DOMAIN rows : i \in DOMAIN rows' /\ rows'[i] = rows[i]

(* What is due after the step was due before it.                             *)
NothingNewDue ==
    \A j \in DOMAIN posts' : posts'[j].status = "created" =>
        /\ j \in DOMAIN posts /\ posts[j].status = "created"
        /\ posts'[j].container = posts[j].container /\ posts'[j].node = posts[j].node

(* A count in the lists is the old one, or one that the database has.        *)
ListsFit ==
    \A c \in Containers : \A p \in DOMAIN reactions'[c] :
        \/ p \in DOMAIN reactions[c] /\ reactions'[c][p] = reactions[c][p]
        \/ p \in DOMAIN rows /\ reactions'[c][p].count <= InDatabase(c, rows[p].node)

(* What the database has of a reaction becomes no less.                      *)
LEMMA DatabaseGrows ==
    ASSUME Basics, Basics', RowsKept, NEW c, NEW n
    PROVE  /\ InDatabase(c, n) \in Nat /\ InDatabase(c, n)' \in Nat
           /\ InDatabase(c, n) <= InDatabase(c, n)'
<1> DEFINE l == Len(rows')
           A == Counted(Len(rows), Pages, c, n)
           B == {i \in 1..l : rows'[i].page \in Pages /\ rows'[i].container = c /\ rows'[i].node = n}
<1>1. /\ Len(rows) \in Nat /\ DOMAIN rows = 1..Len(rows) /\ l \in Nat
      /\ Len(rows) <= l /\ \A i \in DOMAIN rows : rows'[i] = rows[i]
  <2>1. rows \in Seq(Row) /\ rows' \in Seq(Row)
    BY DEF Basics, TypeOK
  <2>2. QED
    BY <2>1 DEF RowsKept
<1>2. InDatabase(c, n) = Cardinality(A) /\ InDatabase(c, n)' = Cardinality(B)
  BY DEF InDatabase, Counted
<1>3. A \in SUBSET B /\ B \in SUBSET (1..l)
  BY <1>1 DEF Counted
<1>4. IsFiniteSet(1..l)
  <2>1. 1 \in Int /\ l \in Int
    BY <1>1
  <2> HIDE DEF l
  <2>2. QED
    BY <2>1, FS_Interval
<1> HIDE DEF A, B, l
<1>5. IsFiniteSet(B)
  BY <1>3, <1>4, FS_Subset
<1>6. IsFiniteSet(A) /\ Cardinality(A) <= Cardinality(B)
  BY <1>3, <1>5, FS_Subset
<1>7. Cardinality(A) \in Nat /\ Cardinality(B) \in Nat
  BY <1>5, <1>6, FS_CardinalityType
<1>8. QED
  BY <1>2, <1>6, <1>7

(* The bound is what the database has, or one more.                          *)
LEMMA BoundTyped ==
    ASSUME Basics, NEW c, NEW n
    PROVE  /\ InDatabase(c, n) \in Nat /\ InDatabase(c, n) <= Bound(c, n)
           /\ Bound(c, n) \in Nat /\ Bound(c, n) <= InDatabase(c, n) + 1
<1>1. InDatabase(c, n) \in Nat
  <2>1. Len(rows) \in Nat /\ Len(rows) \in 0..Len(rows) /\ Pages \in SUBSET Pages
    BY SeqFacts DEF Basics
  <2>2. InDatabase(c, n) \in 0..Len(rows)
    BY <2>1, CountedIn DEF Basics
  <2>3. QED
    BY <2>1, <2>2
<1>2. QED
  BY <1>1 DEF Bound

(* The bound becomes no less in a step after which what was settled still    *)
(* is.                                                                       *)
LEMMA BoundGrows ==
    ASSUME Basics, Basics', RowsKept, NEW c, NEW n, Settled(c, n) => Settled(c, n)'
    PROVE  /\ Bound(c, n) \in Nat /\ Bound(c, n)' \in Nat /\ Bound(c, n) <= Bound(c, n)'
           /\ InDatabase(c, n) \in Nat /\ InDatabase(c, n) <= Bound(c, n)'
<1>1. /\ InDatabase(c, n) \in Nat /\ InDatabase(c, n)' \in Nat
      /\ InDatabase(c, n) <= InDatabase(c, n)'
  BY DatabaseGrows
<1> DEFINE a == InDatabase(c, n)
           b == InDatabase(c, n)'
           s == Settled(c, n)
           t == Settled(c, n)'
<1>2. Bound(c, n) = a + (IF s THEN 1 ELSE 0) /\ Bound(c, n)' = b + (IF t THEN 1 ELSE 0)
  BY DEF Bound
<1>3. a \in Nat /\ b \in Nat /\ a <= b /\ (s => t)
  BY <1>1
<1> HIDE DEF a, b, s, t
<1>4. /\ a + (IF s THEN 1 ELSE 0) \in Nat /\ b + (IF t THEN 1 ELSE 0) \in Nat
      /\ a + (IF s THEN 1 ELSE 0) <= b + (IF t THEN 1 ELSE 0) /\ a <= b + (IF t THEN 1 ELSE 0)
  BY <1>3
<1>5. QED
  BY <1>2, <1>3, <1>4 DEF a

(* What the visitor has made stays made.                                     *)
LEMMA MadeStays == ASSUME RowsKept, NEW c, NEW n PROVE Made(c, n) => Made(c, n)'
BY DEF RowsKept, Made, Own

(* What is settled stays so while nothing becomes due.                       *)
LEMMA SettledStays ==
    ASSUME RowsKept, NothingNewDue, NEW c, NEW n PROVE Settled(c, n) => Settled(c, n)'
<1>1. (\A j \in DOMAIN posts : ~Due(j, c, n)) => \A j \in DOMAIN posts' : ~Due(j, c, n)'
  BY DEF NothingNewDue, Due
<1>2. QED
  BY <1>1, MadeStays DEF Settled

(* The steps by which nothing becomes due, and the lists get only what the   *)
(* database has.                                                             *)
LEMMA CountsKept ==
    ASSUME Basics, Basics', MadeOnce, CountsInv, RowsKept, NothingNewDue, ListsFit
    PROVE  MadeOnce' /\ CountsInv'
<1>1. MadeOnce'
  BY DEF MadeOnce, NothingNewDue, Due
<1>2. ASSUME NEW c \in Containers, NEW n \in Nodes, NEW p \in DOMAIN reactions'[c],
             reactions'[c][p].node = n
      PROVE  reactions'[c][p].count <= Bound(c, n)'
  <2>1. /\ Bound(c, n) \in Nat /\ Bound(c, n)' \in Nat /\ Bound(c, n) <= Bound(c, n)'
        /\ InDatabase(c, n) \in Nat /\ InDatabase(c, n) <= Bound(c, n)'
    BY SettledStays, BoundGrows
  <2>2. reactions'[c][p].count \in Nat
    BY DEF Basics, TypeOK, Entry
  <2>3. CASE p \in DOMAIN reactions[c] /\ reactions'[c][p] = reactions[c][p]
    <3>1. reactions'[c][p].count <= Bound(c, n)
      BY <1>2, <2>3 DEF CountsInv
    <3>2. QED
      BY <2>1, <2>2, <3>1
  <2>4. CASE p \in DOMAIN rows /\ reactions'[c][p].count <= InDatabase(c, rows[p].node)
    <3>1. rows'[p].node = n
      BY <1>2 DEF Basics, ListsInv
    <3>2. rows[p].node = n
      BY <2>4, <3>1 DEF RowsKept
    <3>3. QED
      BY <2>1, <2>2, <2>4, <3>2
  <2>5. QED
    BY <2>3, <2>4 DEF ListsFit
<1>3. QED
  BY <1>1, <1>2 DEF CountsInv

Counting == MadeOnce /\ CountsInv

(* Lists that stay have no count that the database lacks.                    *)
LEMMA ListsSameFit == ASSUME reactions' = reactions PROVE ListsFit
BY DEF ListsFit

(* A database that stays keeps its interactions.                             *)
LEMMA RowsSameKept == ASSUME Basics, rows' = rows PROVE RowsKept
<1>1. Len(rows) \in Nat
  BY SeqFacts DEF Basics
<1>2. QED
  BY <1>1 DEF RowsKept

(* An answer was there, or a failure: what it was the answer to is not due.  *)
LEMMA StatusChanges ==
    ASSUME Basics, NEW i \in DOMAIN posts, NEW s \in {"existing", "done"}, NEW k,
           \/ posts' = [posts EXCEPT ![i].status = s]
           \/ posts' = [posts EXCEPT ![i].status = s, ![i].id = k]
    PROVE  NothingNewDue
<1>1. posts \in Seq(Post)
  BY DEF Basics, TypeOK
<1>2. DOMAIN posts' = DOMAIN posts /\ \A j \in DOMAIN posts \ {i} : posts'[j] = posts[j]
  BY <1>1
<1>3. posts'[i].status = s
  <2>1. posts[i] \in Post
    BY <1>1
  <2>2. QED
    BY <1>1, <2>1 DEF Post
<1>4. QED
  BY <1>2, <1>3 DEF NothingNewDue

(* Data that arrives: nobody merges a count that the database has not.       *)
LEMMA DataCounting ==
    ASSUME Basics, Basics', Counting
    PROVE  /\ \A k \in 0..Len(rows) : PageDataArrives(k) => Counting'
           /\ \A d \in CrossContainers, k \in 0..Len(rows) : CrosspageDataArrives(d, k) => Counting'
<1>1. ASSUME NEW data, \A c \in Containers : Fits(c, data[c]), UpdateContainerData(data)
      PROVE  ListsFit
  <2>1. \A c \in Containers : \A p \in DOMAIN reactions'[c] :
            /\ p \in DOMAIN rows
            /\ \/ p \in DOMAIN reactions[c] /\ reactions'[c][p] = reactions[c][p]
               \/ reactions'[c][p].count <= InDatabase(c, rows[p].node)
    BY <1>1, UpdateMerges
  <2>2. QED
    BY <2>1 DEF ListsFit
<1>2. ASSUME NEW k \in 0..Len(rows), PageDataArrives(k) PROVE Counting'
  <2>1. PICK data : (\A c \in Containers : Fits(c, data[c])) /\ UpdateContainerData(data)
    BY <1>2, AnswersUpdate
  <2>2. ListsFit
    BY <1>1, <2>1
  <2>3. /\ rows' = rows
        /\ posts' = [i \in DOMAIN posts |->
               [posts[i] EXCEPT !.attached = @ /\ posts[i].op # "summaryPlusOne"]]
    BY <1>2 DEF PageDataArrives
  <2>4. NothingNewDue
    <3>1. \A i \in DOMAIN posts : posts[i] \in Post
      BY DEF Basics, TypeOK
    <3>2. \A i \in DOMAIN posts : /\ posts'[i].status = posts[i].status
                                  /\ posts'[i].container = posts[i].container
                                  /\ posts'[i].node = posts[i].node
      BY <2>3, <3>1 DEF Post
    <3>3. DOMAIN posts' = DOMAIN posts
      BY <2>3
    <3>4. QED
      BY <3>2, <3>3 DEF NothingNewDue
  <2>5. RowsKept
    BY <2>3, RowsSameKept
  <2>6. QED
    BY <2>2, <2>4, <2>5, CountsKept DEF Counting
<1>3. ASSUME NEW d \in CrossContainers, NEW k \in 0..Len(rows), CrosspageDataArrives(d, k)
      PROVE  Counting'
  <2>1. PICK data : (\A c \in Containers : Fits(c, data[c])) /\ UpdateContainerData(data)
    BY <1>3, AnswersUpdate
  <2>2. ListsFit
    BY <1>1, <2>1
  <2>3. rows' = rows /\ posts' = posts
    BY <1>3 DEF CrosspageDataArrives
  <2>4. NothingNewDue /\ RowsKept
    BY <2>3, RowsSameKept DEF NothingNewDue
  <2>5. QED
    BY <2>2, <2>4, CountsKept DEF Counting
<1>4. QED
  BY <1>2, <1>3

(* Posts, failures, the +1s of the summary and of others: the lists of the   *)
(* containers stay.                                                          *)
LEMMA SendCounting ==
    ASSUME Basics, Basics', Counting, NEW op, NEW c, NEW n, NEW p, Send(op, c, n, p)
    PROVE  Counting'
<1> DEFINE q == [op |-> op, container |-> c, node |-> n, parent |-> p,
                 status |-> "sent", id |-> 0, attached |-> TRUE]
<1>1. /\ posts' = Append(posts, q) /\ rows' = rows /\ reactions' = reactions
      /\ q.status = "sent"
  BY DEF Send, lists
<1> HIDE DEF q
<1>2. /\ posts \in Seq(Post) /\ Len(posts) \in Nat
  BY DEF Basics, TypeOK
<1>3. NothingNewDue
  <2>1. /\ DOMAIN posts' = 1..(Len(posts) + 1) /\ DOMAIN posts = 1..Len(posts)
        /\ posts'[Len(posts) + 1] = q
        /\ \A j \in DOMAIN posts : posts'[j] = posts[j]
    BY <1>1, <1>2
  <2>2. ASSUME NEW j \in DOMAIN posts', posts'[j].status = "created" PROVE j \in DOMAIN posts
    <3>1. j # Len(posts) + 1
      BY <1>1, <2>1, <2>2
    <3>2. QED
      BY <1>2, <2>1, <3>1
  <2>3. QED
    BY <2>1, <2>2 DEF NothingNewDue
<1>4. QED
  BY <1>1, <1>3, RowsSameKept, ListsSameFit, CountsKept DEF Counting

(* Somebody else reacts: only the database counts more.                      *)
LEMMA OthersCounting ==
    ASSUME Basics, Basics', Counting, NEW page \in Pages, NEW c \in Containers, NEW n \in Nodes,
           NEW root \in BOOLEAN, OthersReact(page, c, n, root)
    PROVE  Counting'
<1> DEFINE row == [page |-> page, container |-> c, node |-> n, root |-> root, mine |-> FALSE]
<1>1. /\ Len(rows) < MaxRows /\ rows' = Append(rows, row) /\ row \in Row
      /\ posts' = posts /\ reactions' = reactions
  BY DEF OthersReact, lists, Row
<1> HIDE DEF row
<1>2. RowsKept
  <2>1. /\ Len(rows') = Len(rows) + 1 /\ Len(rows) \in Nat
        /\ \A i \in DOMAIN rows : i \in DOMAIN rows' /\ rows'[i] = rows[i]
    BY <1>1, RowAdded, SeqFacts DEF Basics
  <2>2. QED
    BY <2>1 DEF RowsKept
<1>3. NothingNewDue
  BY <1>1 DEF NothingNewDue
<1>4. QED
  BY <1>1, <1>2, <1>3, ListsSameFit, CountsKept DEF Counting

(* The server makes the interaction: it was not made before, so nothing like *)
(* it was settled or due, and the count that the database gains makes room   *)
(* for the one that the page will add.                                       *)
LEMMA CreateCounting ==
    ASSUME Basics, Basics', Counting, NEW i \in DOMAIN posts, CreateInteraction(i)
    PROVE  Counting'
<1> DEFINE c0 == posts[i].container
           n0 == posts[i].node
           old == {j \in Counted(Len(rows), {"here"}, c0, n0) : rows[j].mine}
           row == [page |-> "here", container |-> c0,
                   node |-> n0, root |-> posts[i].parent = 0, mine |-> TRUE]
<1>1. /\ posts \in Seq(Post) /\ rows \in Seq(Row) /\ posts[i] \in Post
      /\ reactions' = reactions
  <2>1. posts \in Seq(Post) /\ rows \in Seq(Row)
    BY DEF Basics, TypeOK
  <2>2. UNCHANGED lists
    BY DEF CreateInteraction
  <2>3. QED
    BY <2>1, <2>2 DEF lists
<1>2. CASE old # {}
  <2>1. PICK j \in old : posts' = [posts EXCEPT ![i].status = "existing", ![i].id = j]
    BY <1>2 DEF CreateInteraction
  <2>2. rows' = rows
    BY <1>2 DEF CreateInteraction
  <2>3. NothingNewDue
    BY <2>1, StatusChanges
  <2>4. QED
    BY <1>1, <2>2, <2>3, RowsSameKept, ListsSameFit, CountsKept DEF Counting
<1>3. CASE old = {}
  <2>1. /\ Len(rows) < MaxRows /\ rows' = Append(rows, row)
        /\ posts' = [posts EXCEPT ![i].status = "created", ![i].id = Len(rows) + 1]
    BY <1>3 DEF CreateInteraction
  <2>2. ~Made(c0, n0)
    <3>1. DOMAIN rows = 1..Len(rows)
      BY <1>1
    <3>2. QED
      BY <1>3, <3>1 DEF Made, Own, Counted
  <2>3. row \in Row
    BY <1>1 DEF Row, Post, Pages
  <2>4. RowsKept
    <3> HIDE DEF row
    <3>1. /\ Len(rows') = Len(rows) + 1 /\ Len(rows) \in Nat
          /\ \A j \in DOMAIN rows : j \in DOMAIN rows' /\ rows'[j] = rows[j]
      BY <2>1, <2>3, RowAdded, SeqFacts DEF Basics
    <3>2. QED
      BY <3>1 DEF RowsKept
  <2>5. /\ DOMAIN posts' = DOMAIN posts /\ \A j \in DOMAIN posts \ {i} : posts'[j] = posts[j]
        /\ posts'[i].container = c0 /\ posts'[i].node = n0
    BY <1>1, <2>1 DEF Post
  <2>6. \A j \in DOMAIN posts : ~Due(j, c0, n0)
    <3> SUFFICES ASSUME NEW j \in DOMAIN posts, Due(j, c0, n0) PROVE FALSE
      OBVIOUS
    <3>1. posts[j].id \in DOMAIN rows /\ Own(rows[posts[j].id], c0, n0)
      BY DEF Basics, PostsInv, PostInv, Due
    <3>2. QED
      BY <2>2, <3>1 DEF Made
  <2> HIDE DEF c0, n0, old, row
  <2>7. \A j \in DOMAIN posts : \A c, n : Due(j, c, n)' => Due(j, c, n) \/ (j = i /\ c = c0 /\ n = n0)
    BY <2>5 DEF Due
  <2>8. MadeOnce'
    <3> SUFFICES ASSUME NEW c \in Containers, NEW n \in Nodes,
                        NEW j \in DOMAIN posts, NEW k \in DOMAIN posts,
                        Due(j, c, n)', Due(k, c, n)'
                 PROVE  j = k
      BY <2>5 DEF MadeOnce
    <3>1. CASE c = c0 /\ n = n0
      BY <2>6, <2>7, <3>1
    <3>2. CASE ~(c = c0 /\ n = n0)
      BY <2>7, <3>2 DEF Counting, MadeOnce
    <3>3. QED
      BY <3>1, <3>2
  <2>9. ASSUME NEW c \in Containers, NEW n \in Nodes, NEW p \in DOMAIN reactions[c],
               reactions[c][p].node = n
        PROVE  reactions[c][p].count <= Bound(c, n)'
    <3>1. reactions[c][p].count \in Nat /\ reactions[c][p].count <= Bound(c, n)
      BY <2>9 DEF Basics, TypeOK, Entry, Counting, CountsInv
    <3>2. Settled(c, n) => Settled(c, n)'
      <4>1. CASE c = c0 /\ n = n0
        BY <2>2, <4>1 DEF Settled
      <4>2. CASE ~(c = c0 /\ n = n0)
        <5>1. Made(c, n) => Made(c, n)'
          BY <2>4, MadeStays
        <5>2. (\A j \in DOMAIN posts : ~Due(j, c, n)) => \A j \in DOMAIN posts' : ~Due(j, c, n)'
          BY <2>5, <2>7, <4>2
        <5>3. QED
          BY <5>1, <5>2 DEF Settled
      <4>3. QED
        BY <4>1, <4>2
    <3>3. Bound(c, n) \in Nat /\ Bound(c, n)' \in Nat /\ Bound(c, n) <= Bound(c, n)'
      BY <2>4, <3>2, BoundGrows
    <3>4. QED
      BY <3>1, <3>3
  <2>10. QED
    BY <1>1, <2>8, <2>9 DEF Counting, CountsInv
<1>4. QED
  BY <1>2, <1>3

(* A +1 is answered: it was due, so the page did not count it twice yet, and *)
(* afterwards it is settled, since no other post like it was due.            *)
LEMMA PlusOneCounting ==
    ASSUME Basics, Basics', Counting, NEW i \in DOMAIN posts, PlusOneSuccess(i) PROVE Counting'
<1>1. rows' = rows /\ posts' = [posts EXCEPT ![i].status = "done"]
  BY DEF PlusOneSuccess
<1>2. RowsKept /\ NothingNewDue
  BY <1>1, RowsSameKept, StatusChanges
<1>3. CASE posts[i].status = "existing"
  <2>1. reactions' = reactions
    BY <1>3 DEF PlusOneSuccess
  <2>2. QED
    BY <1>2, <2>1, ListsSameFit, CountsKept DEF Counting
<1>4. CASE posts[i].status = "created"
  <2>0. PICK c0, n0, p0 :
            c0 = posts[i].container /\ n0 = posts[i].node /\ p0 = posts[i].parent
    OBVIOUS
  <2>1. /\ c0 \in Containers /\ p0 \in DOMAIN reactions[c0] /\ reactions[c0][p0].node = n0
        /\ \A d \in Containers \ {c0} : reactions'[d] = reactions[d]
        /\ DOMAIN reactions'[c0] = DOMAIN reactions[c0]
        /\ \A q \in DOMAIN reactions[c0] \ {p0} : reactions'[c0][q] = reactions[c0][q]
        /\ reactions'[c0][p0] = [node |-> reactions[c0][p0].node,
                                 count |-> reactions[c0][p0].count + 1]
    BY <1>4, <2>0, PlusOneDoes
  <2>2. Due(i, c0, n0) /\ n0 \in Nodes /\ Made(c0, n0)
    <3>1. posts[i] \in Post /\ PostInv(posts[i], rows, reactions)
      BY DEF Basics, TypeOK, PostsInv
    <3>2. QED
      BY <1>4, <2>0, <3>1 DEF Due, Post, PostInv, Made
  <2>3. ~Due(i, c0, n0)'
    <3>1. posts \in Seq(Post) /\ posts[i] \in Post
      BY DEF Basics, TypeOK
    <3>2. posts'[i].status = "done"
      BY <1>1, <3>1 DEF Post
    <3>3. QED
      BY <3>2 DEF Due
  <2>4. Settled(c0, n0)'
    <3>1. \A j \in DOMAIN posts' : ~Due(j, c0, n0)'
      <4> SUFFICES ASSUME NEW j \in DOMAIN posts', Due(j, c0, n0)' PROVE FALSE
        OBVIOUS
      <4>1. j \in DOMAIN posts /\ Due(j, c0, n0)
        BY <1>2 DEF NothingNewDue, Due
      <4>2. j = i
        BY <2>1, <2>2, <4>1 DEF Counting, MadeOnce
      <4>3. QED
        BY <2>3, <4>2
    <3>2. QED
      BY <1>2, <2>2, <3>1, MadeStays DEF Settled
  <2>5. MadeOnce'
    BY <1>2 DEF Counting, MadeOnce, NothingNewDue, Due
  <2>6. ASSUME NEW c \in Containers, NEW n \in Nodes, NEW p \in DOMAIN reactions'[c],
               reactions'[c][p].node = n
        PROVE  reactions'[c][p].count <= Bound(c, n)'
    <3>1. CASE c = c0 /\ p = p0
      <4>1. n = n0 /\ reactions'[c][p].count = reactions[c][p].count + 1
        BY <2>1, <2>6, <3>1
      <4>2. reactions[c][p].count \in Nat /\ reactions[c][p].count <= Bound(c, n)
        BY <2>1, <2>2, <3>1, <4>1 DEF Counting, CountsInv, Basics, TypeOK, Entry
      <4>3. ~Settled(c, n)
        BY <2>2, <3>1, <4>1 DEF Settled
      <4>4. /\ InDatabase(c, n) \in Nat /\ InDatabase(c, n)' \in Nat
            /\ InDatabase(c, n) <= InDatabase(c, n)'
        BY <1>2, DatabaseGrows
      <4>5. Bound(c, n) = InDatabase(c, n)
        BY <4>3, <4>4 DEF Bound
      <4>6. Bound(c, n)' = InDatabase(c, n)' + 1
        BY <2>4, <3>1, <4>1 DEF Bound
      <4>7. QED
        BY <4>1, <4>2, <4>4, <4>5, <4>6
    <3>2. CASE ~(c = c0 /\ p = p0)
      <4>1. p \in DOMAIN reactions[c] /\ reactions'[c][p] = reactions[c][p]
        BY <2>1, <3>2
      <4>2. reactions[c][p].count \in Nat /\ reactions[c][p].count <= Bound(c, n)
        BY <2>6, <4>1 DEF Counting, CountsInv, Basics, TypeOK, Entry
      <4>3. Bound(c, n) \in Nat /\ Bound(c, n)' \in Nat /\ Bound(c, n) <= Bound(c, n)'
        BY <1>2, SettledStays, BoundGrows
      <4>4. QED
        BY <4>1, <4>2, <4>3
    <3>3. QED
      BY <3>1, <3>2
  <2>7. QED
    BY <2>5, <2>6 DEF Counting, CountsInv
<1>5. QED
  BY <1>3, <1>4 DEF PlusOneSuccess

(* A new reaction is answered: it starts with the count of 1 that the        *)
(* database has at least.                                                    *)
LEMMA NewReactionCounting ==
    ASSUME Basics, Basics', Counting, NEW i \in DOMAIN posts, NewReactionSuccess(i)
    PROVE  Counting'
<1> DEFINE c == posts[i].container
           n == posts[i].node
           id == posts[i].id
<1>1. /\ RegisterReaction(c, n, id) /\ rows' = rows
      /\ posts' = [posts EXCEPT ![i].status = "done"]
  BY DEF NewReactionSuccess
<1>2. /\ c \in Containers /\ n \in Nodes /\ id \in DOMAIN rows /\ Own(rows[id], c, n)
  <2>1. posts[i] \in Post /\ PostInv(posts[i], rows, reactions)
        /\ posts[i].status \in {"created", "existing"}
    BY DEF Basics, TypeOK, PostsInv, NewReactionSuccess
  <2>2. QED
    BY <2>1 DEF Post, PostInv
<1> HIDE DEF c, n, id
<1>3. RowsKept /\ NothingNewDue
  BY <1>1, RowsSameKept, StatusChanges
<1>4. ListsFit
  <2>1. CASE UNCHANGED lists
    BY <2>1, ListsSameFit DEF lists
  <2>2. CASE Registered(c, n, id)
    <3>1. 1 <= InDatabase(c, n)
      <4>1. /\ DOMAIN rows = 1..Len(rows) /\ Len(rows) \in 0..Len(rows)
            /\ Pages \in SUBSET Pages /\ TypeOK
        <5>1. Len(rows) \in Nat /\ DOMAIN rows = 1..Len(rows)
          BY SeqFacts DEF Basics
        <5>2. QED
          BY <5>1 DEF Basics
      <4>2. id \in Counted(Len(rows), Pages, c, n)
        BY <1>2, <4>1 DEF Counted, Own, Pages
      <4>3. InDatabase(c, n) > 0
        BY <4>1, <4>2, CountedSome DEF InDatabase
      <4>4. InDatabase(c, n) \in Nat
        BY BoundTyped
      <4>5. QED
        BY <4>3, <4>4
    <3>2. rows[id].node = n
      BY <1>2 DEF Own
    <3>3. QED
      BY <1>2, <2>2, <3>1, <3>2 DEF Registered, ListsFit
  <2>3. QED
    BY <1>1, <1>2, <2>1, <2>2, RegisterDoes DEF Own
<1>5. QED
  BY <1>3, <1>4, CountsKept DEF Counting

(* Failures, the +1s of the summary and the windows: the containers' lists   *)
(* stay.                                                                     *)
LEMMA AnswerlessCounting ==
    ASSUME Basics, Basics', Counting,
           \/ \E i \in DOMAIN posts : PostFails(i) \/ SummaryPlusOneSuccess(i)
           \/ OpenWindow \/ UNCHANGED vars
    PROVE  Counting'
<1>1. rows' = rows /\ reactions' = reactions
  BY DEF PostFails, SummaryPlusOneSuccess, OpenWindow, vars, lists
<1>2. NothingNewDue
  <2>1. CASE \E i \in DOMAIN posts : posts' = [posts EXCEPT ![i].status = "done"]
    BY <2>1, StatusChanges
  <2>2. CASE posts' = posts
    BY <2>2 DEF NothingNewDue
  <2>3. QED
    BY <2>1, <2>2 DEF PostFails, SummaryPlusOneSuccess, OpenWindow, vars
<1>3. QED
  BY <1>1, <1>2, RowsSameKept, ListsSameFit, CountsKept DEF Counting

(* Every step keeps the counts within their bounds.                          *)
LEMMA CountingStep == ASSUME Basics, Counting, [Next]_vars PROVE Counting'
<1>1. Basics'
  BY BasicsStep
<1>2. CASE \/ \E k \in 0..Len(rows) : PageDataArrives(k)
           \/ \E c \in CrossContainers, k \in 0..Len(rows) : CrosspageDataArrives(c, k)
  BY <1>1, <1>2, DataCounting
<1>3. CASE \/ \E c \in Containers, n \in Nodes : PostNewReaction(c, n)
           \/ \E c \in Containers, p \in Ids : PostPlusOne(c, p)
           \/ \E n \in Nodes : PostSummaryPlusOne(n)
  <2>1. PICK op, c, n, p : Send(op, c, n, p)
    BY <1>3 DEF PostNewReaction, PostPlusOne, PostSummaryPlusOne
  <2>2. QED
    BY <1>1, <2>1, SendCounting
<1>4. CASE \E i \in DOMAIN posts :
               CreateInteraction(i) \/ PlusOneSuccess(i) \/ NewReactionSuccess(i)
  BY <1>1, <1>4, CreateCounting, PlusOneCounting, NewReactionCounting
<1>5. CASE \E page \in Pages, c \in Containers, n \in Nodes, root \in BOOLEAN :
               OthersReact(page, c, n, root)
  BY <1>1, <1>5, OthersCounting
<1>6. CASE \/ \E i \in DOMAIN posts : PostFails(i) \/ SummaryPlusOneSuccess(i)
           \/ OpenWindow \/ UNCHANGED vars
  BY <1>1, <1>6, AnswerlessCounting
<1>7. QED
  BY <1>2, <1>3, <1>4, <1>5, <1>6 DEF Next

(* No reaction is shown with more than one count too many, though data and   *)
(* the answer to a +1 may both count it (page-data.js:126).                  *)
THEOREM CountsAreOverByOne == Spec => []OverByOne
<1>1. Init => Counting
  BY DEF Init, Counting, MadeOnce, CountsInv, Nothing
<1>2. Basics /\ Counting /\ [Next]_vars => Counting'
  BY CountingStep
<1>3. Basics /\ Counting => OverByOne
  <2> SUFFICES ASSUME Basics, Counting, NEW c \in Containers, NEW p \in DOMAIN reactions[c]
               PROVE  reactions[c][p].count <=
                          Cardinality(Counted(Len(rows), Pages, c, reactions[c][p].node)) + 1
    BY DEF OverByOne
  <2> DEFINE n == reactions[c][p].node
  <2>1. n \in Nodes /\ reactions[c][p].count \in Nat
    BY DEF Basics, TypeOK, Entry
  <2>2. reactions[c][p].count <= Bound(c, n)
    BY <2>1 DEF Counting, CountsInv
  <2> HIDE DEF n
  <2>3. InDatabase(c, n) \in Nat /\ Bound(c, n) \in Nat /\ Bound(c, n) <= InDatabase(c, n) + 1
    BY BoundTyped
  <2>4. reactions[c][p].count <= InDatabase(c, n) + 1
    BY <2>1, <2>2, <2>3
  <2>5. QED
    BY <2>4 DEF InDatabase, n
<1>4. QED
  BY <1>1, <1>2, <1>3, BasicsHold, PTL DEF Spec
=============================================================================
