------------------------- MODULE PageRegistryProofs -------------------------
(***************************************************************************)
(* Theorems about PageRegistry, for any number of URLs, page elements, text *)
(* elements and objects.  All rest on the three maps being kept in step: an *)
(* object is under the key that it names, a URL that has a hash has no       *)
(* entry of its own, and the elements under a key are those of its object.  *)
(***************************************************************************)
EXTENDS PageRegistry, FiniteSetTheorems, WellFoundedInduction, TLAPS

-----------------------------------------------------------------------------
(* The inductive invariants                                                 *)

(* The maps of keys. *)
MapsInv ==
    /\ \A k \in Keys : pages[k] # None => pageHash[pages[k]] = k
    /\ \A u \in Urls : urlHashes[u] # None =>
           urlHashes[u] = HashOf[u] /\ pages[u] = None /\ pages[HashOf[u]] # None

(* The map of elements. *)
ElementsInv ==
    \A k \in Keys :
        elements[k] = IF pages[k] = None THEN {} ELSE {t \in Texts : owner[t] = pages[k]}

(* Only an app changes its URL, and an app loads everything at once. *)
HostInv ==
    /\ host = "pages" => original = Location
    /\ host = "app" => notInView = {} /\ couldBeSinglePageApp

(* A page element that has been scanned has its page data, under the URL it *)
(* had when the body was scanned last; data under a hash has arrived, data   *)
(* under a URL is on its way, and nothing is requested before the scan.       *)
ScannedUrl(p) == IF p = 1 THEN original ELSE urlOf[p]
LoadsInv ==
    /\ issued > 0 => \A p \in present : pages[KeyOf(urlHashes, ScannedUrl(p))] # None
    /\ \A k \in Keys \ Urls : pages[k] # None => pages[k] \in summaryLoaded
    /\ \A u \in Urls : pages[u] # None => DataOnItsWay(u)
    /\ issued = 0 => notInView = {} /\ \A u \in Urls : loads[u] = 0

(* A text element is bound to an object that has data or is under a URL. *)
OwnersInv ==
    \A t \in Texts : InDocument(t) =>
        owner[t] \in summaryLoaded \/ \E u \in Urls : pages[u] = owner[t]

-----------------------------------------------------------------------------
(* Numbers and sets of them                                                 *)

(* A set of naturals that is not empty has a least element, which Min is. *)
LEMMA LeastOf ==
    ASSUME NEW N \in Nat, NEW S \in SUBSET (0..N), S # {}
    PROVE  Min(S) \in S /\ \A n \in S : Min(S) <= n
<1> DEFINE below == {0..n : n \in S}
           R == StrictSubsetOrdering(0..N)
<1>1. IsWellFoundedOn(R, FiniteSubsetsOf(0..N))
  BY FS_StrictSubsetOrderingWellFounded
<1>2. below \subseteq FiniteSubsetsOf(0..N) /\ below # {}
  <2>1. ASSUME NEW n \in S PROVE 0..n \subseteq 0..N /\ IsFiniteSet(0..n)
    <3>1. n \in 0..N /\ n \in Int /\ 0 \in Int
      OBVIOUS
    <3>2. QED
      BY <3>1, FS_Interval
  <2>2. QED
    BY <2>1 DEF FiniteSubsetsOf
<1>3. PICK b \in below : \A c \in below : ~ (<<c, b>> \in R)
  <2> HIDE DEF R, below
  <2>1. QED
    BY <1>1, <1>2, WFMin
<1>4. PICK m \in S : b = 0..m
  OBVIOUS
<1>5. ASSUME NEW n \in S, n < m PROVE FALSE
  <2>1. 0..n \subseteq 0..m /\ 0..n # 0..m /\ 0..m \subseteq 0..N
    BY <1>5
  <2>2. <<0..n, 0..m>> \in R
    BY <2>1 DEF StrictSubsetOrdering
  <2>3. QED
    BY <1>3, <1>4, <2>2
<1>6. \A n \in S : m <= n
  BY <1>5
<1>7. QED
  BY <1>6 DEF Min

(* What ConstantsAssumption says of the sets. *)
LEMMA Constants ==
    /\ NUrls \in Nat /\ NTexts \in Nat /\ MaxObjects \in Nat /\ MaxLoads \in Nat \ {0}
    /\ Urls \subseteq Nat /\ None \notin Urls /\ Keys \subseteq Nat /\ None \notin Keys
    /\ Urls \subseteq Keys /\ \A u \in Urls : HashOf[u] \in Keys \ Urls
    /\ \A k \in Keys \ Urls : \E u \in Urls : k = HashOf[u]
    /\ 1 \in Pages
BY ConstantsAssumption DEF Urls, Keys, Pages, None

(* Keys and texts are finite.                                               *)
LEMMA FiniteKeysAndTexts == IsFiniteSet(Keys) /\ IsFiniteSet(Texts)
<1> DEFINE H == {HashOf[u] : u \in Urls}
           f == [u \in Urls |-> HashOf[u]]
<1>1. IsFiniteSet(Urls) /\ IsFiniteSet(Texts)
  BY FS_Interval, ConstantsAssumption DEF Urls, Texts
<1>2. f \in Surjection(Urls, H)
  BY DEF Surjection
<1> HIDE DEF f
<1>3. IsFiniteSet(H)
  BY <1>1, <1>2, FS_Surjection
<1>4. IsFiniteSet(Urls \cup H)
  BY <1>1, <1>3, FS_Union
<1>5. QED
  BY <1>1, <1>4 DEF Keys

(* The ranks of the members of a finite set of naturals. *)
LEMMA Ranks ==
    ASSUME NEW S \in SUBSET Nat, IsFiniteSet(S)
    PROVE  /\ Cardinality(S) \in Nat
           /\ \A k \in S : Cardinality({j \in S : j <= k}) \in 1..Cardinality(S)
           /\ \A k, l \in S : k < l =>
                  Cardinality({j \in S : j <= k}) < Cardinality({j \in S : j <= l})
<1>1. Cardinality(S) \in Nat
  BY FS_CardinalityType
<1>2. ASSUME NEW k \in S
      PROVE  Cardinality({j \in S : j <= k}) \in 1..Cardinality(S)
  <2> DEFINE T == {j \in S : j <= k}
  <2>1. T \in SUBSET S /\ k \in T
    OBVIOUS
  <2> HIDE DEF T
  <2>2. IsFiniteSet(T) /\ Cardinality(T) <= Cardinality(S)
    BY <2>1, FS_Subset
  <2>3. Cardinality(T) \in Nat /\ Cardinality(T) # 0
    BY <2>1, <2>2, FS_CardinalityType, FS_EmptySet
  <2>4. QED
    BY <1>1, <2>2, <2>3 DEF T
<1>3. ASSUME NEW k \in S, NEW l \in S, k < l
      PROVE  Cardinality({j \in S : j <= k}) < Cardinality({j \in S : j <= l})
  <2> DEFINE T == {j \in S : j <= k}
             U == {j \in S : j <= l}
  <2>1. T \in SUBSET U /\ U \in SUBSET S /\ l \in U /\ l \notin T
    <3>1. k \in Nat /\ l \in Nat /\ \A j \in S : j \in Nat
      OBVIOUS
    <3>2. \A j \in S : j <= k => j <= l
      BY <1>3, <3>1
    <3>3. ~(l <= k)
      BY <1>3, <3>1
    <3>4. T \subseteq U
      BY <3>2
    <3>5. l \in U
      BY <3>1
    <3>6. l \notin T
      BY <3>3
    <3>7. QED
      BY <3>4, <3>5, <3>6
  <2> HIDE DEF T, U
  <2>2. IsFiniteSet(U)
    BY <2>1, FS_Subset
  <2>3. /\ Cardinality(T) <= Cardinality(U) /\ Cardinality(T) # Cardinality(U)
        /\ IsFiniteSet(T)
    BY <2>1, <2>2, FS_Subset
  <2>4. Cardinality(T) \in Nat /\ Cardinality(U) \in Nat
    BY <2>2, <2>3, FS_CardinalityType
  <2>5. QED
    BY <2>3, <2>4 DEF T, U
<1>4. QED
  BY <1>1, <1>2, <1>3

(* computeHash always finds an increment, and one that no element has. *)
LEMMA HashTextFree ==
    ASSUME TypeOK, NEW key \in Keys
    PROVE  /\ HashText(key) \in 0..NTexts
           /\ \A s \in elements[key] : increment[s] # HashText(key)
<1> DEFINE free == {n \in 0..NTexts : \A s \in elements[key] : increment[s] # n}
<1>1. free # {}
  <2> SUFFICES ASSUME free = {} PROVE FALSE
    OBVIOUS
  <2>1. \A n \in 0..NTexts : \E s \in Texts : increment[s] = n
    BY DEF TypeOK
  <2> DEFINE f == [n \in 0..NTexts |-> CHOOSE s \in Texts : increment[s] = n]
  <2>2. \A n \in 0..NTexts : f[n] \in Texts /\ increment[f[n]] = n
    BY <2>1
  <2>3. f \in [0..NTexts -> Texts]
    BY <2>2
  <2> HIDE DEF f
  <2>4. /\ IsFiniteSet(0..NTexts) /\ Cardinality(0..NTexts) = NTexts + 1
        /\ IsFiniteSet(Texts) /\ Cardinality(Texts) < NTexts + 1
    <3>1. 0 \in Int /\ 1 \in Int /\ NTexts \in Int /\ NTexts \in Nat
      BY Constants
    <3>2. IsFiniteSet(0..NTexts) /\ Cardinality(0..NTexts) = NTexts + 1
      BY <3>1, FS_Interval
    <3>3. IsFiniteSet(Texts) /\ Cardinality(Texts) = NTexts
      BY <3>1, FS_Interval DEF Texts
    <3>4. QED
      BY <3>1, <3>2, <3>3
  <2>5. PICK x \in 0..NTexts, y \in 0..NTexts : x # y /\ f[x] = f[y]
    <3> DEFINE I == 0..NTexts
    <3>1. f \in [I -> Texts] /\ IsFiniteSet(I) /\ Cardinality(Texts) < Cardinality(I)
      BY <2>3, <2>4
    <3> HIDE DEF I
    <3>2. \E x, y \in I : x # y /\ f[x] = f[y]
      BY <2>4, <3>1, FS_PigeonHole
    <3>3. QED
      BY <3>2 DEF I
  <2>6. QED
    BY <2>2, <2>5
<1>2. Min(free) \in free
  <2>1. free \in SUBSET (0..NTexts) /\ NTexts \in Nat
    BY Constants
  <2> HIDE DEF free
  <2>2. QED
    BY <1>1, <2>1, LeastOf
<1>3. QED
  BY <1>2 DEF HashText

-----------------------------------------------------------------------------
(* Looking up and creating page data                                        *)

(* What Register does: each key that is asked for has an object afterwards, *)
(* a new one if it had none, and nothing else changes.                      *)
Registered(reg, asked) ==
    /\ issued' \in issued..MaxObjects
    /\ pages' \in [Keys -> 0..issued'] /\ pageHash' \in [Objects -> Keys \cup {None}]
    /\ \A k \in Keys :
           IF reg[k] = None /\ k \in asked
           THEN pages'[k] \in (issued + 1)..issued' /\ pageHash'[pages'[k]] = k
           ELSE pages'[k] = reg[k]
    /\ \A o \in 1..issued : pageHash'[o] = pageHash[o]

(* Register from any map of keys to objects.                                *)
LEMMA RegisterCreates ==
    ASSUME TypeOK, NEW reg \in [Keys -> 0..issued], NEW hashes, NEW us \in SUBSET Urls,
           \A u \in us : KeyOf(hashes, u) \in Keys,
           Register(reg, hashes, us)
    PROVE  Registered(reg, {KeyOf(hashes, u) : u \in us})
<1> DEFINE asked == {KeyOf(hashes, u) : u \in us}
           new == Created(reg, asked)
           missing == {k \in asked : reg[k] = None}
           rank(k) == Cardinality({j \in missing : j <= k})
<1>1. /\ asked \subseteq Keys /\ missing \subseteq Keys
      /\ missing \in SUBSET Nat /\ IsFiniteSet(missing)
  <2>1. asked \subseteq Keys
    OBVIOUS
  <2>2. missing \in SUBSET Keys
    BY <2>1
  <2>3. QED
    BY <2>1, <2>2, Constants, FiniteKeysAndTexts, FS_Subset
<1>2. /\ Cardinality(missing) \in Nat
      /\ \A k \in missing : rank(k) \in 1..Cardinality(missing)
      /\ \A k, l \in missing : k < l => rank(k) < rank(l)
  <2> HIDE DEF missing
  <2>1. QED
    BY <1>1, Ranks
<1>3. \A k, l \in missing : rank(k) = rank(l) => k = l
  <2> HIDE DEF missing
  <2>1. ASSUME NEW k \in missing, NEW l \in missing, rank(k) = rank(l) PROVE k = l
    <3>1. k \in Nat /\ l \in Nat /\ rank(k) \in Nat /\ rank(l) \in Nat
      BY <1>1, <1>2
    <3>2. k < l \/ l < k \/ k = l
      BY <3>1
    <3> HIDE DEF rank
    <3>3. QED
      BY <1>2, <2>1, <3>1, <3>2
  <2>2. QED
    BY <2>1
<1>4. new = [k \in missing |-> issued + rank(k)]
  BY DEF Created
<1>5. DOMAIN new = missing /\ \A k \in missing : new[k] = issued + rank(k)
  BY <1>4
<1>6. /\ issued + Cardinality(missing) <= MaxObjects /\ issued' = issued + Cardinality(missing)
      /\ pages' = [k \in Keys |-> IF k \in missing THEN new[k] ELSE reg[k]]
      /\ pageHash' = [o \in Objects |->
                         IF \E k \in missing : new[k] = o
                         THEN CHOOSE k \in missing : new[k] = o ELSE pageHash[o]]
  BY <1>5 DEF Register
<1>7. \A k \in asked : k \in missing <=> reg[k] = None
  OBVIOUS
<1>8. issued \in Nat /\ pageHash \in [Objects -> Keys \cup {None}]
  BY DEF TypeOK
<1> HIDE DEF new, missing, rank, asked
<1>9. \A k \in missing : new[k] \in (issued + 1)..issued' /\ new[k] \in Objects
  BY <1>2, <1>5, <1>6, <1>8, Constants DEF Objects
<1>10. \A k, l \in missing : new[k] = new[l] => k = l
  BY <1>2, <1>3, <1>5, <1>8
<1>11. issued' \in issued..MaxObjects
  BY <1>2, <1>6, <1>8, Constants
<1>12. pages' \in [Keys -> 0..issued']
  <2>1. \A k \in Keys : reg[k] \in 0..issued'
    BY <1>8, <1>11
  <2>2. \A k \in missing : new[k] \in 0..issued'
    BY <1>8, <1>9, <1>11
  <2>3. QED
    BY <1>6, <2>1, <2>2
<1>13. pageHash' \in [Objects -> Keys \cup {None}]
  BY <1>1, <1>6, <1>8
<1>14. \A k \in missing : pageHash'[new[k]] = k
  BY <1>6, <1>9, <1>10
<1>15. \A o \in 1..issued : pageHash'[o] = pageHash[o]
  <2>1. \A o \in 1..issued : o \in Objects
    BY <1>8, <1>11, Constants DEF Objects
  <2>2. \A o \in 1..issued, k \in missing : new[k] # o
    BY <1>8, <1>9
  <2>3. QED
    BY <1>6, <2>1, <2>2
<1>16. \A k \in Keys :
           IF reg[k] = None /\ k \in asked
           THEN pages'[k] \in (issued + 1)..issued' /\ pageHash'[pages'[k]] = k
           ELSE pages'[k] = reg[k]
  <2>1. \A k \in Keys : k \in missing <=> reg[k] = None /\ k \in asked
    BY DEF missing
  <2>2. QED
    BY <1>6, <1>9, <1>14, <2>1
<1>17. QED
  BY <1>11, <1>12, <1>13, <1>15, <1>16 DEF Registered, asked

-----------------------------------------------------------------------------
(* Loading and scanning                                                     *)

(* Load forgets no request, and each of its page elements is requested or   *)
(* waits for the reader.                                                     *)
LEMMA LoadAsks ==
    ASSUME TypeOK, NEW ps \in SUBSET Pages, Load(ps)
    PROVE  /\ notInView' \subseteq Pages /\ notInView \subseteq notInView'
           /\ loads' \in [Urls -> 0..MaxLoads]
           /\ \A u \in Urls : loads[u] > 0 => loads'[u] > 0
           /\ \A p \in ps : loads'[urlOf[p]] > 0 \/ p \in notInView'
           /\ host = "app" => notInView' = notInView
<1>1. PICK later \in SUBSET (IF host = "app" THEN {} ELSE ps) :
          /\ notInView' = notInView \cup later
          /\ \A u \in {urlOf[p] : p \in ps \ later} : loads[u] < MaxLoads
          /\ loads' = [u \in Urls |-> IF u \in {urlOf[p] : p \in ps \ later}
                                      THEN loads[u] + 1 ELSE loads[u]]
  BY DEF Load
<1> DEFINE now == {urlOf[p] : p \in ps \ later}
<1>2. later \subseteq ps /\ (host = "app" => later = {})
  BY <1>1
<1>3. /\ \A p \in ps \ later : urlOf[p] \in now
      /\ now \subseteq Urls /\ loads \in [Urls -> 0..MaxLoads] /\ notInView \subseteq Pages
  BY DEF TypeOK
<1>4. /\ \A u \in now : loads[u] < MaxLoads
      /\ loads' = [u \in Urls |-> IF u \in now THEN loads[u] + 1 ELSE loads[u]]
  BY <1>1
<1> HIDE DEF now
<1>5. \A u \in Urls : /\ loads'[u] \in 0..MaxLoads
                      /\ loads[u] > 0 => loads'[u] > 0
                      /\ u \in now => loads'[u] > 0
  BY <1>3, <1>4, Constants
<1>6. loads' \in [Urls -> 0..MaxLoads]
  BY <1>4, <1>5
<1>7. \A p \in ps : loads'[urlOf[p]] > 0 \/ p \in notInView'
  BY <1>1, <1>3, <1>5
<1>8. notInView' \subseteq Pages /\ notInView \subseteq notInView'
  BY <1>1, <1>2, <1>3
<1>9. host = "app" => notInView' = notInView
  BY <1>1, <1>2
<1>10. QED
  BY <1>5, <1>6, <1>7, <1>8, <1>9

(* What a scan of the whole document leaves: page data for the URLs of the   *)
(* page elements and for nothing else, and maps in step with it.             *)
Scanned(hashes) ==
    /\ Registered([k \in Keys |-> None], {KeyOf(hashes, u) : u \in {urlOf[p] : p \in present}})
    /\ bound' \in [Pages -> 0..issued']
    /\ \A p \in Pages : bound'[p] = IF p \in present
                                    THEN pages'[KeyOf(hashes, urlOf[p])] ELSE None
    /\ owner' \in [Texts -> 0..issued']
    /\ \A t \in Texts : owner'[t] # None => \E k \in Keys : owner'[t] = pages'[k]
    /\ elements' \in [Keys -> SUBSET Texts] /\ increment' \in [Texts -> 0..NTexts]
    /\ \A k \in Keys : pages'[k] # None =>
           /\ pageHash'[pages'[k]] = k
           /\ \E p \in present : k = KeyOf(hashes, urlOf[p])
    /\ ElementsInv' /\ TextHashesDiffer'
    /\ couldBeSinglePageApp' = TRUE /\ original' = Location

(* ScanDocument does that, wherever the texts are.                          *)
LEMMA ScanBuilds ==
    ASSUME TypeOK, NEW hashes \in [Urls -> Keys \cup {None}],
           NEW textsOf \in [Texts -> Pages \cup {None}], ScanDocument(hashes, textsOf)
    PROVE  Scanned(hashes)
<1> DEFINE us == {urlOf[p] : p \in present}
           asked == {KeyOf(hashes, u) : u \in us}
           none == [k \in Keys |-> None]
<1>1. /\ us \in SUBSET Urls /\ \A u \in Urls : KeyOf(hashes, u) \in Keys
      /\ none \in [Keys -> 0..issued] /\ \A k \in Keys : none[k] = None
      /\ issued \in Nat
  BY Constants DEF TypeOK, KeyOf, None
<1>2. Registered(none, asked)
  <2>1. Register(none, hashes, us)
    BY DEF ScanDocument
  <2> HIDE DEF us, none
  <2>2. QED
    BY <1>1, <2>1, RegisterCreates
<1>3. \A k \in asked : \E p \in present : k = KeyOf(hashes, urlOf[p])
  OBVIOUS
<1>4. \A p \in present : KeyOf(hashes, urlOf[p]) \in asked /\ KeyOf(hashes, urlOf[p]) \in Keys
  BY <1>1
<1> HIDE DEF us, asked, none
<1>5. /\ issued' \in Nat /\ issued' <= MaxObjects
      /\ pages' \in [Keys -> 0..issued'] /\ pageHash' \in [Objects -> Keys \cup {None}]
      /\ \A k \in Keys : IF k \in asked
                         THEN pages'[k] \in (issued + 1)..issued' /\ pageHash'[pages'[k]] = k
                         ELSE pages'[k] = None
  BY <1>1, <1>2, Constants DEF Registered
<1>6. \A k \in Keys : pages'[k] # None => k \in asked /\ pageHash'[pages'[k]] = k
  BY <1>5
<1>7. \A k \in asked \cap Keys : pages'[k] # None
  BY <1>1, <1>5 DEF None
<1>8. /\ bound' = [p \in Pages |-> IF p \in present
                                   THEN pages'[KeyOf(hashes, urlOf[p])] ELSE None]
      /\ owner' = [t \in Texts |-> IF textsOf[t] = None THEN None ELSE bound'[textsOf[t]]]
      /\ elements' = [k \in Keys |->
                         {t \in Texts : owner'[t] # None /\ pageHash'[owner'[t]] = k}]
      /\ increment' = [t \in Texts |->
                          IF owner'[t] = None THEN 0
                          ELSE Cardinality({s \in Texts : s < t /\ owner'[s] = owner'[t]})]
      /\ couldBeSinglePageApp' = TRUE /\ original' = Location
  BY DEF ScanDocument
<1>9. bound' \in [Pages -> 0..issued']
  BY <1>4, <1>5, <1>8 DEF None
<1>10. \A p \in Pages : bound'[p] # None => \E k \in Keys : bound'[p] = pages'[k]
  BY <1>4, <1>8
<1>11. owner' \in [Texts -> 0..issued']
  BY <1>5, <1>8, <1>9 DEF None
<1>12. \A t \in Texts : owner'[t] # None => \E k \in Keys : owner'[t] = pages'[k]
  BY <1>8, <1>10
<1>13. ElementsInv'
  <2>1. ASSUME NEW k \in Keys
        PROVE  elements'[k] = IF pages'[k] = None THEN {}
                              ELSE {t \in Texts : owner'[t] = pages'[k]}
    <3>1. \A t \in Texts : t \in elements'[k] <=> owner'[t] # None /\ pageHash'[owner'[t]] = k
      BY <1>8
    <3>2. \A t \in Texts : owner'[t] # None => pages'[pageHash'[owner'[t]]] = owner'[t]
      BY <1>6, <1>12
    <3>3. elements'[k] \subseteq Texts
      BY <1>8
    <3>4. CASE pages'[k] = None
      BY <3>1, <3>2, <3>3, <3>4
    <3>5. CASE pages'[k] # None
      <4>1. pageHash'[pages'[k]] = k
        BY <1>6, <3>5
      <4>2. \A t \in Texts : t \in elements'[k] <=> owner'[t] = pages'[k]
        BY <3>1, <3>2, <3>5, <4>1
      <4>3. QED
        BY <3>3, <3>5, <4>2
    <3>6. QED
      BY <3>4, <3>5
  <2>2. QED
    BY <2>1 DEF ElementsInv
<1>14. elements' \in [Keys -> SUBSET Texts]
  BY <1>8
<1> DEFINE earlier(t) == {s \in Texts : s < t /\ owner'[s] = owner'[t]}
<1>15. /\ IsFiniteSet(Texts) /\ Cardinality(Texts) = NTexts /\ NTexts \in Nat
       /\ \A t \in Texts : t \in Nat
  <2>1. 1 \in Int /\ NTexts \in Int /\ NTexts \in Nat
    BY Constants
  <2>2. IsFiniteSet(1..NTexts) /\ Cardinality(1..NTexts) = NTexts
    BY <2>1, FS_Interval
  <2>3. QED
    BY <2>1, <2>2 DEF Texts
<1>16. \A t \in Texts :
           IsFiniteSet(earlier(t)) /\ Cardinality(earlier(t)) \in 0..NTexts
  <2>1. ASSUME NEW t \in Texts
        PROVE  IsFiniteSet(earlier(t)) /\ Cardinality(earlier(t)) \in 0..NTexts
    <3>1. earlier(t) \in SUBSET Texts
      OBVIOUS
    <3> HIDE DEF earlier
    <3>2. IsFiniteSet(earlier(t)) /\ Cardinality(earlier(t)) <= NTexts
      BY <1>15, <3>1, FS_Subset
    <3>3. Cardinality(earlier(t)) \in Nat
      BY <3>2, FS_CardinalityType
    <3>4. QED
      BY <1>15, <3>2, <3>3
  <2>2. QED
    BY <2>1
<1>17. \A t \in Texts :
           increment'[t] = IF owner'[t] = None THEN 0 ELSE Cardinality(earlier(t))
  BY <1>8
<1>18. increment' \in [Texts -> 0..NTexts]
  <2>1. \A t \in Texts : increment'[t] \in 0..NTexts
    <3> HIDE DEF earlier
    <3>1. QED
      BY <1>15, <1>16, <1>17
  <2>2. QED
    BY <1>8, <2>1
<1>19. \A s, t \in Texts : s < t /\ owner'[s] # None /\ owner'[s] = owner'[t]
                               => increment'[s] # increment'[t]
  <2> SUFFICES ASSUME NEW s \in Texts, NEW t \in Texts, s < t,
                      owner'[s] # None, owner'[s] = owner'[t]
               PROVE  increment'[s] # increment'[t]
    OBVIOUS
  <2>1. earlier(s) \in SUBSET earlier(t) /\ s \in earlier(t) /\ s \notin earlier(s)
    <3>1. s \in Nat /\ t \in Nat /\ \A r \in Texts : r \in Nat
      BY <1>15
    <3>2. \A r \in Texts : r < s => r < t
      BY <3>1
    <3>3. ~(s < s)
      BY <3>1
    <3>4. QED
      BY <3>2, <3>3
  <2> HIDE DEF earlier
  <2>2. Cardinality(earlier(s)) # Cardinality(earlier(t))
    BY <1>16, <2>1, FS_Subset
  <2>3. QED
    BY <1>17, <2>2
<1>20. TextHashesDiffer'
  <2> SUFFICES ASSUME NEW s \in Texts, NEW t \in Texts, s # t, owner'[s] # None,
                      owner'[s] = owner'[t]
               PROVE  increment'[s] # increment'[t]
    BY DEF TextHashesDiffer, InDocument
  <2>1. s < t \/ t < s
    BY <1>15
  <2>2. QED
    BY <1>19, <2>1
<1>21. \A p \in Pages : bound'[p] = IF p \in present
                                    THEN pages'[KeyOf(hashes, urlOf[p])] ELSE None
  BY <1>8
<1>22. \A k \in Keys : pages'[k] # None => \E p \in present : k = KeyOf(hashes, urlOf[p])
  BY <1>3, <1>6
<1>23. Registered([k \in Keys |-> None], {KeyOf(hashes, u) : u \in {urlOf[p] : p \in present}})
  BY <1>2 DEF none, asked, us
<1>24. QED
  BY <1>6, <1>8, <1>9, <1>11, <1>12, <1>13, <1>14, <1>18, <1>20, <1>21, <1>22, <1>23
     DEF Scanned

-----------------------------------------------------------------------------
(* The maps are kept in step, whatever the server's hashes are              *)

Safe == TypeOK /\ MapsInv /\ ElementsInv /\ TextHashesDiffer

(* The key of a URL is a key, and no URL is the key of another.             *)
LEMMA KeysOfUrls ==
    ASSUME TypeOK, MapsInv, NEW u \in Urls
    PROVE  /\ KeyOf(urlHashes, u) \in Keys
           /\ \A v \in Urls : KeyOf(urlHashes, u) = v => v = u /\ urlHashes[u] = None
BY Constants DEF TypeOK, MapsInv, KeyOf, None

(* A look-up in the maps as they are keeps them in step.                    *)
LEMMA LookupKeepsMaps ==
    ASSUME Safe, NEW us \in SUBSET Urls, Register(pages, urlHashes, us), urlHashes' = urlHashes
    PROVE  /\ Registered(pages, {KeyOf(urlHashes, u) : u \in us})
           /\ MapsInv'
           /\ \A k \in Keys : elements[k] = IF pages'[k] = None THEN {}
                                            ELSE {t \in Texts : owner[t] = pages'[k]}
<1> DEFINE asked == {KeyOf(urlHashes, u) : u \in us}
<1>1. /\ pages \in [Keys -> 0..issued] /\ issued \in Nat
      /\ owner \in [Texts -> 0..issued] /\ elements \in [Keys -> SUBSET Texts]
      /\ \A u \in us : KeyOf(urlHashes, u) \in Keys
  BY KeysOfUrls, Constants DEF Safe, TypeOK
<1>2. Registered(pages, asked)
  BY <1>1, RegisterCreates DEF Safe
<1>3. \A v \in Urls : v \in asked => urlHashes[v] = None
  BY KeysOfUrls DEF Safe
<1> HIDE DEF asked
<1>4. \A k \in Keys : IF pages[k] = None /\ k \in asked
                      THEN pages'[k] \in (issued + 1)..issued' /\ pageHash'[pages'[k]] = k
                      ELSE pages'[k] = pages[k]
  BY <1>2 DEF Registered
<1>5. \A o \in 1..issued : pageHash'[o] = pageHash[o]
  BY <1>2 DEF Registered
<1>6. MapsInv'
  <2>1. ASSUME NEW k \in Keys, pages'[k] # None PROVE pageHash'[pages'[k]] = k
    <3>1. CASE pages[k] = None
      BY <1>4, <2>1, <3>1
    <3>2. CASE pages[k] # None
      <4>1. pages'[k] = pages[k] /\ pages[k] \in 1..issued
        BY <1>1, <1>4, <3>2 DEF None
      <4>2. QED
        BY <1>5, <3>2, <4>1 DEF Safe, MapsInv
    <3>3. QED
      BY <3>1, <3>2
  <2>2. ASSUME NEW v \in Urls, urlHashes'[v] # None
        PROVE  urlHashes'[v] = HashOf[v] /\ pages'[v] = None /\ pages'[HashOf[v]] # None
    <3>1. urlHashes[v] = HashOf[v] /\ pages[v] = None /\ pages[HashOf[v]] # None
      BY <2>2 DEF Safe, MapsInv
    <3>2. v \in Keys /\ HashOf[v] \in Keys /\ v \notin asked
      BY <1>3, <2>2, Constants
    <3>3. QED
      BY <1>4, <3>1, <3>2
  <2>3. QED
    BY <2>1, <2>2 DEF MapsInv
<1>7. ASSUME NEW k \in Keys
      PROVE  elements[k] = IF pages'[k] = None THEN {}
                           ELSE {t \in Texts : owner[t] = pages'[k]}
  <2>1. CASE pages'[k] = pages[k]
    BY <2>1 DEF Safe, ElementsInv
  <2>2. CASE pages'[k] # pages[k]
    <3>1. pages[k] = None /\ pages'[k] \in (issued + 1)..issued'
      BY <1>4, <2>2
    <3>2. \A t \in Texts : owner[t] # pages'[k]
      BY <1>1, <3>1
    <3>3. elements[k] = {}
      BY <3>1 DEF Safe, ElementsInv
    <3>4. QED
      BY <3>2, <3>3
  <2>3. QED
    BY <2>1, <2>2
<1>8. QED
  BY <1>2, <1>6, <1>7 DEF asked

(* The maps are in step before the scan.                                    *)
LEMMA SafeInit == Init => Safe
<1> SUFFICES ASSUME Init PROVE Safe
  OBVIOUS
<1>1. /\ \A k \in Keys : pages[k] = None /\ elements[k] = {}
      /\ \A u \in Urls : urlHashes[u] = None
      /\ \A t \in Texts : owner[t] = None
  BY DEF Init
<1>2. TypeOK
  BY ConstantsAssumption, Constants DEF Init, TypeOK, None, Objects, Pages, Urls
<1>3. QED
  BY <1>1, <1>2 DEF Safe, MapsInv, ElementsInv, TextHashesDiffer, InDocument

(* Steps that leave the registry and the texts alone keep the maps in step. *)
LEMMA SafeStutters ==
    ASSUME Safe, registry' = registry, texts' = texts
    PROVE  (MapsInv /\ ElementsInv /\ TextHashesDiffer)'
BY DEF Safe, registry, texts, MapsInv, ElementsInv, TextHashesDiffer, InDocument

(* A scan of the whole document: MapsInv holds if the scan starts with no    *)
(* hashes, or with hashes of which none is known.                            *)
LEMMA ScanKeepsSafe ==
    ASSUME Safe, NEW ps \in SUBSET Pages, Load(ps), Scanned(urlHashes'),
           urlHashes' = [u \in Urls |-> None],
           UNCHANGED <<host, summaryLoaded, document, failed>>
    PROVE  Safe'
<1>1. /\ \A u \in Urls : urlHashes'[u] = None
      /\ urlHashes' \in [Urls -> Keys \cup {None}]
  OBVIOUS
<1>2. /\ pages' \in [Keys -> 0..issued'] /\ pageHash' \in [Objects -> Keys \cup {None}]
      /\ issued' \in issued..MaxObjects
  BY DEF Scanned, Registered
<1>3. notInView' \subseteq Pages /\ loads' \in [Urls -> 0..MaxLoads]
  BY LoadAsks DEF Safe
<1>4. issued' \in 0..MaxObjects /\ summaryLoaded' \subseteq 1..issued'
  BY <1>2, Constants DEF Safe, TypeOK
<1>5. MapsInv'
  BY <1>1 DEF Scanned, MapsInv
<1>6. original' \in Urls /\ couldBeSinglePageApp' \in BOOLEAN
  BY Constants DEF Scanned, Safe, TypeOK, Location
<1>7. TypeOK'
  BY <1>1, <1>2, <1>3, <1>4, <1>6 DEF Scanned, Safe, TypeOK, document
<1>8. QED
  BY <1>5, <1>7 DEF Safe, Scanned

(* The first scan knows no hash: there is no page data to have one.         *)
LEMMA StartScans ==
    ASSUME Safe, Start
    PROVE  /\ Scanned(urlHashes') /\ urlHashes' = [u \in Urls |-> None]
           /\ present \in SUBSET Pages
<1>1. \A u \in Urls : urlHashes[u] = None
  <2>1. \A k \in Keys : pages[k] = None
    <3>1. pages \in [Keys -> 0..issued] /\ issued = 0
      BY DEF Start, Safe, TypeOK
    <3>2. \A k \in Keys : pages[k] \in 0..0
      BY <3>1
    <3>3. QED
      BY <3>2 DEF None
  <2>2. QED
    BY <2>1, Constants DEF Safe, MapsInv
<1>2. urlHashes' = urlHashes /\ urlHashes = [u \in Urls |-> None]
  BY <1>1 DEF Start, Safe, TypeOK
<1>3. /\ urlHashes \in [Urls -> Keys \cup {None}]
      /\ [t \in Texts |-> None] \in [Texts -> Pages \cup {None}]
  BY DEF Safe, TypeOK
<1>4. Scanned(urlHashes)
  BY <1>3, ScanBuilds DEF Start, Safe
<1>5. QED
  BY <1>2, <1>4 DEF Safe, TypeOK

(* A new scan has forgotten the hashes.                                     *)
LEMMA ReinitializeScans ==
    ASSUME Safe, NEW t \in Texts, Reinitialize(t)
    PROVE  /\ Scanned(urlHashes') /\ urlHashes' = [u \in Urls |-> None]
           /\ present \in SUBSET Pages
<1> DEFINE textsOf == [s \in Texts |-> IF s = t \/ InDocument(s) THEN 1 ELSE None]
           hashes == [u \in Urls |-> None]
<1>1. hashes \in [Urls -> Keys \cup {None}] /\ textsOf \in [Texts -> Pages \cup {None}]
  BY Constants
<1>2. urlHashes' = hashes /\ ScanDocument(urlHashes', textsOf)
  BY DEF Reinitialize
<1> HIDE DEF textsOf, hashes
<1>3. Scanned(urlHashes')
  BY <1>1, <1>2, ScanBuilds DEF Safe
<1>4. QED
  BY <1>2, <1>3 DEF Safe, TypeOK, hashes

(* The first scan keeps the maps in step.                                   *)
LEMMA SafeStart == ASSUME Safe, Start PROVE Safe'
BY StartScans, ScanKeepsSafe DEF Start

(* A new scan does.                                                         *)
LEMMA SafeReinitialize == ASSUME Safe, NEW t \in Texts, Reinitialize(t) PROVE Safe'
BY ReinitializeScans, ScanKeepsSafe DEF Reinitialize

(* A page element that is added only adds page data.                        *)
LEMMA SafePageAdded == ASSUME Safe, NEW p \in Pages, PageAdded(p) PROVE Safe'
<1> DEFINE us == {urlOf[p]}
           key == KeyOf(urlHashes, urlOf[p])
<1>1. /\ Load({p}) /\ Register(pages, urlHashes, us)
      /\ bound' = [bound EXCEPT ![p] = pages'[key]]
      /\ present' = present \cup {p} /\ couldBeSinglePageApp' = FALSE
      /\ UNCHANGED <<host, urlHashes, summaryLoaded, texts, urlOf, failed, original>>
  BY DEF PageAdded
<1>2. us \in SUBSET Urls /\ key \in Keys
  BY KeysOfUrls DEF Safe, TypeOK
<1> HIDE DEF us, key
<1>3. /\ Registered(pages, {KeyOf(urlHashes, u) : u \in us}) /\ MapsInv'
      /\ \A k \in Keys : elements[k] = IF pages'[k] = None THEN {}
                                       ELSE {t \in Texts : owner[t] = pages'[k]}
  BY <1>1, <1>2, LookupKeepsMaps
<1>4. ElementsInv' /\ TextHashesDiffer'
  BY <1>1, <1>3 DEF Safe, texts, ElementsInv, TextHashesDiffer, InDocument
<1>5. notInView' \subseteq Pages /\ loads' \in [Urls -> 0..MaxLoads]
  BY <1>1, LoadAsks DEF Safe
<1>6. /\ issued' \in issued..MaxObjects /\ pages' \in [Keys -> 0..issued']
      /\ pageHash' \in [Objects -> Keys \cup {None}]
  BY <1>3 DEF Registered
<1>7. issued \in Nat /\ 0..issued \subseteq 0..issued' /\ 1..issued \subseteq 1..issued'
      /\ issued' \in 0..MaxObjects
  BY <1>6, Constants DEF Safe, TypeOK
<1>8. bound' \in [Pages -> 0..issued'] /\ owner' \in [Texts -> 0..issued']
  BY <1>1, <1>2, <1>6, <1>7 DEF Safe, TypeOK, texts
<1>9. summaryLoaded' \subseteq 1..issued'
  BY <1>1, <1>7 DEF Safe, TypeOK
<1>10. TypeOK'
  BY <1>1, <1>5, <1>6, <1>7, <1>8, <1>9 DEF Safe, TypeOK, texts
<1>11. QED
  BY <1>3, <1>4, <1>10 DEF Safe

(* A text element that is added takes an increment that none of its page's   *)
(* texts has.                                                                 *)
LEMMA SafeTextAdded ==
    ASSUME Safe, NEW t \in Texts, NEW p \in Pages, TextAdded(t, p) PROVE Safe'
<1>1. CASE Reinitialize(t)
  BY <1>1, SafeReinitialize
<1>2. CASE ~Reinitialize(t)
  <2> DEFINE us == {urlOf[p]}
             key == KeyOf(urlHashes, urlOf[p])
             o == pages'[key]
  <2>1. /\ ~InDocument(t) /\ Register(pages, urlHashes, us)
        /\ owner' = [owner EXCEPT ![t] = o]
        /\ increment' = [increment EXCEPT ![t] = HashText(pageHash'[o])]
        /\ elements' = [elements EXCEPT ![pageHash'[o]] = @ \cup {t}]
        /\ UNCHANGED <<host, urlHashes, summaryLoaded, bound, document, network, app>>
    BY <1>2 DEF TextAdded
  <2>2. us \in SUBSET Urls /\ key \in Keys /\ key \in {KeyOf(urlHashes, u) : u \in us}
    BY KeysOfUrls DEF Safe, TypeOK
  <2> HIDE DEF us, key
  <2>3. /\ Registered(pages, {KeyOf(urlHashes, u) : u \in us}) /\ MapsInv'
        /\ \A k \in Keys : elements[k] = IF pages'[k] = None THEN {}
                                         ELSE {s \in Texts : owner[s] = pages'[k]}
    BY <2>1, <2>2, LookupKeepsMaps
  <2>4. /\ issued' \in issued..MaxObjects /\ pages' \in [Keys -> 0..issued']
        /\ pageHash' \in [Objects -> Keys \cup {None}]
    BY <2>3 DEF Registered
  <2>5. issued \in Nat /\ 0..issued \subseteq 0..issued' /\ 1..issued \subseteq 1..issued'
        /\ issued' \in 0..MaxObjects
    BY <2>4, Constants DEF Safe, TypeOK
  <2>6. o # None /\ o \in 0..issued' /\ pageHash'[o] = key
    <3>1. o # None
      <4>1. CASE pages[key] = None
        <5>1. o \in (issued + 1)..issued'
          BY <2>2, <2>3, <4>1 DEF Registered
        <5>2. QED
          BY <2>5, <5>1 DEF None
      <4>2. CASE pages[key] # None
        BY <2>2, <2>3, <4>2 DEF Registered
      <4>3. QED
        BY <4>1, <4>2
    <3>2. QED
      BY <2>2, <2>3, <2>4, <3>1 DEF MapsInv
  <2> HIDE DEF o
  <2>7. /\ HashText(key) \in 0..NTexts
        /\ \A s \in elements[key] : increment[s] # HashText(key)
    BY <2>2, HashTextFree DEF Safe
  <2>8. elements[key] = {s \in Texts : owner[s] = o}
    BY <2>2, <2>3, <2>6 DEF o
  <2>9. /\ owner' = [owner EXCEPT ![t] = o]
        /\ increment' = [increment EXCEPT ![t] = HashText(key)]
        /\ elements' = [elements EXCEPT ![key] = @ \cup {t}]
    BY <2>1, <2>6
  <2>10. /\ owner \in [Texts -> 0..issued] /\ increment \in [Texts -> 0..NTexts]
         /\ elements \in [Keys -> SUBSET Texts]
    BY DEF Safe, TypeOK
  <2>11. /\ owner' \in [Texts -> 0..issued'] /\ increment' \in [Texts -> 0..NTexts]
         /\ elements' \in [Keys -> SUBSET Texts]
    BY <2>2, <2>5, <2>6, <2>7, <2>9, <2>10
  <2>12. summaryLoaded' \subseteq 1..issued' /\ bound' \in [Pages -> 0..issued']
    BY <2>1, <2>5 DEF Safe, TypeOK
  <2>13. TypeOK'
    BY <2>1, <2>4, <2>5, <2>11, <2>12 DEF Safe, TypeOK, document, network, app
  <2>14. ElementsInv'
    <3>1. ASSUME NEW k \in Keys
          PROVE  elements'[k] = IF pages'[k] = None THEN {}
                                ELSE {s \in Texts : owner'[s] = pages'[k]}
      <4>1. CASE k = key
        <5>1. elements'[key] = elements[key] \cup {t} /\ pages'[key] = o
          BY <2>2, <2>9, <2>10 DEF o
        <5>2. \A s \in Texts : owner'[s] = o <=> s = t \/ owner[s] = o
          BY <2>9, <2>10
        <5>3. QED
          BY <2>6, <2>8, <4>1, <5>1, <5>2
      <4>2. CASE k # key
        <5>1. elements'[k] = elements[k]
          BY <2>9, <2>10, <4>2
        <5>2. pages'[k] # None => pages'[k] # o
          BY <2>3, <2>6, <4>2 DEF MapsInv
        <5>3. \A s \in Texts : pages'[k] # None =>
                  (owner'[s] = pages'[k] <=> owner[s] = pages'[k])
          <6>1. owner[t] = None /\ owner'[t] = o /\ \A s \in Texts : s # t => owner'[s] = owner[s]
            BY <2>1, <2>9, <2>10 DEF InDocument
          <6>2. QED
            BY <5>2, <6>1
        <5>4. QED
          BY <2>3, <5>1, <5>3
      <4>3. QED
        BY <4>1, <4>2
    <3>2. QED
      BY <3>1 DEF ElementsInv
  <2>15. TextHashesDiffer'
    <3> SUFFICES ASSUME NEW r \in Texts, NEW s \in Texts, r # s, owner'[r] # None,
                        owner'[r] = owner'[s]
                 PROVE  increment'[r] # increment'[s]
      BY DEF TextHashesDiffer, InDocument
    <3>1. CASE r # t /\ s # t
      BY <2>9, <2>10, <3>1 DEF Safe, TextHashesDiffer, InDocument
    <3>2. CASE r = t
      <4>1. s \in elements[key] /\ increment'[s] = increment[s] /\ increment'[r] = HashText(key)
        BY <2>8, <2>9, <2>10, <3>2
      <4>2. QED
        BY <2>7, <4>1
    <3>3. CASE s = t
      <4>1. r \in elements[key] /\ increment'[r] = increment[r] /\ increment'[s] = HashText(key)
        BY <2>8, <2>9, <2>10, <3>3
      <4>2. QED
        BY <2>7, <4>1
    <3>4. QED
      BY <3>1, <3>2, <3>3
  <2>16. QED
    BY <2>3, <2>13, <2>14, <2>15 DEF Safe
<1>3. QED
  BY <1>1, <1>2

(* A text element is taken from its object's elements and from no others.   *)
LEMMA SafeTextRemoved == ASSUME Safe, NEW t \in Texts, TextRemoved(t) PROVE Safe'
<1> DEFINE key == pageHash[owner[t]]
<1>1. /\ owner[t] # None
      /\ elements' = [elements EXCEPT ![key] = @ \ {t}]
      /\ owner' = [owner EXCEPT ![t] = None]
      /\ increment' = [increment EXCEPT ![t] = 0]
      /\ UNCHANGED <<host, registry, bound, document, network, app>>
  BY DEF TextRemoved, InDocument
<1>2. /\ owner \in [Texts -> 0..issued] /\ increment \in [Texts -> 0..NTexts]
      /\ elements \in [Keys -> SUBSET Texts] /\ issued \in Nat
  BY Constants DEF Safe, TypeOK
<1>3. \A k \in Keys : pages[k] = owner[t] => k = key
  BY <1>1 DEF Safe, MapsInv
<1> HIDE DEF key
<1>4. /\ \A k \in Keys : elements'[k] = IF k = key THEN elements[k] \ {t} ELSE elements[k]
      /\ \A s \in Texts : owner'[s] = IF s = t THEN None ELSE owner[s]
      /\ \A s \in Texts : s # t => increment'[s] = increment[s]
  BY <1>1, <1>2
<1>5. ElementsInv'
  <2>1. ASSUME NEW k \in Keys
        PROVE  elements'[k] = IF pages[k] = None THEN {}
                              ELSE {s \in Texts : owner'[s] = pages[k]}
    <3>1. elements[k] = IF pages[k] = None THEN {} ELSE {s \in Texts : owner[s] = pages[k]}
      BY DEF Safe, ElementsInv
    <3>2. t \in elements[k] => k = key
      BY <1>3, <3>1
    <3>3. elements'[k] = elements[k] \ {t}
      BY <1>4, <3>2
    <3>4. \A s \in Texts : pages[k] # None =>
              (owner'[s] = pages[k] <=> s # t /\ owner[s] = pages[k])
      BY <1>4
    <3>5. QED
      BY <3>1, <3>3, <3>4
  <2>2. QED
    BY <1>1, <2>1 DEF ElementsInv, registry
<1>6. TextHashesDiffer'
  BY <1>4 DEF Safe, TextHashesDiffer, InDocument
<1>7. MapsInv'
  BY <1>1 DEF Safe, MapsInv, registry
<1>8. /\ owner' \in [Texts -> 0..issued] /\ increment' \in [Texts -> 0..NTexts]
      /\ elements' \in [Keys -> SUBSET Texts]
  <2>1. None \in 0..issued /\ 0 \in 0..NTexts
    BY <1>2, Constants DEF None
  <2>2. \A k \in Keys : elements[k] \ {t} \in SUBSET Texts
    BY <1>2
  <2>3. elements' \in [Keys -> SUBSET Texts]
    BY <1>1, <1>2, <2>2
  <2>4. QED
    BY <1>1, <1>2, <2>1, <2>3
<1>9. TypeOK'
  BY <1>1, <1>8 DEF Safe, TypeOK, registry, document, network, app
<1>10. QED
  BY <1>5, <1>6, <1>7, <1>9 DEF Safe

(* The object under the requested URL moves to the hash with its elements;   *)
(* without one, the object under the hash stays, or a new one is created.    *)
LEMMA PageHashArrivesCases ==
    ASSUME Safe, NEW u \in Urls, PageHashArrives(u), UNCHANGED <<owner, increment>>
    PROVE  /\ MapsInv' /\ ElementsInv' /\ TextHashesDiffer' /\ issued' \in issued..MaxObjects
           /\ pages' \in [Keys -> 0..issued'] /\ pageHash' \in [Objects -> Keys \cup {None}]
           /\ urlHashes' \in [Urls -> Keys \cup {None}] /\ elements' \in [Keys -> SUBSET Texts]
           /\ pages'[HashOf[u]] # None
<1> DEFINE h == HashOf[u]
<1>1. /\ h \in Keys /\ h \notin Urls /\ u \in Keys /\ h # u /\ h # None
      /\ issued \in Nat /\ issued <= MaxObjects /\ MaxObjects \in Nat
      /\ pages \in [Keys -> 0..issued] /\ pageHash \in [Objects -> Keys \cup {None}]
      /\ urlHashes \in [Urls -> Keys \cup {None}] /\ elements \in [Keys -> SUBSET Texts]
      /\ owner \in [Texts -> 0..issued] /\ Urls \subseteq Keys
      /\ \A v \in Urls : HashOf[v] \in Keys \ Urls
  BY Constants DEF Safe, TypeOK
<1>2. \A k \in Keys : pages[k] # None => pageHash[pages[k]] = k /\ pages[k] \in Objects
  <2>1. \A k \in Keys : pages[k] # None => pages[k] \in Objects
    BY <1>1 DEF Objects, None
  <2>2. QED
    BY <2>1 DEF Safe, MapsInv
<1>3. urlHashes' = [urlHashes EXCEPT ![u] = h]
  BY DEF PageHashArrives
<1>4. urlHashes' \in [Urls -> Keys \cup {None}]
  BY <1>1, <1>3
<1>5. \A v \in Urls : urlHashes[v] # None =>
          urlHashes[v] = HashOf[v] /\ pages[v] = None /\ pages[HashOf[v]] # None
  BY DEF Safe, MapsInv
<1>6. \A k \in Keys : elements[k] = IF pages[k] = None THEN {}
                                    ELSE {t \in Texts : owner[t] = pages[k]}
  BY DEF Safe, ElementsInv
<1>7. TextHashesDiffer' /\ owner' = owner
  BY DEF Safe, TextHashesDiffer, InDocument
<1> HIDE DEF h
<1>8. CASE pages[u] # None
  <2>1. /\ pages' = [pages EXCEPT ![h] = pages[u], ![u] = None]
        /\ pageHash' = [pageHash EXCEPT ![pages[u]] = h]
        /\ elements' = [elements EXCEPT ![h] = elements[u], ![u] = {}]
        /\ issued' = issued
    BY <1>8 DEF PageHashArrives, h
  <2>2. \A k \in Keys :
            /\ pages'[k] = IF k = u THEN None ELSE IF k = h THEN pages[u] ELSE pages[k]
            /\ elements'[k] = IF k = u THEN {} ELSE IF k = h THEN elements[u] ELSE elements[k]
    BY <1>1, <2>1
  <2>3. \A o \in Objects : pageHash'[o] = IF o = pages[u] THEN h ELSE pageHash[o]
    BY <1>1, <2>1
  <2>4. \A k \in Keys : pages'[k] # None => pageHash'[pages'[k]] = k
    <3>1. ASSUME NEW k \in Keys, pages'[k] # None PROVE pageHash'[pages'[k]] = k
      <4>1. CASE k = h
        BY <1>1, <1>2, <1>8, <2>2, <2>3, <4>1
      <4>2. CASE k # h
        <5>1. k # u /\ pages'[k] = pages[k]
          BY <2>2, <3>1, <4>2
        <5>2. pages[k] # pages[u]
          BY <1>1, <1>2, <1>8, <5>1
        <5>3. QED
          BY <1>2, <2>3, <3>1, <5>1, <5>2
      <4>3. QED
        BY <4>1, <4>2
    <3>2. QED
      BY <3>1
  <2>5. ASSUME NEW v \in Urls, urlHashes'[v] # None
        PROVE  urlHashes'[v] = HashOf[v] /\ pages'[v] = None /\ pages'[HashOf[v]] # None
    <3>1. CASE v = u
      BY <1>1, <1>3, <1>8, <2>2, <3>1 DEF h
    <3>2. CASE v # u
      <4>1. urlHashes'[v] = urlHashes[v] /\ v # h /\ HashOf[v] # u
        BY <1>1, <1>3, <3>2
      <4>2. QED
        BY <1>1, <1>5, <1>8, <2>2, <2>5, <3>2, <4>1
    <3>3. QED
      BY <3>1, <3>2
  <2>6. MapsInv'
    BY <2>4, <2>5 DEF MapsInv
  <2>7. ElementsInv'
    <3>1. ASSUME NEW k \in Keys
          PROVE  elements'[k] = IF pages'[k] = None THEN {}
                                ELSE {t \in Texts : owner[t] = pages'[k]}
      <4>1. CASE k = u
        BY <2>2, <4>1
      <4>2. CASE k = h
        BY <1>1, <1>6, <1>8, <2>2, <4>2, ZenonT(60)
      <4>3. CASE k # u /\ k # h
        BY <1>6, <2>2, <4>3
      <4>4. QED
        BY <4>1, <4>2, <4>3
    <3>2. QED
      BY <1>7, <3>1 DEF ElementsInv
  <2>8. pages' \in [Keys -> 0..issued'] /\ issued' \in issued..MaxObjects
    <3>1. \A k \in Keys : pages'[k] \in 0..issued'
      BY <1>1, <2>1, <2>2 DEF None
    <3>2. QED
      BY <1>1, <2>1, <3>1
  <2>9. pageHash' \in [Objects -> Keys \cup {None}]
    BY <1>1, <2>1
  <2>10. elements' \in [Keys -> SUBSET Texts]
    BY <1>1, <2>1, <2>2
  <2>11. QED
    BY <1>1, <1>4, <1>7, <1>8, <2>2, <2>6, <2>7, <2>8, <2>9, <2>10 DEF h
<1>9. CASE pages[u] = None /\ pages[h] # None
  <2>1. UNCHANGED <<pages, pageHash, issued, elements>>
    BY <1>9 DEF PageHashArrives, h
  <2>2. ASSUME NEW v \in Urls, urlHashes'[v] # None
        PROVE  urlHashes'[v] = HashOf[v] /\ pages'[v] = None /\ pages'[HashOf[v]] # None
    <3>1. CASE v = u
      BY <1>1, <1>3, <1>9, <2>1, <3>1 DEF h
    <3>2. CASE v # u
      BY <1>1, <1>3, <1>5, <2>1, <2>2, <3>2
    <3>3. QED
      BY <3>1, <3>2
  <2>3. MapsInv'
    BY <1>2, <2>1, <2>2 DEF MapsInv
  <2>4. ElementsInv'
    BY <1>6, <1>7, <2>1 DEF ElementsInv
  <2>5. QED
    BY <1>1, <1>4, <1>7, <1>9, <2>1, <2>3, <2>4 DEF h
<1>10. CASE pages[u] = None /\ pages[h] = None
  <2>1. /\ issued < MaxObjects /\ issued' = issued + 1
        /\ pages' = [pages EXCEPT ![h] = issued']
        /\ pageHash' = [pageHash EXCEPT ![issued'] = h]
        /\ elements' = elements
    BY <1>10 DEF PageHashArrives, h
  <2>2. issued' \in Objects /\ issued' # None /\ \A i \in 0..issued : i # issued'
    BY <1>1, <2>1 DEF Objects, None
  <2>3. \A k \in Keys : pages'[k] = IF k = h THEN issued' ELSE pages[k]
    BY <1>1, <2>1
  <2>4. \A o \in Objects : pageHash'[o] = IF o = issued' THEN h ELSE pageHash[o]
    BY <1>1, <2>1
  <2>5. \A k \in Keys : pages'[k] # None => pageHash'[pages'[k]] = k
    BY <1>1, <1>2, <2>2, <2>3, <2>4
  <2>6. ASSUME NEW v \in Urls, urlHashes'[v] # None
        PROVE  urlHashes'[v] = HashOf[v] /\ pages'[v] = None /\ pages'[HashOf[v]] # None
    <3>1. CASE v = u
      BY <1>1, <1>3, <1>10, <2>2, <2>3, <3>1 DEF h
    <3>2. CASE v # u
      <4>1. urlHashes'[v] = urlHashes[v] /\ v # h
        BY <1>1, <1>3, <3>2
      <4>2. QED
        BY <1>1, <1>5, <2>2, <2>3, <2>6, <4>1
    <3>3. QED
      BY <3>1, <3>2
  <2>7. MapsInv'
    BY <2>5, <2>6 DEF MapsInv
  <2>8. ElementsInv'
    <3>1. \A t \in Texts : owner[t] # issued'
      BY <1>1, <2>2
    <3>2. ASSUME NEW k \in Keys
          PROVE  elements'[k] = IF pages'[k] = None THEN {}
                                ELSE {t \in Texts : owner[t] = pages'[k]}
      <4>1. CASE k = h
        <5>1. elements'[k] = {} /\ pages'[k] = issued'
          BY <1>6, <1>10, <2>1, <2>3, <4>1
        <5>2. QED
          BY <3>1, <5>1
      <4>2. CASE k # h
        BY <1>6, <2>1, <2>3, <4>2
      <4>3. QED
        BY <4>1, <4>2
    <3>3. QED
      BY <1>7, <3>2 DEF ElementsInv
  <2>9. pages' \in [Keys -> 0..issued'] /\ issued' \in issued..MaxObjects
    <3>1. 0..issued \subseteq 0..issued' /\ issued' \in 0..issued' /\ issued' \in issued..MaxObjects
      BY <1>1, <2>1
    <3>2. \A k \in Keys : pages'[k] \in 0..issued'
      BY <1>1, <2>3, <3>1
    <3>3. QED
      BY <1>1, <2>1, <3>1, <3>2
  <2>10. pageHash' \in [Objects -> Keys \cup {None}]
    BY <1>1, <2>1
  <2>11. QED
    BY <1>1, <1>4, <1>7, <2>1, <2>2, <2>3, <2>7, <2>8, <2>9, <2>10 DEF h
<1>11. QED
  BY <1>8, <1>9, <1>10

(* A response does, whether the page data has to move or not.               *)
LEMMA SafeResponseArrives == ASSUME Safe, NEW u \in Urls, ResponseArrives(u) PROVE Safe'
<1>1. /\ loads[u] > 0 /\ loads' = [loads EXCEPT ![u] = @ - 1] /\ PageHashArrives(u)
      /\ summaryLoaded' = summaryLoaded \cup {pages'[HashOf[u]]}
      /\ UNCHANGED <<host, increment, owner, bound, document, notInView, failed, app>>
  BY DEF ResponseArrives
<1>2. loads' \in [Urls -> 0..MaxLoads]
  BY <1>1, Constants DEF Safe, TypeOK
<1>3. HashOf[u] \in Keys
  BY Constants
<1>4. /\ MapsInv' /\ ElementsInv' /\ TextHashesDiffer' /\ issued' \in issued..MaxObjects
      /\ pages' \in [Keys -> 0..issued'] /\ pageHash' \in [Objects -> Keys \cup {None}]
      /\ urlHashes' \in [Urls -> Keys \cup {None}] /\ elements' \in [Keys -> SUBSET Texts]
      /\ pages'[HashOf[u]] # None
  BY <1>1, PageHashArrivesCases
<1>5. issued \in Nat /\ 0..issued \subseteq 0..issued' /\ 1..issued \subseteq 1..issued'
      /\ issued' \in 0..MaxObjects
  <2>1. issued \in Nat /\ MaxObjects \in Nat /\ issued' \in issued..MaxObjects
    BY <1>4, Constants DEF Safe, TypeOK
  <2>2. QED
    BY <2>1
<1>6. summaryLoaded' \subseteq 1..issued'
  <2>1. pages'[HashOf[u]] \in 1..issued'
    <3>1. pages'[HashOf[u]] \in 0..issued' /\ pages'[HashOf[u]] # 0
      BY <1>3, <1>4 DEF None
    <3>2. QED
      BY <1>5, <3>1
  <2>2. QED
    BY <1>1, <1>5, <2>1 DEF Safe, TypeOK
<1>7. bound' \in [Pages -> 0..issued'] /\ owner' \in [Texts -> 0..issued']
  BY <1>1, <1>5 DEF Safe, TypeOK
<1>8. TypeOK'
  BY <1>1, <1>2, <1>4, <1>5, <1>6, <1>7 DEF Safe, TypeOK, document, app
<1>9. QED
  BY <1>4, <1>8 DEF Safe

(* A request that fails changes no map.                                     *)
LEMMA SafeLoadFails == ASSUME Safe, NEW u \in Urls, LoadFails(u) PROVE Safe'
<1>1. /\ loads[u] > 0 /\ loads' = [loads EXCEPT ![u] = @ - 1] /\ failed' = failed \cup {u}
      /\ UNCHANGED <<host, registry, texts, bound, document, notInView, app>>
  BY DEF LoadFails
<1>2. loads' \in [Urls -> 0..MaxLoads]
  BY <1>1, Constants DEF Safe, TypeOK
<1>3. TypeOK'
  BY <1>1, <1>2 DEF Safe, TypeOK, registry, texts, document, app
<1>4. QED
  BY <1>1, <1>3, SafeStutters DEF Safe

(* Neither does the reader.                                                 *)
LEMMA SafeComesIntoView == ASSUME Safe, NEW p \in Pages, ComesIntoView(p) PROVE Safe'
<1>1. /\ loads[urlOf[p]] < MaxLoads /\ notInView' = notInView \ {p}
      /\ loads' = [loads EXCEPT ![urlOf[p]] = @ + 1]
      /\ UNCHANGED <<host, registry, texts, bound, document, failed, app>>
  BY DEF ComesIntoView
<1>2. loads' \in [Urls -> 0..MaxLoads]
  <2>1. /\ loads \in [Urls -> 0..MaxLoads] /\ MaxLoads \in Nat
        /\ loads[urlOf[p]] < MaxLoads
    BY <1>1, Constants DEF Safe, TypeOK
  <2>2. urlOf[p] \in Urls
    BY DEF Safe, TypeOK
  <2>3. loads[urlOf[p]] + 1 \in 0..MaxLoads
    BY <2>1, <2>2
  <2>4. QED
    BY <1>1, <2>1, <2>3
<1>3. TypeOK'
  BY <1>1, <1>2 DEF Safe, TypeOK, registry, texts, document, app
<1>4. QED
  BY <1>1, <1>3, SafeStutters DEF Safe

(* Neither does an app that changes its URL.                                *)
LEMMA SafeHostNavigates == ASSUME Safe, NEW u \in Urls, HostNavigates(u) PROVE Safe'
<1>1. /\ urlOf' = [urlOf EXCEPT ![1] = u]
      /\ UNCHANGED <<host, registry, texts, bound, present, network, app>>
  BY DEF HostNavigates
<1>2. TypeOK'
  BY <1>1 DEF Safe, TypeOK, registry, texts, network, app
<1>3. QED
  BY <1>1, <1>2, SafeStutters DEF Safe

(* A step that changes nothing keeps them in step.                          *)
LEMMA SafeUnchanged == ASSUME Safe, UNCHANGED vars PROVE Safe'
<1>1. TypeOK'
  BY DEF Safe, TypeOK, vars, registry, texts, document, network, app
<1>2. QED
  BY <1>1, SafeStutters DEF Safe, vars

(* Every step does.                                                         *)
LEMMA SafeStep == ASSUME Safe, [Next]_vars PROVE Safe'
<1>1. CASE Start
  BY <1>1, SafeStart
<1>2. ASSUME NEW p \in Pages, PageAdded(p) PROVE Safe'
  BY <1>2, SafePageAdded
<1>3. ASSUME NEW p \in Pages, ComesIntoView(p) PROVE Safe'
  BY <1>3, SafeComesIntoView
<1>4. ASSUME NEW t \in Texts, NEW p \in Pages, TextAdded(t, p) PROVE Safe'
  BY <1>4, SafeTextAdded
<1>5. ASSUME NEW t \in Texts, TextRemoved(t) PROVE Safe'
  BY <1>5, SafeTextRemoved
<1>6. ASSUME NEW u \in Urls, ResponseArrives(u) PROVE Safe'
  BY <1>6, SafeResponseArrives
<1>7. ASSUME NEW u \in Urls, LoadFails(u) PROVE Safe'
  BY <1>7, SafeLoadFails
<1>8. ASSUME NEW u \in Urls, HostNavigates(u) PROVE Safe'
  BY <1>8, SafeHostNavigates
<1>9. CASE UNCHANGED vars
  BY <1>9, SafeUnchanged
<1>10. QED
  BY <1>1, <1>2, <1>3, <1>4, <1>5, <1>6, <1>7, <1>8, <1>9 DEF Next

(* So they always are.                                                      *)
LEMMA SafeAlways == Spec => []Safe
BY SafeInit, SafeStep, PTL DEF Spec

(* The map of elements finds every text element of an object that is under   *)
(* its own key.                                                               *)
LEMMA SafeFinds == Safe => ElementsFound
<1> SUFFICES ASSUME Safe, NEW o \in Objects, pageHash[o] # None, pages[pageHash[o]] = o
             PROVE  elements[pageHash[o]] = {t \in Texts : owner[t] = o}
  BY DEF ElementsFound
<1>1. pageHash[o] \in Keys /\ o # None
  <2>1. pageHash[o] \in Keys
    BY DEF Safe, TypeOK
  <2>2. o # None
    BY Constants DEF Objects, None
  <2>3. QED
    BY <2>1, <2>2
<1>2. QED
  BY <1>1 DEF Safe, ElementsInv

(* Every variable keeps its type; in particular Register and the look-up of   *)
(* a free increment always find one.                                          *)
THEOREM RegistryTypeCorrect == Spec => []TypeOK
BY SafeAlways, PTL DEF Safe

(* Every text element in the document is found under the hash of the page     *)
(* data it is bound to, and a removed one is not, however the responses,      *)
(* mutations and navigations are interleaved and whatever hashes the server   *)
(* computes (hashed-elements.js:54-59).                                        *)
THEOREM ElementsAreFound == Spec => []ElementsFound
BY SafeAlways, SafeFinds, PTL

(* Two texts of one page never share a hash, and so never share reactions     *)
(* (page-scanner.js:442-447).                                                  *)
THEOREM TextsHaveTheirOwnHash == Spec => []TextHashesDiffer
BY SafeAlways, PTL DEF Safe

-----------------------------------------------------------------------------
(* The location, and what page elements are bound to                        *)

(* At first the location is that of the scan, and nobody has scrolled.      *)
LEMMA HostInit == Init => HostInv
BY DEF Init, HostInv, Location

(* HostInv is kept by every step, given that the maps are in step.          *)
LEMMA HostStep == ASSUME Safe, HostInv, [Next]_vars PROVE HostInv'
<1>1. ASSUME NEW ps \in SUBSET Pages, Load(ps), Scanned(urlHashes'), UNCHANGED <<host, document>>
      PROVE  HostInv'
  BY <1>1, LoadAsks DEF Safe, HostInv, Scanned, document, Location
<1>2. CASE Start
  BY <1>1, <1>2, StartScans DEF Start
<1>3. ASSUME NEW p \in Pages, PageAdded(p) PROVE HostInv'
  BY <1>3 DEF PageAdded, HostInv, Location
<1>4. ASSUME NEW p \in Pages, ComesIntoView(p) PROVE HostInv'
  BY <1>4 DEF ComesIntoView, HostInv, Location, document, app
<1>5. ASSUME NEW t \in Texts, NEW p \in Pages, TextAdded(t, p) PROVE HostInv'
  <2>1. CASE Reinitialize(t)
    BY <1>1, <2>1, ReinitializeScans DEF Reinitialize
  <2>2. CASE ~Reinitialize(t)
    BY <1>5, <2>2 DEF TextAdded, HostInv, Location, document, network, app
  <2>3. QED
    BY <2>1, <2>2
<1>6. ASSUME NEW t \in Texts, TextRemoved(t) PROVE HostInv'
  BY <1>6 DEF TextRemoved, HostInv, Location, document, network, app
<1>7. ASSUME NEW u \in Urls, ResponseArrives(u) PROVE HostInv'
  BY <1>7 DEF ResponseArrives, HostInv, Location, document, app
<1>8. ASSUME NEW u \in Urls, LoadFails(u) PROVE HostInv'
  BY <1>8 DEF LoadFails, HostInv, Location, document, app
<1>9. ASSUME NEW u \in Urls, HostNavigates(u) PROVE HostInv'
  <2>1. host = "app" /\ host' = "app"
    BY <1>9 DEF HostNavigates
  <2>2. UNCHANGED <<network, app>>
    BY <1>9 DEF HostNavigates
  <2>3. QED
    BY <2>1, <2>2 DEF HostInv, network, app
<1>10. CASE UNCHANGED vars
  BY <1>10 DEF vars, HostInv, Location, document, network, app
<1>11. QED
  BY <1>2, <1>3, <1>4, <1>5, <1>6, <1>7, <1>8, <1>9, <1>10 DEF Next

(* A look-up leaves every key that has an object alone.                      *)
LEMMA LookupKeepsObjects ==
    ASSUME Safe, NEW us \in SUBSET Urls, Register(pages, urlHashes, us), urlHashes' = urlHashes
    PROVE  /\ \A k \in Keys : pages[k] # None => pages'[k] = pages[k]
           /\ \A u \in us : KeyOf(urlHashes, u) \in Keys /\ pages'[KeyOf(urlHashes, u)] # None
<1> DEFINE asked == {KeyOf(urlHashes, u) : u \in us}
<1>1. Registered(pages, asked)
  BY LookupKeepsMaps
<1>2. \A u \in us : KeyOf(urlHashes, u) \in asked /\ KeyOf(urlHashes, u) \in Keys
  BY KeysOfUrls DEF Safe
<1> HIDE DEF asked
<1>3. issued \in Nat
  BY Constants DEF Safe, TypeOK
<1>4. \A k \in Keys : pages[k] # None => pages'[k] = pages[k]
  BY <1>1 DEF Registered
<1>5. \A k \in asked \cap Keys : pages'[k] # None
  <2>1. \A n \in (issued + 1)..issued' : n # 0
    BY <1>3
  <2>2. QED
    BY <1>1, <2>1 DEF Registered, None
<1>6. QED
  BY <1>2, <1>4, <1>5

(* A page element that has a hash for itself had it so before a response.   *)
LEMMA AloneBefore ==
    ASSUME Safe, NEW u \in Urls, PageHashArrives(u), urlOf' = urlOf,
           NEW q \in Pages, Alone(q)'
    PROVE  /\ Alone(q)
           /\ urlOf[q] # u => KeyOf(urlHashes, urlOf[q]) # HashOf[u]
<1> DEFINE h == HashOf[u]
           w == urlOf[q]
<1>1. /\ w \in Urls /\ urlHashes \in [Urls -> Keys \cup {None}] /\ h # None
      /\ urlHashes' = [urlHashes EXCEPT ![u] = h] /\ urlOf'[q] = w
  BY Constants DEF Safe, TypeOK, PageHashArrives
<1>2. \A v \in Urls : urlHashes[v] # None => urlHashes[v] = HashOf[v] /\ urlHashes[v] \notin Urls
  BY Constants DEF Safe, MapsInv
<1>3. \A v \in Urls : urlHashes'[v] = KeyOf(urlHashes', w) => v = w
  BY <1>1 DEF Alone
<1>4. w # u => KeyOf(urlHashes', w) = KeyOf(urlHashes, w)
  BY <1>1 DEF KeyOf
<1>5. w # u => KeyOf(urlHashes, w) # h
  BY <1>1, <1>3, <1>4
<1>6. ASSUME NEW v \in Urls, urlHashes[v] = KeyOf(urlHashes, w) PROVE v = w
  <2>1. urlHashes[v] # None
    BY <1>1, <1>6, Constants DEF KeyOf, None
  <2>2. urlHashes[w] # None /\ KeyOf(urlHashes, w) = urlHashes[w]
    BY <1>1, <1>2, <1>6, <2>1 DEF KeyOf
  <2>3. urlHashes'[v] = urlHashes[v] /\ urlHashes'[w] = urlHashes[w]
    BY <1>1, <1>2, <2>1, <2>2
  <2>4. KeyOf(urlHashes', w) = urlHashes'[w]
    BY <2>2, <2>3 DEF KeyOf
  <2>5. QED
    BY <1>3, <1>6, <2>2, <2>3, <2>4
<1>7. QED
  BY <1>5, <1>6 DEF Alone

(* BindingKept is kept by every step: a response moves the object that is   *)
(* bound, and a page element that is bound to another one has another hash. *)
LEMMA BindingStep ==
    ASSUME Safe, HostInv, BindingKept, [Next]_vars PROVE BindingKept'
<1> SUFFICES ASSUME host = "pages", host' = "pages" PROVE BindingKept'
  <2>1. host' = host
    BY DEF Next, vars, Start, PageAdded, ComesIntoView, TextAdded, Reinitialize, TextRemoved,
           ResponseArrives, LoadFails, HostNavigates
  <2>2. QED
    BY <2>1 DEF BindingKept, Bound
<1>1. \A q \in present :
          Alone(q) /\ bound[q] # None => pages[KeyOf(urlHashes, urlOf[q])] = bound[q]
  BY DEF BindingKept, Bound
<1>2. ASSUME UNCHANGED <<present, bound, pages, urlHashes, urlOf>> PROVE BindingKept'
  BY <1>1, <1>2 DEF BindingKept, Bound, Alone, KeyOf
<1>3. /\ \A q \in Pages : KeyOf(urlHashes, urlOf[q]) \in Keys /\ urlOf[q] \in Urls
      /\ present \subseteq Pages /\ bound \in [Pages -> 0..issued]
  BY KeysOfUrls DEF Safe, TypeOK
<1>4. CASE Start
  <2>1. /\ UNCHANGED <<urlHashes, document>> /\ Scanned(urlHashes')
    BY <1>4, StartScans DEF Start
  <2>2. \A q \in present : bound'[q] = pages'[KeyOf(urlHashes', urlOf[q])]
    BY <1>3, <2>1 DEF Scanned
  <2>3. QED
    BY <2>1, <2>2 DEF BindingKept, Bound, document
<1>5. ASSUME NEW p \in Pages, PageAdded(p) PROVE BindingKept'
  <2>1. /\ Register(pages, urlHashes, {urlOf[p]}) /\ urlHashes' = urlHashes /\ urlOf' = urlOf
        /\ present' = present \cup {p}
        /\ bound' = [bound EXCEPT ![p] = pages'[KeyOf(urlHashes, urlOf[p])]]
    BY <1>5 DEF PageAdded
  <2>2. {urlOf[p]} \in SUBSET Urls
    BY <1>3
  <2>3. \A k \in Keys : pages[k] # None => pages'[k] = pages[k]
    BY <2>1, <2>2, LookupKeepsObjects
  <2>4. \A q \in present' :
            Alone(q) /\ bound'[q] # None => pages'[KeyOf(urlHashes, urlOf[q])] = bound'[q]
    BY <1>1, <1>3, <2>1, <2>3
  <2>5. \A q \in Pages : Alone(q)' <=> Alone(q)
    BY <2>1 DEF Alone
  <2>6. present' \subseteq Pages
    BY <1>3, <2>1
  <2>7. QED
    BY <2>1, <2>4, <2>5, <2>6 DEF BindingKept, Bound
<1>6. ASSUME NEW p \in Pages, ComesIntoView(p) PROVE BindingKept'
  BY <1>2, <1>6 DEF ComesIntoView, registry, document
<1>7. ASSUME NEW t \in Texts, NEW p \in Pages, TextAdded(t, p) PROVE BindingKept'
  <2>1. ~Reinitialize(t)
    BY DEF Reinitialize, ShouldReinitialize, HostInv
  <2>2. /\ Register(pages, urlHashes, {urlOf[p]})
        /\ UNCHANGED <<urlHashes, bound, document>>
    BY <1>7, <2>1 DEF TextAdded
  <2>3. {urlOf[p]} \in SUBSET Urls
    BY <1>3
  <2>4. \A k \in Keys : pages[k] # None => pages'[k] = pages[k]
    BY <2>2, <2>3, LookupKeepsObjects
  <2>5. \A q \in Pages : Alone(q)' <=> Alone(q)
    BY <2>2 DEF Alone, document
  <2>6. QED
    BY <1>1, <1>3, <2>2, <2>4, <2>5 DEF BindingKept, Bound, document
<1>8. ASSUME NEW t \in Texts, TextRemoved(t) PROVE BindingKept'
  BY <1>2, <1>8 DEF TextRemoved, registry, document
<1>9. ASSUME NEW u \in Urls, ResponseArrives(u) PROVE BindingKept'
  <2> DEFINE h == HashOf[u]
  <2>1. /\ PageHashArrives(u) /\ UNCHANGED <<bound, document>>
        /\ urlHashes' = [urlHashes EXCEPT ![u] = h]
    BY <1>9 DEF ResponseArrives, PageHashArrives
  <2>2. /\ h \in Keys /\ h # None /\ u \in Keys /\ u \notin {None, h}
        /\ Urls \subseteq Keys /\ \A v \in Urls : v # h /\ HashOf[v] \in Keys /\ HashOf[v] # u
        /\ pages \in [Keys -> 0..issued] /\ urlHashes \in [Urls -> Keys \cup {None}]
    BY Constants DEF Safe, TypeOK
  <2>3. \A k \in Keys \ {u, h} : pages'[k] = pages[k]
    BY <2>1, <2>2 DEF PageHashArrives
  <2>4. ASSUME NEW q \in present, Alone(q)', bound[q] # None
        PROVE  pages'[KeyOf(urlHashes', urlOf[q])] = bound[q]
    <3> q \in Pages /\ urlOf' = urlOf
      BY <1>3, <2>1 DEF document
    <3>1. urlOf[q] \in Urls /\ pages[KeyOf(urlHashes, urlOf[q])] = bound[q]
      BY <1>1, <1>3, <2>1, <2>4, AloneBefore
    <3>2. urlHashes[urlOf[q]] # None => urlHashes[urlOf[q]] = HashOf[urlOf[q]]
                                        /\ pages[urlOf[q]] = None
      BY <3>1 DEF Safe, MapsInv
    <3>3. CASE urlOf[q] = u
      <4>1. KeyOf(urlHashes', urlOf[q]) = h
        BY <2>1, <2>2, <3>3 DEF KeyOf
      <4>2. CASE pages[u] # None
        <5>1. urlHashes[u] = None
          BY <3>2, <3>3, <4>2
        <5>2. pages[u] = bound[q] /\ pages'[h] = pages[u]
          BY <2>1, <2>2, <3>1, <3>3, <4>2, <5>1 DEF KeyOf, PageHashArrives
        <5>3. QED
          BY <4>1, <5>2
      <4>3. CASE pages[u] = None
        <5>1. pages[h] = bound[q]
          BY <2>4, <3>1, <3>2, <3>3, <4>3 DEF KeyOf
        <5>2. pages'[h] = pages[h]
          BY <2>1, <2>4, <4>3, <5>1 DEF PageHashArrives
        <5>3. QED
          BY <4>1, <5>1, <5>2
      <4>4. QED
        BY <4>2, <4>3
    <3>4. CASE urlOf[q] # u
      <4>1. KeyOf(urlHashes', urlOf[q]) = KeyOf(urlHashes, urlOf[q])
        BY <2>1, <2>2, <3>1, <3>4 DEF KeyOf
      <4>2. KeyOf(urlHashes, urlOf[q]) # h
        BY <2>1, <2>4, <3>4, AloneBefore
      <4>3. KeyOf(urlHashes, urlOf[q]) \in Keys \ {u, h}
        BY <1>3, <2>2, <3>1, <3>2, <3>4, <4>2 DEF KeyOf
      <4>4. QED
        BY <2>3, <3>1, <4>1, <4>3
    <3>5. QED
      BY <3>3, <3>4
  <2>5. QED
    BY <2>1, <2>4 DEF BindingKept, Bound, document
<1>10. ASSUME NEW u \in Urls, LoadFails(u) PROVE BindingKept'
  BY <1>2, <1>10 DEF LoadFails, registry, document
<1>11. ASSUME NEW u \in Urls, HostNavigates(u) PROVE BindingKept'
  BY <1>11 DEF HostNavigates
<1>12. CASE UNCHANGED vars
  BY <1>2, <1>12 DEF vars, registry, document
<1>13. QED
  BY <1>4, <1>5, <1>6, <1>7, <1>8, <1>9, <1>10, <1>11, <1>12 DEF Next

(* The two invariants together, for the theorems that need both.            *)
LEMMA HostAlways == Spec => [](Safe /\ HostInv)
<1>1. Init => Safe /\ HostInv
  BY SafeInit, HostInit
<1>2. (Safe /\ HostInv) /\ [Next]_vars => (Safe /\ HostInv)'
  BY SafeStep, HostStep
<1>3. QED
  BY <1>1, <1>2, PTL DEF Spec

(* On a blog, whichever hashes the server computes and in any order of its    *)
(* answers: the object that the widgets of a page element are bound to stays  *)
(* the one a look-up of its URL finds, until the server has told the hash of  *)
(* another URL to be the same (page-data.js:109-110, 314-322).                *)
THEOREM BindingsAreKept == Spec => []BindingKept
<1>1. Init => BindingKept
  BY ConstantsAssumption DEF Init, BindingKept, Bound
<1>2. Safe /\ HostInv /\ BindingKept /\ [Next]_vars => BindingKept'
  BY BindingStep
<1>3. QED
  BY <1>1, <1>2, HostAlways, PTL DEF Spec

-----------------------------------------------------------------------------
(* The data of the objects that texts are bound to                          *)

(* No app has a URL that extends another.  shouldReinitializeForLocation-    *)
(* Change takes a step to such a URL for the same page, and so a text that   *)
(* is added then is bound to page data that nobody requests.                 *)
NoAppExtends == Extensions = {} \/ "app" \notin Hosts

Fed == LoadsInv /\ OwnersInv

(* Before the scan there is nothing to be requested for.                    *)
LEMMA FedInit == Init => Fed
<1> SUFFICES ASSUME Init PROVE Fed
  OBVIOUS
<1>1. /\ Urls \subseteq Keys /\ \A k \in Keys : pages[k] = None
      /\ \A t \in Texts : owner[t] = None
  BY Constants DEF Init
<1>2. issued = 0 /\ notInView = {} /\ \A u \in Urls : loads[u] = 0
  BY DEF Init
<1>3. QED
  BY <1>1, <1>2 DEF Fed, LoadsInv, OwnersInv, InDocument

(* Data that is on its way stays so while requests only become more.         *)
LEMMA StaysOnItsWay ==
    ASSUME NEW u \in Urls, DataOnItsWay(u), loads[u] > 0 => loads'[u] > 0,
           failed \subseteq failed', notInView \subseteq notInView', urlOf' = urlOf
    PROVE  DataOnItsWay(u)'
BY DEF DataOnItsWay

(* The scan of a document whose page elements have just been asked for.      *)
LEMMA FedScan ==
    ASSUME Safe, Load(present), Scanned(urlHashes'), urlHashes' = [u \in Urls |-> None],
           UNCHANGED <<document, failed>>, Fed
    PROVE  Fed'
<1>1. /\ \A u \in Urls : KeyOf(urlHashes', u) = u
      /\ present' = present /\ urlOf' = urlOf /\ present \in SUBSET Pages
      /\ \A p \in Pages : urlOf[p] \in Urls
      /\ Urls \subseteq Keys /\ issued \in Nat
  BY Constants DEF KeyOf, document, Safe, TypeOK
<1>2. \A k \in Keys : pages'[k] # None => \E p \in present : k = urlOf[p]
  BY <1>1 DEF Scanned
<1>3. \A p \in present : pages'[urlOf[p]] \in (issued + 1)..issued'
  <2> DEFINE asked == {KeyOf(urlHashes', u) : u \in {urlOf[p] : p \in present}}
             none == [k \in Keys |-> None]
  <2>1. \A p \in present : urlOf[p] \in asked /\ none[urlOf[p]] = None /\ urlOf[p] \in Keys
    BY <1>1
  <2>2. Registered(none, asked)
    BY DEF Scanned
  <2> HIDE DEF asked, none
  <2>3. QED
    BY <2>1, <2>2 DEF Registered
<1>4. \A p \in present : ScannedUrl(p)' = urlOf[p]
  BY <1>1 DEF ScannedUrl, Scanned, Location
<1>5. \A p \in present : pages'[KeyOf(urlHashes', ScannedUrl(p)')] # None
  <2>1. \A n \in (issued + 1)..issued' : n # 0
    BY <1>1
  <2>2. QED
    BY <1>1, <1>3, <1>4, <2>1 DEF None
<1>6. \A u \in Urls : pages'[u] # None => DataOnItsWay(u)'
  <2>1. \A p \in present : loads'[urlOf[p]] > 0 \/ p \in notInView'
    BY <1>1, LoadAsks DEF Safe
  <2>2. QED
    BY <1>1, <1>2, <2>1 DEF DataOnItsWay
<1>7. issued' = 0 => notInView' = {} /\ \A u \in Urls : loads'[u] = 0
  <2> SUFFICES ASSUME issued' = 0 PROVE notInView' = {} /\ \A u \in Urls : loads'[u] = 0
    OBVIOUS
  <2>1. issued = 0 /\ present = {}
    <3>1. issued' \in issued..MaxObjects
      BY DEF Scanned, Registered
    <3>2. QED
      BY <1>1, <1>3, <3>1
  <2>2. notInView = {} /\ \A u \in Urls : loads[u] = 0
    BY <2>1 DEF Fed, LoadsInv
  <2>3. notInView' = notInView /\ \A u \in Urls : loads'[u] = loads[u]
    BY <2>1 DEF Load
  <2>4. QED
    BY <2>2, <2>3
<1>8. LoadsInv'
  BY <1>1, <1>2, <1>5, <1>6, <1>7 DEF LoadsInv
<1>9. OwnersInv'
  BY <1>1, <1>2 DEF OwnersInv, InDocument, Scanned
<1>10. QED
  BY <1>8, <1>9 DEF Fed

(* The page data of a page element that is added is asked for, if it is new. *)
LEMMA FedPageAdded ==
    ASSUME Safe, HostInv, Fed, NEW p \in Pages, PageAdded(p) PROVE Fed'
<1> DEFINE key == KeyOf(urlHashes, urlOf[p])
           us == {urlOf[p]}
<1>1. /\ Register(pages, urlHashes, us) /\ Load({p}) /\ host = "pages" /\ issued > 0
      /\ present' = present \cup {p}
      /\ UNCHANGED <<urlHashes, summaryLoaded, texts, urlOf, failed, original>>
  BY DEF PageAdded
<1>2. us \in SUBSET Urls /\ \A u \in us : u = urlOf[p]
  BY DEF Safe, TypeOK
<1>3. /\ \A k \in Keys : pages[k] # None => pages'[k] = pages[k]
      /\ key \in Keys /\ pages'[key] # None
  <2> HIDE DEF us
  <2>1. QED
    BY <1>1, <1>2, LookupKeepsObjects DEF us
<1>4. \A k \in Keys : k # key => pages'[k] = pages[k]
  <2> DEFINE asked == {KeyOf(urlHashes, u) : u \in us}
  <2>1. \A k \in asked : k = key
    BY <1>2
  <2>2. Registered(pages, asked)
    BY <1>1, <1>2, LookupKeepsMaps
  <2> HIDE DEF asked, key, us
  <2>3. QED
    BY <2>1, <2>2 DEF Registered
<1>5. /\ urlOf[p] \in Urls /\ Urls \subseteq Keys /\ present \subseteq Pages /\ issued \in Nat
      /\ \A q \in Pages : ScannedUrl(q) \in Urls
      /\ \A u \in Urls : KeyOf(urlHashes, u) \in Keys
  BY KeysOfUrls, Constants DEF Safe, TypeOK, ScannedUrl
<1>6. \A k \in Keys \ Urls : pages'[k] = pages[k]
  <2>1. key \notin Urls => pages[key] # None
    BY <1>5 DEF KeyOf, Safe, MapsInv
  <2> HIDE DEF key
  <2>2. QED
    BY <1>3, <1>4, <2>1
<1>7. issued' > 0
  <2>1. issued' \in issued..MaxObjects
    BY <1>1, <1>2, LookupKeepsMaps DEF Registered
  <2>2. QED
    BY <1>1, <1>5, <2>1
<1>8. /\ notInView \subseteq notInView' /\ \A u \in Urls : loads[u] > 0 => loads'[u] > 0
      /\ \A u \in Urls : u = urlOf[p] => DataOnItsWay(u)'
  <2>1. {p} \in SUBSET Pages
    OBVIOUS
  <2>2. /\ notInView \subseteq notInView' /\ \A u \in Urls : loads[u] > 0 => loads'[u] > 0
        /\ loads'[urlOf[p]] > 0 \/ p \in notInView'
    BY <1>1, <2>1, LoadAsks DEF Safe
  <2>3. QED
    BY <1>1, <2>2 DEF DataOnItsWay
<1>9. ASSUME NEW u \in Urls, pages'[u] # None PROVE DataOnItsWay(u)'
  <2>1. CASE pages[u] # None
    <3>1. DataOnItsWay(u)
      BY <2>1 DEF Fed, LoadsInv
    <3>2. QED
      BY <1>1, <1>8, <3>1, StaysOnItsWay
  <2>2. CASE pages[u] = None
    <3>1. u = key
      BY <1>4, <1>5, <1>9, <2>2
    <3>2. key \in Urls => key = urlOf[p]
      BY <1>5, Constants DEF KeyOf, Safe, MapsInv
    <3>3. QED
      BY <1>8, <3>1, <3>2
  <2>3. QED
    BY <2>1, <2>2
<1>10. ASSUME NEW q \in present' PROVE pages'[KeyOf(urlHashes', ScannedUrl(q)')] # None
  <2>1. ScannedUrl(q)' = ScannedUrl(q) /\ urlHashes' = urlHashes
    BY <1>1 DEF ScannedUrl
  <2>2. CASE q \in present
    <3>1. pages[KeyOf(urlHashes, ScannedUrl(q))] # None /\ KeyOf(urlHashes, ScannedUrl(q)) \in Keys
      BY <1>1, <1>5, <2>2 DEF Fed, LoadsInv
    <3>2. QED
      BY <1>3, <2>1, <3>1
  <2>3. CASE q = p
    <3>1. ScannedUrl(p) = urlOf[p]
      BY <1>1 DEF ScannedUrl, HostInv, Location
    <3>2. QED
      BY <1>3, <2>1, <2>3, <3>1
  <2>4. QED
    BY <1>1, <2>2, <2>3
<1>11. LoadsInv'
  <2>1. issued' # 0
    BY <1>7
  <2>2. \A k \in Keys \ Urls : pages'[k] # None => pages'[k] \in summaryLoaded'
    BY <1>1, <1>6 DEF Fed, LoadsInv
  <2> HIDE DEF key, us
  <2>3. QED
    BY <1>9, <1>10, <2>1, <2>2 DEF LoadsInv
<1>12. OwnersInv'
  <2>1. \A t \in Texts : owner'[t] = owner[t]
    BY <1>1 DEF texts
  <2> HIDE DEF key, us
  <2>2. QED
    BY <1>1, <1>3, <1>5, <2>1 DEF Fed, OwnersInv, InDocument
<1>13. QED
  BY <1>11, <1>12 DEF Fed

(* A text that is added is bound to page data that there is already.         *)
LEMMA FedTextAdded ==
    ASSUME NoAppExtends, Safe, HostInv, Fed, NEW t \in Texts, NEW p \in Pages, TextAdded(t, p)
    PROVE  Fed'
<1>1. CASE Reinitialize(t)
  BY <1>1, ReinitializeScans, FedScan DEF Reinitialize
<1>2. CASE ~Reinitialize(t)
  <2> DEFINE us == {urlOf[p]}
             asked == {KeyOf(urlHashes, u) : u \in us}
             key == KeyOf(urlHashes, urlOf[p])
  <2>1. /\ ~ShouldReinitialize /\ issued > 0 /\ p \in present
        /\ Register(pages, urlHashes, us)
        /\ owner' = [owner EXCEPT ![t] = pages'[key]]
        /\ UNCHANGED <<host, urlHashes, summaryLoaded, bound, document, network, app>>
    BY <1>2 DEF TextAdded
  <2>2. us \in SUBSET Urls /\ key \in Keys /\ urlOf[p] \in Urls /\ \A k \in asked : k = key
    BY KeysOfUrls DEF Safe, TypeOK
  <2>3. Registered(pages, asked)
    <3> HIDE DEF us
    <3>1. QED
      BY <2>1, <2>2, LookupKeepsMaps
  <2> HIDE DEF us, asked
  <2>4. urlOf[p] = ScannedUrl(p)
    <3>1. original = Location
      <4>1. CASE host = "pages"
        BY <4>1 DEF HostInv
      <4>2. CASE host = "app"
        <5>1. Extensions = {} /\ couldBeSinglePageApp
          BY <4>2 DEF NoAppExtends, Safe, TypeOK, HostInv
        <5>2. QED
          BY <2>1, <5>1 DEF ShouldReinitialize
      <4>3. host \in {"pages", "app"}
        BY ConstantsAssumption DEF Safe, TypeOK
      <4>4. QED
        BY <4>1, <4>2, <4>3
    <3>2. QED
      BY <3>1 DEF ScannedUrl, Location
  <2>5. pages[key] # None
    BY <2>1, <2>4 DEF Fed, LoadsInv
  <2> HIDE DEF key
  <2>6. \A k \in Keys : pages'[k] = pages[k]
    BY <2>2, <2>3, <2>5 DEF Registered
  <2>7. issued' > 0
    <3>1. issued' \in issued..MaxObjects /\ issued \in Nat
      BY <2>3, Constants DEF Registered, Safe, TypeOK
    <3>2. QED
      BY <2>1, <3>1
  <2>8. /\ \A u \in Urls : DataOnItsWay(u)' <=> DataOnItsWay(u)
        /\ \A q \in Pages : ScannedUrl(q)' = ScannedUrl(q) /\ ScannedUrl(q) \in Urls
        /\ present' = present /\ present \subseteq Pages /\ Urls \subseteq Keys
        /\ \A u \in Urls : KeyOf(urlHashes, u) \in Keys
    BY <2>1, KeysOfUrls, Constants
       DEF DataOnItsWay, ScannedUrl, document, network, app, Safe, TypeOK
  <2>9. LoadsInv'
    <3>1. issued' # 0
      BY <2>7
    <3>2. \A q \in present' : pages'[KeyOf(urlHashes', ScannedUrl(q)')] # None
      BY <2>1, <2>6, <2>8 DEF Fed, LoadsInv
    <3>3. \A k \in Keys \ Urls : pages'[k] # None => pages'[k] \in summaryLoaded'
      BY <2>1, <2>6 DEF Fed, LoadsInv
    <3>4. \A u \in Urls : pages'[u] # None => DataOnItsWay(u)'
      BY <2>6, <2>8 DEF Fed, LoadsInv
    <3>5. QED
      BY <3>1, <3>2, <3>3, <3>4 DEF LoadsInv
  <2>10. OwnersInv'
    <3>1. pages[key] \in summaryLoaded \/ \E u \in Urls : pages[u] = pages[key]
      BY <2>2, <2>5 DEF Fed, LoadsInv
    <3>2. \A s \in Texts : owner'[s] = IF s = t THEN pages[key] ELSE owner[s]
      BY <2>1, <2>2, <2>6 DEF Safe, TypeOK
    <3>3. QED
      BY <2>1, <2>6, <2>8, <3>1, <3>2 DEF Fed, OwnersInv, InDocument
  <2>11. QED
    BY <2>9, <2>10 DEF Fed
<1>3. QED
  BY <1>1, <1>2

(* What is moved to the hash, or found there, has the data now.             *)
LEMMA FedResponseArrives ==
    ASSUME Safe, Fed, NEW u \in Urls, ResponseArrives(u) PROVE Fed'
<1> DEFINE h == HashOf[u]
<1>1. /\ loads[u] > 0 /\ loads' = [loads EXCEPT ![u] = @ - 1] /\ PageHashArrives(u)
      /\ summaryLoaded' = summaryLoaded \cup {pages'[h]}
      /\ urlHashes' = [urlHashes EXCEPT ![u] = h]
      /\ UNCHANGED <<host, increment, owner, bound, document, notInView, failed, app>>
  BY DEF ResponseArrives, PageHashArrives
<1>2. /\ h \in Keys \ Urls /\ h # None /\ u \in Keys /\ Urls \subseteq Keys /\ issued \in Nat
      /\ pages \in [Keys -> 0..issued] /\ urlHashes \in [Urls -> Keys \cup {None}]
      /\ present \subseteq Pages /\ \A q \in Pages : ScannedUrl(q) \in Urls
      /\ loads \in [Urls -> 0..MaxLoads]
  BY Constants DEF Safe, TypeOK, ScannedUrl
<1>3. issued' > 0 /\ pages'[h] # None
  <2>1. pages'[h] # None /\ issued' \in issued..MaxObjects
    BY <1>1, PageHashArrivesCases
  <2>2. issued > 0
    BY <1>1, <1>2 DEF Fed, LoadsInv
  <2>3. QED
    BY <1>2, <2>1, <2>2
<1>4. /\ \A k \in Keys \ {u, h} : pages'[k] = pages[k]
      /\ pages'[u] = None
      /\ pages[u] # None => pages'[h] = pages[u]
  BY <1>1, <1>2 DEF PageHashArrives, None
<1>5. \A v \in Urls : urlHashes[v] # None => urlHashes[v] \in Keys \ Urls
  BY Constants DEF Safe, MapsInv
<1> HIDE DEF h
<1>6. ASSUME NEW v \in Urls, pages[KeyOf(urlHashes, v)] # None
      PROVE  pages'[KeyOf(urlHashes', v)] # None
  <2>1. CASE v = u
    BY <1>1, <1>2, <1>3, <2>1 DEF KeyOf
  <2>2. CASE v # u
    <3>1. KeyOf(urlHashes', v) = KeyOf(urlHashes, v)
      BY <1>1, <1>2, <2>2 DEF KeyOf
    <3>2. KeyOf(urlHashes, v) \in Keys \ {u}
      BY <1>2, <1>5, <2>2 DEF KeyOf
    <3>3. QED
      BY <1>3, <1>4, <1>6, <3>1, <3>2
  <2>3. QED
    BY <2>1, <2>2
<1>7. /\ \A q \in Pages : ScannedUrl(q)' = ScannedUrl(q)
      /\ present' = present /\ urlOf' = urlOf
  BY <1>1 DEF ScannedUrl, document, app
<1>8. \A q \in present' : pages'[KeyOf(urlHashes', ScannedUrl(q)')] # None
  <2>1. issued > 0
    BY <1>1, <1>2 DEF Fed, LoadsInv
  <2>2. QED
    BY <1>2, <1>6, <1>7, <2>1 DEF Fed, LoadsInv
<1>9. \A k \in Keys \ Urls : pages'[k] # None => pages'[k] \in summaryLoaded'
  <2>1. ASSUME NEW k \in Keys \ Urls, pages'[k] # None PROVE pages'[k] \in summaryLoaded'
    <3>1. CASE k = h
      BY <1>1, <3>1
    <3>2. CASE k # h
      <4>1. pages'[k] = pages[k]
        BY <1>4, <3>2
      <4>2. QED
        BY <1>1, <2>1, <4>1 DEF Fed, LoadsInv
    <3>3. QED
      BY <3>1, <3>2
  <2>2. QED
    BY <2>1
<1>10. ASSUME NEW v \in Urls, pages'[v] # None PROVE DataOnItsWay(v)'
  <2>1. v # u /\ v # h /\ v \in Keys
    BY <1>2, <1>4, <1>10
  <2>2. DataOnItsWay(v)
    BY <1>4, <1>10, <2>1 DEF Fed, LoadsInv
  <2>3. loads'[v] = loads[v]
    BY <1>1, <1>2, <2>1
  <2>4. QED
    BY <1>1, <1>7, <2>2, <2>3 DEF DataOnItsWay
<1>11. LoadsInv'
  <2>1. issued' # 0
    BY <1>3
  <2>2. QED
    BY <1>8, <1>9, <1>10, <2>1 DEF LoadsInv
<1>12. OwnersInv'
  <2>1. ASSUME NEW s \in Texts, owner[s] # None
        PROVE  owner[s] \in summaryLoaded' \/ \E v \in Urls : pages'[v] = owner[s]
    <3>1. CASE owner[s] \in summaryLoaded
      BY <1>1, <3>1
    <3>2. CASE owner[s] \notin summaryLoaded
      <4>1. PICK v \in Urls : pages[v] = owner[s]
        BY <2>1, <3>2 DEF Fed, OwnersInv, InDocument
      <4>2. CASE v = u
        BY <1>1, <1>4, <2>1, <4>1, <4>2
      <4>3. CASE v # u
        BY <1>2, <1>4, <4>1, <4>3
      <4>4. QED
        BY <4>2, <4>3
    <3>3. QED
      BY <3>1, <3>2
  <2>2. QED
    BY <1>1, <2>1 DEF OwnersInv, InDocument
<1>13. QED
  BY <1>11, <1>12 DEF Fed

(* Steps that leave the maps and the texts' owners alone.                    *)
LEMMA FedKept ==
    ASSUME Safe, Fed, UNCHANGED <<registry, present, original>>,
           \A t \in Texts : owner'[t] # None => owner'[t] = owner[t],
           \A q \in Pages : q # 1 => urlOf'[q] = urlOf[q],
           \A u \in Urls : pages[u] # None /\ DataOnItsWay(u) => DataOnItsWay(u)',
           issued = 0 => notInView' = {} /\ \A u \in Urls : loads'[u] = 0
    PROVE  Fed'
<1>1. /\ UNCHANGED <<pages, urlHashes, summaryLoaded, issued, present>>
      /\ \A q \in Pages : ScannedUrl(q)' = ScannedUrl(q)
      /\ present \subseteq Pages
  BY DEF registry, ScannedUrl, Safe, TypeOK
<1>2. LoadsInv'
  BY <1>1 DEF Fed, LoadsInv
<1>3. OwnersInv'
  BY <1>1 DEF Fed, OwnersInv, InDocument
<1>4. QED
  BY <1>2, <1>3 DEF Fed

(* Every step of a blog, or of such an app, keeps what is bound supplied.   *)
LEMMA FedStep ==
    ASSUME NoAppExtends, Safe, HostInv, Fed, [Next]_vars PROVE Fed'
<1>1. CASE Start
  BY <1>1, StartScans, FedScan DEF Start
<1>2. ASSUME NEW p \in Pages, PageAdded(p) PROVE Fed'
  BY <1>2, FedPageAdded
<1>3. ASSUME NEW p \in Pages, ComesIntoView(p) PROVE Fed'
  <2>1. /\ p \in notInView /\ notInView' = notInView \ {p}
        /\ loads' = [loads EXCEPT ![urlOf[p]] = @ + 1]
        /\ UNCHANGED <<registry, texts, document, failed, app>>
    BY <1>3 DEF ComesIntoView
  <2>2. loads \in [Urls -> 0..MaxLoads] /\ urlOf[p] \in Urls /\ MaxLoads \in Nat
    BY Constants DEF Safe, TypeOK
  <2>3. \A u \in Urls : (loads[u] > 0 => loads'[u] > 0) /\ (u = urlOf[p] => loads'[u] > 0)
    BY <2>1, <2>2
  <2>4. \A u \in Urls : DataOnItsWay(u) => DataOnItsWay(u)'
    BY <2>1, <2>3 DEF DataOnItsWay, document
  <2>5. issued # 0
    BY <2>1 DEF Fed, LoadsInv
  <2>6. QED
    BY <2>1, <2>4, <2>5, FedKept DEF texts, document, app
<1>4. ASSUME NEW t \in Texts, NEW p \in Pages, TextAdded(t, p) PROVE Fed'
  BY <1>4, FedTextAdded
<1>5. ASSUME NEW t \in Texts, TextRemoved(t) PROVE Fed'
  <2>1. /\ UNCHANGED <<registry, document, network, app>>
        /\ \A s \in Texts : owner'[s] # None => owner'[s] = owner[s]
    BY <1>5 DEF TextRemoved, Safe, TypeOK
  <2>2. \A u \in Urls : DataOnItsWay(u) => DataOnItsWay(u)'
    BY <2>1 DEF DataOnItsWay, document, network
  <2>3. issued = 0 => notInView' = {} /\ \A u \in Urls : loads'[u] = 0
    BY <2>1 DEF Fed, LoadsInv, network
  <2>4. QED
    BY <2>1, <2>2, <2>3, FedKept DEF document, app
<1>6. ASSUME NEW u \in Urls, ResponseArrives(u) PROVE Fed'
  BY <1>6, FedResponseArrives
<1>7. ASSUME NEW u \in Urls, LoadFails(u) PROVE Fed'
  <2>1. /\ loads[u] > 0 /\ loads' = [loads EXCEPT ![u] = @ - 1] /\ failed' = failed \cup {u}
        /\ UNCHANGED <<registry, texts, document, notInView, app>>
    BY <1>7 DEF LoadFails
  <2>2. \A v \in Urls : v # u => loads'[v] = loads[v]
    BY <2>1 DEF Safe, TypeOK
  <2>3. \A v \in Urls : DataOnItsWay(v) => DataOnItsWay(v)'
    BY <2>1, <2>2 DEF DataOnItsWay, document
  <2>4. issued # 0
    BY <2>1 DEF Fed, LoadsInv
  <2>5. QED
    BY <2>1, <2>3, <2>4, FedKept DEF texts, document, app
<1>8. ASSUME NEW u \in Urls, HostNavigates(u) PROVE Fed'
  <2>1. /\ host = "app" /\ urlOf' = [urlOf EXCEPT ![1] = u]
        /\ UNCHANGED <<registry, texts, present, network, app>>
    BY <1>8 DEF HostNavigates
  <2>2. notInView = {} /\ \A q \in Pages : q # 1 => urlOf'[q] = urlOf[q]
    BY <2>1 DEF HostInv, Safe, TypeOK
  <2>3. \A v \in Urls : DataOnItsWay(v) => DataOnItsWay(v)'
    BY <2>1, <2>2 DEF DataOnItsWay, network
  <2>4. issued = 0 => notInView' = {} /\ \A v \in Urls : loads'[v] = 0
    BY <2>1 DEF Fed, LoadsInv, network
  <2>5. QED
    BY <2>1, <2>2, <2>3, <2>4, FedKept DEF texts, app
<1>9. CASE UNCHANGED vars
  <2>1. \A u \in Urls : DataOnItsWay(u) => DataOnItsWay(u)'
    BY <1>9 DEF vars, DataOnItsWay, document, network
  <2>2. issued = 0 => notInView' = {} /\ \A u \in Urls : loads'[u] = 0
    BY <1>9 DEF Fed, LoadsInv, vars, network
  <2>3. QED
    BY <1>9, <2>1, <2>2, FedKept DEF vars, texts, document, app
<1>10. QED
  BY <1>1, <1>2, <1>3, <1>4, <1>5, <1>6, <1>7, <1>8, <1>9 DEF Next

(* The invariants imply that what a text is bound to gets data.             *)
LEMMA FedShows == ASSUME Safe, Fed PROVE WidgetsGetData
<1> SUFFICES ASSUME NEW t \in Texts, owner[t] # None, owner[t] \notin summaryLoaded
             PROVE  \E u \in Urls : /\ pages[KeyOf(urlHashes, u)] = owner[t]
                                    /\ DataOnItsWay(u)
  BY DEF WidgetsGetData, InDocument
<1>1. PICK u \in Urls : pages[u] = owner[t]
  BY DEF Fed, OwnersInv, InDocument
<1>2. KeyOf(urlHashes, u) = u
  BY <1>1 DEF Safe, MapsInv, KeyOf
<1>3. DataOnItsWay(u)
  BY <1>1 DEF Fed, LoadsInv
<1>4. QED
  BY <1>1, <1>2, <1>3

(* What a text element is bound to has the server's data or will have it,     *)
(* unless a request failed, for blogs and for apps none of whose URLs extends *)
(* another, whatever hashes the server computes (page-data-loader.js:32-91). *)
THEOREM TextsGetData == NoAppExtends => (Spec => []WidgetsGetData)
<1> SUFFICES ASSUME NoAppExtends PROVE Spec => []WidgetsGetData
  OBVIOUS
<1>1. Safe /\ HostInv /\ Fed /\ [Next]_vars => Fed'
  BY FedStep
<1>2. Safe /\ Fed => WidgetsGetData
  BY FedShows
<1>3. QED
  BY FedInit, <1>1, <1>2, HostAlways, PTL DEF Spec
=============================================================================
