---------------------------- MODULE MediaScanProofs ----------------------------
(***************************************************************************)
(* Theorems about MediaScan, for any elements, sources, scans, records in a *)
(* delivery and lists of callbacks.  Basics types the state.  OneIndicator  *)
(* is about the quiet times between deliveries; the invariant ScansInv says *)
(* what is known of an element at every moment of a delivery: one that has  *)
(* not been scanned in it is Waiting, and the records still to come account *)
(* for whatever is not up to date; one that has been scanned is Fresh, as   *)
(* the property says, or Doomed to be scanned again and to go astray.       *)
(***************************************************************************)
EXTENDS MediaScan, FiniteSetTheorems, WellFoundedInduction, TLAPS

-----------------------------------------------------------------------------
(* The inductive invariants                                                 *)

(* The lists of callbacks are those of the throttle, whose timers never run  *)
(* all at once; what is scanned has a count of records.                      *)
Lists == [1..MaxLists -> [callbacks : SUBSET (Nat \cup {Other}), timer : BOOLEAN]]
ThrottleInv ==
    /\ throttle \in [lists : Lists, current : 0..MaxLists]
    /\ \E l \in 1..MaxLists : ~throttle.lists[l].timer
Basics ==
    /\ TypeOK /\ ThrottleInv /\ changes \in [DOMAIN scans -> 0..MaxRecords]
    /\ delivering \/ scanned = {}

Mine(e) == {n \in DOMAIN scans : scans[n].el = e}
Newest(e) == Max(Mine(e))
Lit(e) == live \cap Mine(e)
FoundAs(e) == {h \in Sources : <<h, e>> \in found}
Due(e) == IF e \in inDocument /\ Mine(e) # {} /\ scans[Newest(e)].shown THEN {Newest(e)} ELSE {}

(* What has been scanned in this delivery and will be again, or has a record *)
(* of a change still to come, goes astray.                                   *)
Doomed(e) ==
    \/ \E n \in Mine(e) : changes[n] > 0
    \/ e \in inDocument /\ e \in ToSet(added)

(* An element that was scanned in this delivery is as the property says.     *)
Fresh(e) ==
    /\ e \in inDocument /\ e \notin ToSet(removed)
    /\ Mine(e) # {} /\ Newest(e) \in watching
    /\ Lit(e) = Due(e) /\ FoundAs(e) = {scans[n].hash : n \in Due(e)}
    /\ Due(e) # {} => src[e] = scans[Newest(e)].hash

(* One that was not: what is known of it is what there was before the        *)
(* records that are still to be delivered.                                   *)
Waiting(e) ==
    /\ FoundAs(e) = {scans[n].hash : n \in Lit(e)}
    /\ e \in ToSet(removed) /\ e \in inDocument => e \in ToSet(added)
    /\ e \notin ToSet(removed) /\ (e \in ToSet(added) \/ e \notin inDocument) => Lit(e) = {}
    /\ e \notin ToSet(removed) /\ e \notin ToSet(added) /\ e \in inDocument =>
           /\ Mine(e) # {} /\ Newest(e) \in watching /\ Lit(e) = Due(e)
           /\ Due(e) # {} => src[e] = scans[Newest(e)].hash \/ changes[Newest(e)] > 0
    /\ \A n \in Mine(e) : changes[n] > 0 => n \in watching
    /\ \A m, n \in Mine(e) \cap watching : changes[m] = changes[n]

ScansInv ==
    \A e \in Elements \ astray :
        IF e \in scanned THEN Doomed(e) \/ Fresh(e) ELSE Waiting(e)

-----------------------------------------------------------------------------
(* Sets of numbers, sequences                                               *)

(* A bounded set of naturals that is not empty has a least and a greatest    *)
(* member: it is cut where the number of members below, or above, is least.  *)
LEMMA SmallestSet ==
    ASSUME NEW D, IsFiniteSet(D), NEW B \in SUBSET (SUBSET D), B # {}
    PROVE  \E s \in B : \A t \in B : ~(t \subseteq s /\ t # s)
<1> DEFINE R == StrictSubsetOrdering(D)
<1>1. IsWellFoundedOn(R, FiniteSubsetsOf(D))
  BY FS_StrictSubsetOrderingWellFounded
<1>2. B \subseteq FiniteSubsetsOf(D)
  <2>1. \A s \in SUBSET D : IsFiniteSet(s)
    BY FS_Subset
  <2>2. QED
    BY <2>1 DEF FiniteSubsetsOf
<1>3. PICK s \in B : \A t \in B : ~(<<t, s>> \in R)
  <2> HIDE DEF R
  <2>1. QED
    BY <1>1, <1>2, WFMin
<1>4. \A t \in B : ~(t \subseteq s /\ t # s)
  <2>1. \A t \in B : t \subseteq s /\ t # s => <<t, s>> \in R
    BY DEF StrictSubsetOrdering
  <2>2. QED
    BY <1>3, <2>1
<1>5. QED
  BY <1>4

(* An interval of naturals has as many members as it is long.                *)
LEMMA IntervalFinite == ASSUME NEW N \in Nat PROVE IsFiniteSet(1..N) /\ Cardinality(1..N) = N
<1>1. 1 \in Int /\ N \in Int
  OBVIOUS
<1>2. QED
  BY <1>1, FS_Interval

(* The greatest number of a set that is bounded and not empty is in it.      *)
LEMMA MaxIn ==
    ASSUME NEW N \in Nat, NEW S \in SUBSET (1..N), S # {}
    PROVE  Max(S) \in S /\ \A j \in S : j <= Max(S)
<1> DEFINE D == 1..N
           B == {n..N : n \in S}
<1>1. B \in SUBSET (SUBSET D) /\ B # {}
  <2>1. \A n \in S : n..N \subseteq D
    OBVIOUS
  <2>2. QED
    BY <2>1
<1>2. PICK s \in B : \A t \in B : ~(t \subseteq s /\ t # s)
  <2>1. IsFiniteSet(D)
    BY IntervalFinite
  <2> HIDE DEF B, D
  <2>2. QED
    BY <1>1, <2>1, SmallestSet
<1>3. PICK k \in S : s = k..N
  OBVIOUS
<1>4. \A j \in S : k >= j
  <2> SUFFICES ASSUME NEW j \in S, k < j PROVE FALSE
    OBVIOUS
  <2>1. j..N \subseteq k..N /\ j..N # k..N
    OBVIOUS
  <2>2. QED
    BY <1>2, <1>3, <2>1
<1>5. Max(S) \in S /\ \A j \in S : Max(S) >= j
  BY <1>4 DEF Max
<1>6. QED
  BY <1>5

(* So is the least one, although CHOOSE is all that Min says.                *)
LEMMA MinIn ==
    ASSUME NEW N \in Nat, NEW S \in SUBSET (1..N), S # {}
    PROVE  Min(S) \in S
<1> DEFINE D == 1..N
           B == {1..n : n \in S}
<1>1. B \in SUBSET (SUBSET D) /\ B # {}
  <2>1. \A n \in S : 1..n \subseteq D
    OBVIOUS
  <2>2. QED
    BY <2>1
<1>2. PICK s \in B : \A t \in B : ~(t \subseteq s /\ t # s)
  <2>1. IsFiniteSet(D)
    BY IntervalFinite
  <2> HIDE DEF B, D
  <2>2. QED
    BY <1>1, <2>1, SmallestSet
<1>3. PICK k \in S : s = 1..k
  OBVIOUS
<1>4. \A j \in S : k =< j
  <2> SUFFICES ASSUME NEW j \in S, j < k PROVE FALSE
    OBVIOUS
  <2>1. 1..j \subseteq 1..k /\ 1..j # 1..k
    OBVIOUS
  <2>2. QED
    BY <1>2, <1>3, <2>1
<1>5. QED
  BY <1>4 DEF Min

(* The records of a set: each member is among them.                          *)
LEMMA SetToSeqFacts ==
    ASSUME NEW S, IsFiniteSet(S)
    PROVE  SetToSeq(S) \in Seq(S) /\ ToSet(SetToSeq(S)) = S
<1> DEFINE N == Cardinality(S)
           s == SetToSeq(S)
<1>1. N \in Nat /\ ExistsBijection(1..N, S)
  BY FS_CardinalityType
<1>2. IsFiniteSet(1..N) /\ Cardinality(1..N) = N
  BY <1>1, IntervalFinite
<1>3. s \in [1..N -> S] /\ IsInjective(s)
  <2>1. \E f \in [1..N -> S] : IsInjective(f)
    BY <1>1 DEF ExistsBijection, Bijection, Injection, IsInjective
  <2>2. QED
    BY <2>1 DEF SetToSeq
<1> HIDE DEF s
<1>4. s \in Injection(1..N, S)
  BY <1>3 DEF Injection, IsInjective
<1>5. s \in Surjection(1..N, S)
  <2> HIDE DEF N
  <2>1. Cardinality(1..N) = Cardinality(S)
    BY <1>2 DEF N
  <2>2. QED
    BY <1>4, <2>1, FS_Injection
<1>6. ToSet(s) = S
  BY <1>3, <1>5 DEF ToSet, Surjection
<1>7. s \in Seq(S)
  <2> HIDE DEF N
  <2>1. N \in Nat
    BY <1>1 DEF N
  <2>2. QED
    BY <1>3, <2>1
<1>8. QED
  BY <1>6, <1>7 DEF s

(* The first record, and the others.                                         *)
LEMMA TailFacts ==
    ASSUME NEW S, NEW s \in Seq(S), s # <<>>
    PROVE  /\ Head(s) \in S /\ Tail(s) \in Seq(S)
           /\ ToSet(s) = ToSet(Tail(s)) \cup {Head(s)}
<1>1. Head(s) \in S /\ Tail(s) \in Seq(S) /\ Len(s) \in Nat \ {0}
  OBVIOUS
<1>2. /\ DOMAIN s = 1..Len(s) /\ DOMAIN Tail(s) = 1..(Len(s) - 1) /\ Head(s) = s[1]
      /\ \A i \in 1..(Len(s) - 1) : Tail(s)[i] = s[i + 1]
  BY <1>1
<1>3. ASSUME NEW i \in DOMAIN s PROVE s[i] \in ToSet(Tail(s)) \cup {Head(s)}
  <2>1. CASE i = 1
    BY <1>2, <2>1
  <2>2. CASE i # 1
    <3>1. i - 1 \in DOMAIN Tail(s) /\ s[i] = Tail(s)[i - 1]
      BY <1>1, <1>2, <2>2
    <3>2. QED
      BY <3>1 DEF ToSet
  <2>3. QED
    BY <2>1, <2>2
<1>4. ASSUME NEW i \in DOMAIN Tail(s) PROVE Tail(s)[i] \in ToSet(s)
  <2>1. i + 1 \in DOMAIN s /\ Tail(s)[i] = s[i + 1]
    BY <1>1, <1>2
  <2>2. QED
    BY <2>1 DEF ToSet
<1>5. Head(s) \in ToSet(s)
  BY <1>1, <1>2 DEF ToSet
<1>6. QED
  BY <1>1, <1>3, <1>4, <1>5 DEF ToSet

(* One record more, after the others.                                        *)
LEMMA AppendFacts ==
    ASSUME NEW S, NEW s \in Seq(S), NEW x \in S
    PROVE  /\ Append(s, x) \in Seq(S) /\ ToSet(Append(s, x)) = ToSet(s) \cup {x}
           /\ Len(s) \in Nat /\ DOMAIN s = 1..Len(s) /\ Len(s) + 1 \notin DOMAIN s
           /\ DOMAIN Append(s, x) = DOMAIN s \cup {Len(s) + 1}
           /\ Append(s, x)[Len(s) + 1] = x
           /\ \A i \in DOMAIN s : Append(s, x)[i] = s[i]
<1>1. /\ Append(s, x) \in Seq(S)
      /\ Len(s) \in Nat /\ DOMAIN s = 1..Len(s) /\ Len(s) + 1 \notin DOMAIN s
      /\ DOMAIN Append(s, x) = DOMAIN s \cup {Len(s) + 1}
      /\ Append(s, x)[Len(s) + 1] = x
      /\ \A i \in DOMAIN s : Append(s, x)[i] = s[i]
  OBVIOUS
<1> DEFINE t == Append(s, x)
<1>2. ToSet(t) = ToSet(s) \cup {x}
  <2> HIDE DEF t
  <2>1. /\ DOMAIN t = DOMAIN s \cup {Len(s) + 1} /\ t[Len(s) + 1] = x
        /\ \A i \in DOMAIN s : t[i] = s[i]
    BY <1>1 DEF t
  <2>2. QED
    BY <2>1 DEF ToSet
<1>3. QED
  BY <1>1, <1>2

(* When there are no records, nothing is among them.                         *)
LEMMA NoRecords == ToSet(<<>>) = {}
BY DEF ToSet

-----------------------------------------------------------------------------
(* The callback lists                                                       *)

(* A throttle with callbacks of C only, and a list to spare.                 *)
Sound(t, C) ==
    /\ t \in [lists : Lists, current : 0..MaxLists]
    /\ IsThrottle(t, C)
    /\ \E l \in 1..MaxLists : ~t.lists[l].timer

(* What makes a throttle sound, beside the types of its lists.               *)
LEMMA SoundIs ==
    ASSUME NEW C, NEW u \in [lists : Lists, current : 0..MaxLists],
           \A l \in 1..MaxLists : /\ u.lists[l].callbacks \subseteq C
                                  /\ l = u.current <=> u.lists[l].callbacks # {},
           \E l \in 1..MaxLists : ~u.lists[l].timer
    PROVE  Sound(u, C)
<1>1. u.lists \in Lists /\ u.current \in 0..MaxLists
  OBVIOUS
<1>2. DOMAIN u.lists = 1..MaxLists
  BY <1>1 DEF Lists
<1>3. \A l \in 1..MaxLists : u.lists[l].timer \in BOOLEAN
  BY <1>1 DEF Lists
<1>4. IsThrottle(u, C)
  BY <1>1, <1>2, <1>3 DEF IsThrottle
<1>5. QED
  BY <1>4 DEF Sound

(* What a sound throttle has.                                                *)
LEMMA SoundMeans ==
    ASSUME NEW C, NEW t, Sound(t, C)
    PROVE  /\ t \in [lists : Lists, current : 0..MaxLists] /\ MaxLists \in Nat /\ MaxLists > 1
           /\ \A l \in 1..MaxLists :
                  /\ t.lists[l] \in [callbacks : SUBSET (Nat \cup {Other}), timer : BOOLEAN]
                  /\ t.lists[l].timer \in BOOLEAN
                  /\ t.lists[l].callbacks \subseteq C
                  /\ l = t.current <=> t.lists[l].callbacks # {}
           /\ \E l \in 1..MaxLists : ~t.lists[l].timer
<1>1. /\ t \in [lists : Lists, current : 0..MaxLists] /\ IsThrottle(t, C)
      /\ \E l \in 1..MaxLists : ~t.lists[l].timer
  BY DEF Sound
<1>2. \A l \in 1..MaxLists : t.lists[l] \in [callbacks : SUBSET (Nat \cup {Other}), timer : BOOLEAN]
  BY <1>1 DEF Lists
<1>3. QED
  BY <1>1, <1>2, MediaScanAssumption DEF IsThrottle

(* Whoever is registered is on some list.                                    *)
LEMMA RegisteredIs ==
    ASSUME NEW t, NEW x
    PROVE  x \in Registered(t) <=> \E l \in 1..MaxLists : x \in t.lists[l].callbacks
BY DEF Registered

(* At most one list has callbacks, so that to take some off the current one  *)
(* is to take them off every list.                                           *)
LEMMA OffFacts ==
    ASSUME NEW C \in SUBSET (Nat \cup {Other}), NEW t, Sound(t, C), NEW cs
    PROVE  /\ Sound(Off(t, cs), C \ cs)
           /\ Registered(Off(t, cs)) = Registered(t) \ cs
<1> DEFINE u == Off(t, cs)
<1>1. /\ t \in [lists : Lists, current : 0..MaxLists] /\ MaxLists \in Nat
      /\ \A l \in 1..MaxLists : /\ t.lists[l] \in [callbacks : SUBSET (Nat \cup {Other}), timer : BOOLEAN]
                                /\ t.lists[l].timer \in BOOLEAN
      /\ \E l \in 1..MaxLists : ~t.lists[l].timer
  BY SoundMeans
<1>2. \A l \in 1..MaxLists : t.lists[l].callbacks \subseteq C /\ (l = t.current <=> t.lists[l].callbacks # {})
  BY SoundMeans
<1>3. /\ u \in [lists : Lists, current : 0..MaxLists]
      /\ \A l \in 1..MaxLists : /\ u.lists[l].timer = t.lists[l].timer
                                /\ u.lists[l].callbacks = t.lists[l].callbacks \ cs
                                /\ l = u.current <=> u.lists[l].callbacks # {}
  <2>1. CASE t.current = 0
    BY <1>1, <1>2, <2>1 DEF Off
  <2>2. CASE t.current # 0
    <3> DEFINE k == t.current
               ls == [t.lists EXCEPT ![k].callbacks = @ \ cs]
               now == IF t.lists[k].callbacks \subseteq cs THEN 0 ELSE k
    <3>1. k \in 1..MaxLists
      BY <1>1, <2>2
    <3>2. u = [lists |-> ls, current |-> now]
      BY <2>2 DEF Off
    <3>3. ls \in Lists
      BY <1>1, <3>1 DEF Lists
    <3>4. \A l \in 1..MaxLists : /\ ls[l].timer = t.lists[l].timer
                                 /\ ls[l].callbacks = t.lists[l].callbacks \ cs
      BY <1>1, <1>2, <3>1 DEF Lists
    <3>5. now \in 0..MaxLists /\ \A l \in 1..MaxLists : l = now <=> t.lists[l].callbacks \ cs # {}
      BY <1>1, <1>2, <3>1
    <3> HIDE DEF ls, now, u
    <3>6. QED
      BY <3>2, <3>3, <3>4, <3>5
  <2>3. QED
    BY <2>1, <2>2
<1> HIDE DEF u
<1>4. Registered(u) = Registered(t) \ cs
  BY <1>3 DEF Registered
<1>5. Sound(u, C \ cs)
  <2>1. \A l \in 1..MaxLists : /\ u.lists[l].callbacks \subseteq C \ cs
                               /\ l = u.current <=> u.lists[l].callbacks # {}
    BY <1>2, <1>3
  <2>2. \E l \in 1..MaxLists : ~u.lists[l].timer
    BY <1>1, <1>3
  <2>3. u \in [lists : Lists, current : 0..MaxLists]
    BY <1>3
  <2>4. QED
    BY <2>1, <2>2, <2>3, SoundIs
<1>6. QED
  BY <1>4, <1>5 DEF u

(* The first callback takes a list without a timer, which there is.          *)
LEMMA OnFacts ==
    ASSUME NEW C \in SUBSET (Nat \cup {Other}), NEW t, Sound(t, C), NEW c \in Nat \cup {Other}
    PROVE  /\ Sound(On(t, c), C \cup {c})
           /\ Registered(On(t, c)) = Registered(t) \cup {c}
<1> DEFINE u == On(t, c)
           k == IF t.current = 0 THEN Min(Idle(t)) ELSE t.current
<1>1. /\ t \in [lists : Lists, current : 0..MaxLists] /\ MaxLists \in Nat
      /\ \A l \in 1..MaxLists : /\ t.lists[l] \in [callbacks : SUBSET (Nat \cup {Other}), timer : BOOLEAN]
                                /\ t.lists[l].timer \in BOOLEAN
      /\ \E l \in 1..MaxLists : ~t.lists[l].timer
  BY SoundMeans
<1>2. \A l \in 1..MaxLists : t.lists[l].callbacks \subseteq C /\ (l = t.current <=> t.lists[l].callbacks # {})
  BY SoundMeans
<1>3. k \in 1..MaxLists /\ \A l \in 1..MaxLists : l # k => t.lists[l].callbacks = {}
  <2>1. CASE t.current = 0
    <3>1. Idle(t) \in SUBSET (1..MaxLists) /\ Idle(t) # {}
      BY <1>1, <2>1 DEF Idle, Sound
    <3>2. k \in 1..MaxLists
      BY <1>1, <2>1, <3>1, MinIn
    <3>3. QED
      BY <1>1, <1>2, <2>1, <3>2
  <2>2. CASE t.current # 0
    BY <1>1, <1>2, <2>2
  <2>3. QED
    BY <2>1, <2>2
<1>4. u = [lists |-> [t.lists EXCEPT ![k].callbacks = @ \cup {c}], current |-> k]
  BY DEF On
<1> HIDE DEF k, u
<1> DEFINE ls == [t.lists EXCEPT ![k].callbacks = @ \cup {c}]
<1>5. ls \in Lists
  BY <1>1, <1>3 DEF Lists
<1>6. \A l \in 1..MaxLists :
          /\ ls[l].timer = t.lists[l].timer
          /\ ls[l].callbacks = IF l = k THEN t.lists[l].callbacks \cup {c} ELSE {}
  BY <1>1, <1>3 DEF Lists
<1> HIDE DEF ls
<1>7. /\ u \in [lists : Lists, current : 0..MaxLists]
      /\ \A l \in 1..MaxLists :
             /\ u.lists[l].timer = t.lists[l].timer
             /\ u.lists[l].callbacks = IF l = k THEN t.lists[l].callbacks \cup {c} ELSE {}
             /\ l = u.current <=> u.lists[l].callbacks # {}
  <2>1. u = [lists |-> ls, current |-> k]
    BY <1>4 DEF ls
  <2>2. k \in 0..MaxLists
    BY <1>1, <1>3
  <2>3. QED
    BY <1>5, <1>6, <2>1, <2>2
<1>8. Registered(u) = Registered(t) \cup {c}
  <2>1. \A x : x \in Registered(t) <=> x \in t.lists[k].callbacks
    BY <1>3, RegisteredIs
  <2>2. \A x : x \in Registered(u) <=> x \in u.lists[k].callbacks
    BY <1>3, <1>7, RegisteredIs
  <2>3. u.lists[k].callbacks = t.lists[k].callbacks \cup {c}
    BY <1>3, <1>7
  <2>4. QED
    BY <2>1, <2>2, <2>3
<1>9. Sound(u, C \cup {c})
  <2>1. \A l \in 1..MaxLists : /\ u.lists[l].callbacks \subseteq C \cup {c}
                               /\ l = u.current <=> u.lists[l].callbacks # {}
    <3>1. ASSUME NEW l \in 1..MaxLists PROVE u.lists[l].callbacks \subseteq C \cup {c}
      <4>1. CASE l = k
        <5>1. u.lists[l].callbacks = t.lists[l].callbacks \cup {c}
          BY <1>7, <4>1
        <5>2. t.lists[l].callbacks \subseteq C
          BY <1>2
        <5>3. QED
          BY <5>1, <5>2
      <4>2. CASE l # k
        BY <1>7, <4>2
      <4>3. QED
        BY <4>1, <4>2
    <3>2. QED
      BY <1>7, <3>1
  <2>2. \E l \in 1..MaxLists : ~u.lists[l].timer
    BY <1>1, <1>7
  <2>3. u \in [lists : Lists, current : 0..MaxLists]
    BY <1>7
  <2>4. QED
    BY <2>1, <2>2, <2>3, SoundIs
<1>10. QED
  BY <1>8, <1>9 DEF u

(* Scrolling sets a timer only while another list is without one.            *)
LEMMA HandleEventFacts ==
    ASSUME NEW C \in SUBSET (Nat \cup {Other}), NEW t, Sound(t, C), Idle(t) # {}
    PROVE  /\ Sound(HandleEvent(t), C)
           /\ Registered(HandleEvent(t)) = Registered(t)
<1> DEFINE u == HandleEvent(t)
<1>1. /\ t \in [lists : Lists, current : 0..MaxLists] /\ MaxLists \in Nat
      /\ \A l \in 1..MaxLists : /\ t.lists[l] \in [callbacks : SUBSET (Nat \cup {Other}), timer : BOOLEAN]
                                /\ t.lists[l].timer \in BOOLEAN
      /\ \E l \in 1..MaxLists : ~t.lists[l].timer
  BY SoundMeans
<1>2. \A l \in 1..MaxLists : t.lists[l].callbacks \subseteq C /\ (l = t.current <=> t.lists[l].callbacks # {})
  BY SoundMeans
<1>3. CASE t.current = 0
  BY <1>3 DEF HandleEvent
<1>4. CASE t.current # 0
  <2> DEFINE k == t.current
             ls == [t.lists EXCEPT ![k].timer = TRUE]
  <2>1. k \in 1..MaxLists /\ u = [t EXCEPT !.lists[k].timer = TRUE]
    BY <1>1, <1>4 DEF HandleEvent
  <2>2. u = [lists |-> ls, current |-> k]
    BY <1>1, <2>1 DEF Lists
  <2>3. ls \in Lists
    BY <1>1, <2>1 DEF Lists
  <2>4. \A l \in 1..MaxLists : /\ ls[l].timer = IF l = k THEN TRUE ELSE t.lists[l].timer
                               /\ ls[l].callbacks = t.lists[l].callbacks
    BY <1>1, <2>1 DEF Lists
  <2> HIDE DEF u, ls
  <2>5. /\ u \in [lists : Lists, current : 0..MaxLists] /\ u.current = k
        /\ \A l \in 1..MaxLists : /\ u.lists[l].timer = IF l = k THEN TRUE ELSE t.lists[l].timer
                                  /\ u.lists[l].callbacks = t.lists[l].callbacks
    BY <1>1, <2>2, <2>3, <2>4
  <2>6. Registered(u) = Registered(t)
    <3>1. \A x : x \in Registered(u) <=> x \in Registered(t)
      BY <2>5, RegisteredIs
    <3>2. QED
      BY <3>1
  <2>7. Sound(u, C)
    <3>1. \A l \in 1..MaxLists : /\ u.lists[l].callbacks \subseteq C
                                 /\ l = u.current <=> u.lists[l].callbacks # {}
      BY <1>2, <2>5
    <3>2. \E l \in 1..MaxLists : ~u.lists[l].timer
      BY <2>5 DEF Idle
    <3>3. u \in [lists : Lists, current : 0..MaxLists]
      BY <2>5
    <3>4. QED
      BY <3>1, <3>2, <3>3, SoundIs
  <2>8. QED
    BY <2>6, <2>7 DEF u
<1>5. QED
  BY <1>3, <1>4

(* The end of a timer frees its list.                                        *)
LEMMA TimerEndedFacts ==
    ASSUME NEW C \in SUBSET (Nat \cup {Other}), NEW t, Sound(t, C), NEW leaving,
           NEW l, l \in 1..MaxLists
    PROVE  /\ Sound(TimerEnded(t, l, leaving), C \ leaving)
           /\ Registered(TimerEnded(t, l, leaving)) = Registered(t) \ leaving
<1> DEFINE u == [t EXCEPT !.lists[l].timer = FALSE]
           ls == [t.lists EXCEPT ![l].timer = FALSE]
<1>1. /\ t \in [lists : Lists, current : 0..MaxLists] /\ MaxLists \in Nat
      /\ \A m \in 1..MaxLists : /\ t.lists[m] \in [callbacks : SUBSET (Nat \cup {Other}), timer : BOOLEAN]
                                /\ t.lists[m].timer \in BOOLEAN
      /\ \E m \in 1..MaxLists : ~t.lists[m].timer
  BY SoundMeans
<1>2. \A m \in 1..MaxLists : t.lists[m].callbacks \subseteq C /\ (m = t.current <=> t.lists[m].callbacks # {})
  BY SoundMeans
<1>3. u = [lists |-> ls, current |-> t.current]
  <2>1. t \in [lists : Lists, current : 0..MaxLists] /\ l \in 1..MaxLists
    BY <1>1
  <2>2. u = [t EXCEPT !.lists[l].timer = FALSE]
    OBVIOUS
  <2> HIDE DEF u
  <2>3. QED
    BY <2>1, <2>2 DEF Lists
<1>4. ls \in Lists
  BY <1>1 DEF Lists
<1>5. \A m \in 1..MaxLists : /\ ls[m].timer = IF m = l THEN FALSE ELSE t.lists[m].timer
                             /\ ls[m].callbacks = t.lists[m].callbacks
  BY <1>1 DEF Lists
<1> HIDE DEF u, ls
<1>6. /\ u \in [lists : Lists, current : 0..MaxLists] /\ u.current = t.current
      /\ \A m \in 1..MaxLists : /\ u.lists[m].timer = IF m = l THEN FALSE ELSE t.lists[m].timer
                                /\ u.lists[m].callbacks = t.lists[m].callbacks
  BY <1>1, <1>3, <1>4, <1>5
<1>7. Registered(u) = Registered(t)
  BY <1>6 DEF Registered
<1>8. Sound(u, C)
  <2>1. \A m \in 1..MaxLists : /\ u.lists[m].callbacks \subseteq C
                               /\ m = u.current <=> u.lists[m].callbacks # {}
    <3>1. ASSUME NEW m \in 1..MaxLists
          PROVE  u.lists[m].callbacks \subseteq C /\ (m = u.current <=> u.lists[m].callbacks # {})
      BY <1>2, <1>6, ZenonT(60)
    <3>2. QED
      BY <3>1
  <2>2. \E m \in 1..MaxLists : ~u.lists[m].timer
    BY <1>6
  <2>3. u \in [lists : Lists, current : 0..MaxLists]
    BY <1>6
  <2>4. QED
    BY <2>1, <2>2, <2>3, SoundIs
<1>9. /\ Sound(Off(u, leaving), C \ leaving)
      /\ Registered(Off(u, leaving)) = Registered(u) \ leaving
  BY <1>8, OffFacts
<1>10. QED
  BY <1>7, <1>9 DEF u, TimerEnded

(* At the start there are no callbacks and no timers.                        *)
LEMMA NoThrottleFacts ==
    ASSUME NEW C \in SUBSET (Nat \cup {Other})
    PROVE  Sound(NoThrottle, C) /\ Registered(NoThrottle) = {}
<1> DEFINE ls == [l \in 1..MaxLists |-> [callbacks |-> {}, timer |-> FALSE]]
<1>1. MaxLists \in Nat /\ MaxLists > 1
  BY MediaScanAssumption
<1>2. NoThrottle = [lists |-> ls, current |-> 0]
  BY DEF NoThrottle
<1>3. ls \in Lists /\ \A l \in 1..MaxLists : ls[l].callbacks = {} /\ ls[l].timer = FALSE
  BY DEF Lists
<1> HIDE DEF ls
<1>4. /\ NoThrottle \in [lists : Lists, current : 0..MaxLists] /\ NoThrottle.current = 0
      /\ DOMAIN NoThrottle.lists = 1..MaxLists
      /\ \A l \in 1..MaxLists : NoThrottle.lists[l].callbacks = {} /\ NoThrottle.lists[l].timer = FALSE
  BY <1>1, <1>2, <1>3 DEF Lists
<1>5. \E l \in 1..MaxLists : ~NoThrottle.lists[l].timer
  BY <1>1, <1>4
<1>6. Registered(NoThrottle) = {}
  BY <1>4 DEF Registered
<1>7. \A l \in 1..MaxLists : /\ NoThrottle.lists[l].callbacks \subseteq C
                             /\ l = NoThrottle.current <=> NoThrottle.lists[l].callbacks # {}
  BY <1>1, <1>4
<1>8. Sound(NoThrottle, C)
  BY <1>4, <1>5, <1>7, SoundIs
<1>9. QED
  BY <1>6, <1>8

-----------------------------------------------------------------------------
(* Types, step by step                                                      *)

(* What Basics says, in the form in which the steps need it.                 *)
LEMMA BasicsMean ==
    ASSUME Basics
    PROVE  /\ inDocument \subseteq Elements /\ src \in [Elements -> Sources]
           /\ added \in Seq(Elements) /\ removed \in Seq(Elements)
           /\ removalsFirst \in BOOLEAN /\ delivering \in BOOLEAN
           /\ scans \in Seq(Scan) /\ Len(scans) \in Nat /\ DOMAIN scans = 1..Len(scans)
           /\ Len(scans) + 1 \notin DOMAIN scans
           /\ \A n \in DOMAIN scans : /\ n \in Nat /\ scans[n].el \in Elements
                                      /\ scans[n].hash \in Sources /\ scans[n].shown \in BOOLEAN
           /\ changes \in [DOMAIN scans -> 0..MaxRecords] /\ MaxRecords \in Nat
           /\ \A n \in DOMAIN scans : changes[n] \in Nat
           /\ live \subseteq removers
           /\ removers \subseteq DOMAIN scans /\ \A n \in removers : scans[n].shown
           /\ live \subseteq DOMAIN scans /\ live \subseteq Nat /\ Other \notin live
           /\ watching \subseteq DOMAIN scans /\ found \subseteq Sources \X Elements
           /\ Sound(throttle, live \cup {Other})
           /\ live \cup {Other} \in SUBSET (Nat \cup {Other})
           /\ live \subseteq Registered(throttle) /\ unheard \subseteq Registered(throttle)
           /\ scanned \subseteq Elements /\ astray \subseteq Elements
           /\ delivering \/ scanned = {}
<1>1. TypeOK /\ ThrottleInv /\ changes \in [DOMAIN scans -> 0..MaxRecords]
      /\ (delivering \/ scanned = {})
  BY DEF Basics
<1>2. scans \in Seq(Scan) /\ Len(scans) \in Nat /\ DOMAIN scans = 1..Len(scans)
      /\ Len(scans) + 1 \notin DOMAIN scans
  <2>1. scans \in Seq(Scan)
    BY <1>1 DEF TypeOK
  <2>2. QED
    BY <2>1
<1>3. \A n \in DOMAIN scans : /\ n \in Nat /\ scans[n].el \in Elements
                              /\ scans[n].hash \in Sources /\ scans[n].shown \in BOOLEAN
  <2>1. \A n \in DOMAIN scans : scans[n] \in Scan /\ n \in Nat
    BY <1>2
  <2>2. QED
    BY <2>1 DEF Scan
<1>4. MaxRecords \in Nat /\ \A n \in DOMAIN scans : changes[n] \in Nat
  BY <1>1, MediaScanAssumption
<1>5. /\ live \subseteq removers
      /\ removers \subseteq DOMAIN scans /\ \A n \in removers : scans[n].shown
  BY <1>1 DEF TypeOK
<1>6. live \subseteq DOMAIN scans /\ live \subseteq Nat /\ Other \notin live
  BY <1>3, <1>5, MediaScanAssumption
<1>7. Sound(throttle, live \cup {Other})
  BY <1>1 DEF TypeOK, ThrottleInv, Sound
<1>8. live \cup {Other} \in SUBSET (Nat \cup {Other})
  BY <1>6
<1>9. QED
  BY <1>1, <1>2, <1>3, <1>4, <1>5, <1>6, <1>7, <1>8 DEF TypeOK

(* What a step has to show for Basics to hold after it.                      *)
LEMMA BasicsNext ==
    ASSUME inDocument' \subseteq Elements, src' \in [Elements -> Sources],
           added' \in Seq(Elements), removed' \in Seq(Elements),
           removalsFirst' \in BOOLEAN, delivering' \in BOOLEAN,
           scans' \in Seq(Scan), changes' \in [DOMAIN scans' -> 0..MaxRecords],
           live' \subseteq removers', removers' \subseteq DOMAIN scans',
           \A n \in removers' : scans'[n].shown,
           watching' \subseteq DOMAIN scans', found' \subseteq Sources \X Elements,
           Sound(throttle', live' \cup {Other}),
           live' \subseteq Registered(throttle'), unheard' \subseteq Registered(throttle'),
           scanned' \subseteq Elements, astray' \subseteq Elements,
           delivering' \/ scanned' = {}
    PROVE  Basics'
<1>1. DOMAIN changes' = DOMAIN scans' /\ \A n \in DOMAIN scans' : changes'[n] \in 0..MaxRecords
  OBVIOUS
<1>2. removers' \subseteq {n \in DOMAIN scans' : scans'[n].shown}
  OBVIOUS
<1>3. IsThrottle(throttle, live \cup {Other})' /\ ThrottleInv'
  BY DEF Sound, ThrottleInv
<1>4. TypeOK'
  BY <1>1, <1>2, <1>3 DEF TypeOK
<1>5. QED
  BY <1>3, <1>4 DEF Basics

(* What a scan leaves, whatever is kept of the former closures.              *)
Scanned(e, big, rest, k) ==
    /\ k = Len(scans) + 1 /\ k \in Nat /\ DOMAIN scans = 1..(k - 1)
    /\ DOMAIN scans' = DOMAIN scans \cup {k} /\ k \notin DOMAIN scans
    /\ scans'[k].el = e /\ scans'[k].hash = src[e] /\ scans'[k].shown = big
    /\ src[e] \in Sources
    /\ \A i \in DOMAIN scans : scans'[i] = scans[i]
    /\ live' = rest.live \cup (IF big THEN {k} ELSE {})
    /\ watching' = rest.watching \cup {k}
    /\ found' = rest.found \cup (IF big THEN {<<src[e], e>>} ELSE {})
    /\ scanned' = scanned \cup {e}

(* scanMedia, in types: the new indicator's callback is registered, and      *)
(* those that were torn down are taken off.                                  *)
LEMMA ScanFacts ==
    ASSUME Basics, NEW e \in Elements, NEW big \in BOOLEAN, NEW rest,
           rest.live \subseteq live, rest.watching \subseteq watching, rest.found \subseteq found,
           ScanMedia(e, big, rest)
    PROVE  /\ \E k : Scanned(e, big, rest, k)
           /\ scans' \in Seq(Scan) /\ DOMAIN scans' = DOMAIN scans \cup {Len(scans) + 1}
           /\ live' \subseteq removers' /\ removers' \subseteq DOMAIN scans'
           /\ \A i \in removers' : scans'[i].shown
           /\ watching' \subseteq DOMAIN scans' /\ found' \subseteq Sources \X Elements
           /\ Sound(throttle', live' \cup {Other})
           /\ live' \subseteq Registered(throttle') /\ unheard' \subseteq Registered(throttle')
           /\ scanned' \subseteq Elements
<1> DEFINE n == Len(scans) + 1
           new == IF big THEN {n} ELSE {}
           off == Off(throttle, live \ rest.live)
<1>1. /\ scans' = Append(scans, [el |-> e, hash |-> src[e], shown |-> big])
      /\ live' = rest.live \cup new /\ watching' = rest.watching \cup {n}
      /\ removers' = removers \cup new
      /\ found' = rest.found \cup (IF big THEN {<<src[e], e>>} ELSE {})
      /\ throttle' = (IF big THEN On(off, n) ELSE off)
      /\ unheard' = unheard \ (live \ rest.live) /\ scanned' = scanned \cup {e}
  BY DEF ScanMedia
<1>2. /\ scans \in Seq(Scan) /\ [el |-> e, hash |-> src[e], shown |-> big] \in Scan
      /\ src[e] \in Sources
  BY BasicsMean DEF Scan
<1>3. /\ scans' \in Seq(Scan) /\ DOMAIN scans' = DOMAIN scans \cup {n}
      /\ scans'[n] = [el |-> e, hash |-> src[e], shown |-> big]
      /\ \A i \in DOMAIN scans : scans'[i] = scans[i]
      /\ n \in Nat
  BY <1>1, <1>2, AppendFacts
<1>4. Scanned(e, big, rest, n)
  <2>1. Len(scans) \in Nat /\ DOMAIN scans = 1..Len(scans) /\ n \notin DOMAIN scans
    BY BasicsMean
  <2>2. DOMAIN scans = 1..(n - 1)
    BY <2>1
  <2> HIDE DEF n
  <2>3. scans'[n].el = e /\ scans'[n].hash = src[e] /\ scans'[n].shown = big
    BY <1>3
  <2>4. n = Len(scans) + 1
    BY DEF n
  <2>5. QED
    BY <1>1, <1>2, <1>3, <2>1, <2>2, <2>3, <2>4 DEF Scanned
<1>5. live' \subseteq removers' /\ removers' \subseteq DOMAIN scans'
  <2>1. live \subseteq removers /\ removers \subseteq DOMAIN scans
    BY BasicsMean
  <2>2. QED
    BY <1>1, <1>3, <2>1
<1>6. \A i \in removers' : scans'[i].shown
  <2> SUFFICES ASSUME NEW i \in removers' PROVE scans'[i].shown
    OBVIOUS
  <2>1. CASE i \in removers
    <3>1. i \in DOMAIN scans /\ scans[i].shown
      BY <2>1, BasicsMean
    <3>2. QED
      BY <1>3, <3>1
  <2>2. CASE i \notin removers
    <3>1. big /\ i = n
      BY <1>1, <2>2
    <3>2. QED
      BY <1>3, <3>1
  <2>3. QED
    BY <2>1, <2>2
<1>7. watching' \subseteq DOMAIN scans' /\ found' \subseteq Sources \X Elements /\ scanned' \subseteq Elements
  <2>1. watching \subseteq DOMAIN scans /\ found \subseteq Sources \X Elements /\ scanned \subseteq Elements
    BY BasicsMean
  <2>2. QED
    BY <1>1, <1>2, <1>3, <2>1
<1>8. /\ Sound(off, rest.live \cup {Other}) /\ rest.live \cup {Other} \in SUBSET (Nat \cup {Other})
      /\ rest.live \subseteq Registered(off) /\ unheard' \subseteq Registered(off)
  <2>1. /\ Sound(throttle, live \cup {Other}) /\ live \cup {Other} \in SUBSET (Nat \cup {Other})
        /\ live \subseteq Registered(throttle) /\ unheard \subseteq Registered(throttle)
        /\ Other \notin live
    BY BasicsMean
  <2>2. PICK C : C = live \cup {Other}
    OBVIOUS
  <2>3. PICK cs : cs = live \ rest.live
    OBVIOUS
  <2>4. PICK t : t = throttle
    OBVIOUS
  <2>5. Sound(Off(t, cs), C \ cs) /\ Registered(Off(t, cs)) = Registered(t) \ cs
    BY <2>1, <2>2, <2>4, OffFacts
  <2>6. C \ cs = rest.live \cup {Other}
    BY <2>1, <2>2, <2>3
  <2>7. off = Off(t, cs)
    BY <2>3, <2>4
  <2> HIDE DEF off
  <2>8. QED
    BY <1>1, <2>1, <2>3, <2>4, <2>5, <2>6, <2>7
<1> HIDE DEF off
<1>9. /\ Sound(throttle', live' \cup {Other})
      /\ live' \subseteq Registered(throttle') /\ unheard' \subseteq Registered(throttle')
  <2>1. CASE big
    <3>1. PICK C : C = rest.live \cup {Other}
      OBVIOUS
    <3>2. PICK t : t = off
      OBVIOUS
    <3>3. PICK c \in Nat : c = n
      BY <1>3
    <3>4. Sound(On(t, c), C \cup {c}) /\ Registered(On(t, c)) = Registered(t) \cup {c}
      BY <1>8, <3>1, <3>2, <3>3, OnFacts, ZenonT(60)
    <3>5. throttle' = On(t, c) /\ live' = rest.live \cup {c} /\ C \cup {c} = live' \cup {Other}
      BY <1>1, <2>1, <3>1, <3>2, <3>3
    <3> HIDE DEF n
    <3>6. QED
      BY <1>8, <3>2, <3>4, <3>5
  <2>2. CASE ~big
    BY <1>1, <1>8, <2>2
  <2>3. QED
    BY <2>1, <2>2
<1>10. QED
  BY <1>1, <1>3, <1>4, <1>5, <1>6, <1>7, <1>9

(* Counts of records are kept for each scan, in its order.                   *)
LEMMA AppendCount ==
    ASSUME Basics, NEW c \in [DOMAIN scans -> 0..MaxRecords]
    PROVE  /\ Append(c, 0) \in [DOMAIN scans \cup {Len(scans) + 1} -> 0..MaxRecords]
           /\ Append(c, 0)[Len(scans) + 1] = 0
           /\ \A i \in DOMAIN scans : Append(c, 0)[i] = c[i]
<1>1. Len(scans) \in Nat /\ DOMAIN scans = 1..Len(scans) /\ 0 \in 0..MaxRecords
  BY BasicsMean
<1>2. c \in Seq(0..MaxRecords) /\ Len(c) = Len(scans)
  <2>1. PICK N \in Nat : N = Len(scans)
    BY <1>1
  <2>s. PICK S : S = 0..MaxRecords
    OBVIOUS
  <2>2. c \in [1..N -> S]
    BY <1>1, <2>1, <2>s
  <2>3. c \in Seq(S)
    BY <2>2
  <2>4. Len(c) \in Nat /\ 1..Len(c) = 1..N
    BY <2>2, <2>3
  <2>5. Len(c) = N
    <3>1. ASSUME Len(c) < N PROVE FALSE
      <4>1. Len(c) + 1 \in 1..N /\ Len(c) + 1 \notin 1..Len(c)
        BY <2>4, <3>1
      <4>2. QED
        BY <2>4, <4>1
    <3>2. ASSUME N < Len(c) PROVE FALSE
      <4>1. N + 1 \in 1..Len(c) /\ N + 1 \notin 1..N
        BY <2>4, <3>2
      <4>2. QED
        BY <2>4, <4>1
    <3>3. QED
      BY <2>4, <3>1, <3>2
  <2>6. QED
    BY <2>1, <2>s, <2>3, <2>5
<1>3. /\ Append(c, 0) \in Seq(0..MaxRecords) /\ DOMAIN Append(c, 0) = DOMAIN scans \cup {Len(scans) + 1}
      /\ Append(c, 0)[Len(scans) + 1] = 0 /\ \A i \in DOMAIN scans : Append(c, 0)[i] = c[i]
  BY <1>1, <1>2, AppendFacts
<1>4. Append(c, 0) \in [DOMAIN scans \cup {Len(scans) + 1} -> 0..MaxRecords]
  <2> DEFINE d == Append(c, 0)
  <2>1. d \in Seq(0..MaxRecords) /\ DOMAIN d = DOMAIN scans \cup {Len(scans) + 1}
    BY <1>3
  <2> HIDE DEF d
  <2>2. d \in [DOMAIN d -> 0..MaxRecords]
    <3>1. PICK S : S = 0..MaxRecords
      OBVIOUS
    <3>2. d \in Seq(S)
      BY <2>1, <3>1
    <3>3. d \in [1..Len(d) -> S]
      BY <3>2
    <3>4. QED
      BY <3>1, <3>3
  <2>3. QED
    BY <2>1, <2>2 DEF d
<1>5. QED
  BY <1>3, <1>4

(* The element of a delivered change, and the closure that is called.        *)
LEMMA ToldFacts ==
    ASSUME Basics, NEW told, told = {m \in DOMAIN changes : changes[m] > 0}, told # {}
    PROVE  /\ Min(told) \in DOMAIN scans /\ changes[Min(told)] > 0
           /\ scans[Min(told)].el \in Elements
           /\ [changes EXCEPT ![Min(told)] = @ - 1] \in [DOMAIN scans -> 0..MaxRecords]
<1>1. /\ Len(scans) \in Nat /\ DOMAIN scans = 1..Len(scans)
      /\ changes \in [DOMAIN scans -> 0..MaxRecords] /\ MaxRecords \in Nat
  BY BasicsMean
<1>2. told \in SUBSET (1..Len(scans))
  BY <1>1
<1>3. Min(told) \in told
  BY <1>1, <1>2, MinIn
<1>4. PICK n : n = Min(told)
  OBVIOUS
<1>5. n \in DOMAIN scans /\ changes[n] > 0 /\ changes[n] \in 0..MaxRecords
  BY <1>1, <1>3, <1>4
<1>6. changes[n] - 1 \in 0..MaxRecords
  BY <1>1, <1>5
<1>7. [changes EXCEPT ![n] = @ - 1] \in [DOMAIN scans -> 0..MaxRecords]
  BY <1>1, <1>5, <1>6
<1>8. scans[n].el \in Elements
  BY <1>5, BasicsMean
<1>9. QED
  BY <1>4, <1>5, <1>7, <1>8

(* What DeliverChange keeps of the closures; its step without the LET.       *)
ChangeKept(n, e) ==
    [live |-> live \ {n}, watching |-> watching \ {n},
     found |-> IF scans[n].shown THEN Without(found, e, {n}) ELSE found]
Told == {m \in DOMAIN changes : changes[m] > 0}

(* The step calls one closure, once less than before, and scans its element. *)
LEMMA DeliverChangeIs ==
    ASSUME Basics, DeliverChange
    PROVE  \E n \in DOMAIN scans, big \in BOOLEAN :
              \E e \in Elements : 
                /\ delivering /\ added = <<>> /\ removed = <<>>
                /\ n = Min(Told) /\ e = scans[n].el /\ changes[n] > 0
                /\ ScanMedia(e, big, ChangeKept(n, e))
                /\ changes' \in [DOMAIN scans \cup {Len(scans) + 1} -> 0..MaxRecords]
                /\ changes'[Len(scans) + 1] = 0 /\ changes'[n] \in Nat
                /\ \A i \in DOMAIN scans : i # n => changes'[i] = changes[i]
                /\ astray' = IF e \in scanned \/ e \notin inDocument THEN astray \cup {e} ELSE astray
                /\ UNCHANGED <<document, added, removed, removalsFirst, delivering>>
<1> DEFINE told == Told
           n == Min(told)
           e == scans[n].el
           c == [changes EXCEPT ![n] = @ - 1]
<1>1. /\ delivering /\ added = <<>> /\ removed = <<>> /\ told # {}
      /\ \E big \in BOOLEAN : ScanMedia(e, big, ChangeKept(n, e))
      /\ changes' = Append(c, 0)
      /\ astray' = IF e \in scanned \/ e \notin inDocument THEN astray \cup {e} ELSE astray
      /\ UNCHANGED <<document, added, removed, removalsFirst, delivering>>
  BY DEF DeliverChange, ChangeKept, Told
<1>2. n \in DOMAIN scans /\ changes[n] > 0 /\ e \in Elements /\ c \in [DOMAIN scans -> 0..MaxRecords]
  BY <1>1, ToldFacts DEF Told
<1>3. PICK d : d = c
  OBVIOUS
<1>4. /\ changes' \in [DOMAIN scans \cup {Len(scans) + 1} -> 0..MaxRecords]
      /\ changes'[Len(scans) + 1] = 0
      /\ \A i \in DOMAIN scans : changes'[i] = d[i]
  BY <1>1, <1>2, <1>3, AppendCount
<1>5. changes \in [DOMAIN scans -> 0..MaxRecords] /\ MaxRecords \in Nat
  BY BasicsMean
<1>6. \A i \in DOMAIN scans : i # n => d[i] = changes[i]
  <2> HIDE DEF n
  <2>1. QED
    BY <1>2, <1>3, <1>5
<1>7. d[n] \in Nat
  <2>1. d \in [DOMAIN scans -> 0..MaxRecords]
    BY <1>2, <1>3
  <2> HIDE DEF n
  <2>2. QED
    BY <1>2, <1>5, <2>1
<1> HIDE DEF e, n, c
<1>8. n = Min(Told) /\ e = scans[n].el
  BY DEF e, n
<1>9. QED
  BY <1>1, <1>2, <1>4, <1>6, <1>7, <1>8

-----------------------------------------------------------------------------
(* A scan keeps the types, in whatever delivery.                             *)
LEMMA ScanBasics ==
    ASSUME Basics, NEW e \in Elements, NEW big \in BOOLEAN, NEW rest,
           rest.live \subseteq live, rest.watching \subseteq watching, rest.found \subseteq found,
           ScanMedia(e, big, rest), delivering,
           changes' \in [DOMAIN scans \cup {Len(scans) + 1} -> 0..MaxRecords],
           added' \in Seq(Elements), removed' \in Seq(Elements), astray' \subseteq astray \cup {e},
           UNCHANGED <<document, removalsFirst, delivering>>
    PROVE  Basics'
<1>1. /\ scans' \in Seq(Scan) /\ DOMAIN scans' = DOMAIN scans \cup {Len(scans) + 1}
      /\ live' \subseteq removers' /\ removers' \subseteq DOMAIN scans'
      /\ \A i \in removers' : scans'[i].shown
      /\ watching' \subseteq DOMAIN scans' /\ found' \subseteq Sources \X Elements
      /\ Sound(throttle', live' \cup {Other})
      /\ live' \subseteq Registered(throttle') /\ unheard' \subseteq Registered(throttle')
      /\ scanned' \subseteq Elements
  BY ScanFacts
<1>2. /\ inDocument' \subseteq Elements /\ src' \in [Elements -> Sources]
      /\ removalsFirst' \in BOOLEAN /\ delivering' \in BOOLEAN /\ delivering'
      /\ astray' \subseteq Elements
  BY BasicsMean DEF document
<1>3. changes' \in [DOMAIN scans' -> 0..MaxRecords]
  BY <1>1
<1>4. QED
  BY <1>1, <1>2, <1>3, BasicsNext

(* An addition is delivered: a scan, or nothing.                             *)
LEMMA DeliverAdditionBasics == ASSUME Basics, DeliverAddition PROVE Basics'
<1> DEFINE e == Head(added)
<1>1. /\ delivering /\ added # <<>> /\ added' = Tail(added)
      /\ UNCHANGED <<document, removed, removalsFirst, delivering>>
  BY DEF DeliverAddition
<1>2. e \in Elements /\ added' \in Seq(Elements) /\ removed' \in Seq(Elements)
  <2>1. added \in Seq(Elements) /\ removed \in Seq(Elements)
    BY BasicsMean
  <2>2. QED
    BY <1>1, <2>1, TailFacts
<1>3. CASE e \in inDocument
  <2>1. PICK big \in BOOLEAN : ScanMedia(e, big, Kept)
    BY <1>3 DEF DeliverAddition
  <2>2. changes' = Append(changes, 0) /\ astray' \subseteq astray \cup {e}
    BY <1>3 DEF DeliverAddition
  <2>3. changes' \in [DOMAIN scans \cup {Len(scans) + 1} -> 0..MaxRecords]
    BY <2>2, BasicsMean, AppendCount
  <2>4. Kept.live = live /\ Kept.watching = watching /\ Kept.found = found
    BY DEF Kept
  <2>5. PICK rest : rest = Kept
    OBVIOUS
  <2>6. PICK x \in Elements : x = e
    BY <1>2
  <2>7. ScanMedia(x, big, rest)
    BY <2>1, <2>5, <2>6
  <2> HIDE DEF e
  <2>8. QED
    BY <1>1, <1>2, <2>2, <2>3, <2>4, <2>5, <2>6, <2>7, ScanBasics
<1>4. CASE e \notin inDocument
  <2>1. UNCHANGED <<document, removed, removalsFirst, delivering, indicators, changes, throttle,
                    unheard, scanned, astray>>
    BY <1>1, <1>4 DEF DeliverAddition
  <2>2. QED
    BY <1>2, <2>1, BasicsMean, BasicsNext DEF document, indicators
<1>5. QED
  BY <1>3, <1>4

(* A change is delivered: a scan that leaves all but one closure.            *)
LEMMA DeliverChangeBasics == ASSUME Basics, DeliverChange PROVE Basics'
<1>1. PICK n \in DOMAIN scans, big \in BOOLEAN, e \in Elements :
                /\ delivering /\ ScanMedia(e, big, ChangeKept(n, e))
                /\ changes' \in [DOMAIN scans \cup {Len(scans) + 1} -> 0..MaxRecords]
                /\ astray' = IF e \in scanned \/ e \notin inDocument THEN astray \cup {e} ELSE astray
                /\ UNCHANGED <<document, added, removed, removalsFirst, delivering>>
  BY DeliverChangeIs
<1>2. PICK rest : rest = ChangeKept(n, e)
  OBVIOUS
<1>3. rest.live \subseteq live /\ rest.watching \subseteq watching /\ rest.found \subseteq found
  BY <1>2 DEF ChangeKept, Without
<1>4. added' \in Seq(Elements) /\ removed' \in Seq(Elements) /\ astray' \subseteq astray \cup {e}
  BY <1>1, BasicsMean
<1>5. QED
  BY <1>1, <1>2, <1>3, <1>4, ScanBasics

(* A removal is delivered: what is torn down is taken off the list, and the  *)
(* rest stays on it.                                                         *)
LEMMA DeliverRemovalBasics == ASSUME Basics, DeliverRemoval PROVE Basics'
<1> DEFINE e == Head(removed)
           called == {n \in removers : scans[n].el = e}
<1>1. /\ delivering /\ removed # <<>> /\ removed' = Tail(removed)
      /\ removers' = removers \ called /\ found' = Without(found, e, called) /\ live' = live \ called
      /\ throttle' = Off(throttle, called) /\ unheard' = unheard \ called
      /\ UNCHANGED <<document, added, changes, removalsFirst, delivering, scans, watching,
                     scanned, astray>>
  BY DEF DeliverRemoval
<1>2. removed' \in Seq(Elements)
  <2>1. removed \in Seq(Elements)
    BY BasicsMean
  <2>2. QED
    BY <1>1, <2>1, TailFacts
<1>3. Other \notin called
  <2>1. \A n \in called : n \in Nat
    BY BasicsMean
  <2>2. QED
    BY <2>1, MediaScanAssumption
<1> HIDE DEF called
<1>4. /\ Sound(throttle', live' \cup {Other})
      /\ live' \subseteq Registered(throttle') /\ unheard' \subseteq Registered(throttle')
  <2>1. /\ Sound(throttle, live \cup {Other}) /\ live \cup {Other} \in SUBSET (Nat \cup {Other})
        /\ live \subseteq Registered(throttle) /\ unheard \subseteq Registered(throttle)
    BY BasicsMean
  <2>2. PICK C, t, cs : C = live \cup {Other} /\ t = throttle /\ cs = called
    OBVIOUS
  <2>3. Sound(Off(t, cs), C \ cs) /\ Registered(Off(t, cs)) = Registered(t) \ cs
    BY <2>1, <2>2, OffFacts
  <2>4. C \ cs = live' \cup {Other} /\ throttle' = Off(t, cs)
    BY <1>1, <1>3, <2>2
  <2>5. QED
    BY <1>1, <2>1, <2>2, <2>3, <2>4
<1>5. /\ live' \subseteq removers' /\ removers' \subseteq DOMAIN scans'
      /\ \A n \in removers' : scans'[n].shown
      /\ found' \subseteq Sources \X Elements
  <2>1. /\ live \subseteq removers /\ removers \subseteq DOMAIN scans
        /\ \A n \in removers : scans[n].shown
        /\ found \subseteq Sources \X Elements
    BY BasicsMean
  <2>2. QED
    BY <1>1, <2>1 DEF Without
<1>6. /\ inDocument' \subseteq Elements /\ src' \in [Elements -> Sources]
      /\ added' \in Seq(Elements) /\ removalsFirst' \in BOOLEAN /\ delivering' \in BOOLEAN
      /\ scans' \in Seq(Scan) /\ changes' \in [DOMAIN scans' -> 0..MaxRecords]
      /\ watching' \subseteq DOMAIN scans' /\ scanned' \subseteq Elements /\ astray' \subseteq Elements
      /\ delivering' \/ scanned' = {}
  BY <1>1, BasicsMean DEF document
<1>7. QED
  BY <1>2, <1>4, <1>5, <1>6, BasicsNext

(* Scripts change the document and the records, and nothing else.            *)
LEMMA ScriptBasics ==
    ASSUME Basics, ~delivering,
           \/ \E e \in Elements : InsertElement(e) \/ RemoveElement(e) \/ \E s \in Sources : SetAttribute(e, s)
           \/ Deliver
    PROVE  Basics'
<1>1. /\ removalsFirst' \in BOOLEAN /\ delivering' \in BOOLEAN
      /\ scanned' = {} /\ scanned' \subseteq Elements
      /\ UNCHANGED <<indicators, throttle, unheard, scanned, astray>>
  BY BasicsMean DEF InsertElement, RemoveElement, SetAttribute, Deliver
<1>2. /\ scans' \in Seq(Scan) /\ scans' = scans
      /\ live' \subseteq removers' /\ removers' \subseteq DOMAIN scans'
      /\ \A n \in removers' : scans'[n].shown
      /\ watching' \subseteq DOMAIN scans' /\ found' \subseteq Sources \X Elements
      /\ Sound(throttle', live' \cup {Other})
      /\ live' \subseteq Registered(throttle') /\ unheard' \subseteq Registered(throttle')
      /\ astray' \subseteq Elements
  BY <1>1, BasicsMean DEF indicators
<1>3. inDocument' \subseteq Elements /\ src' \in [Elements -> Sources]
  <2>1. inDocument \subseteq Elements /\ src \in [Elements -> Sources]
    BY BasicsMean
  <2>2. ASSUME NEW e \in Elements, NEW s \in Sources, SetAttribute(e, s)
        PROVE  inDocument' \subseteq Elements /\ src' \in [Elements -> Sources]
    <3>1. inDocument' = inDocument /\ src' = [src EXCEPT ![e] = s]
      BY <2>2 DEF SetAttribute
    <3>2. QED
      BY <2>1, <3>1
  <2>3. ASSUME NEW e \in Elements, InsertElement(e) \/ RemoveElement(e)
        PROVE  inDocument' \subseteq Elements /\ src' \in [Elements -> Sources]
    BY <2>1, <2>3 DEF InsertElement, RemoveElement
  <2>4. CASE Deliver
    BY <2>1, <2>4 DEF Deliver, document
  <2>5. QED
    BY <2>2, <2>3, <2>4
<1>4. added' \in Seq(Elements) /\ removed' \in Seq(Elements)
  <2>1. added \in Seq(Elements) /\ removed \in Seq(Elements)
    BY BasicsMean
  <2>2. \A e \in Elements : Append(added, e) \in Seq(Elements) /\ Append(removed, e) \in Seq(Elements)
    BY <2>1
  <2>3. QED
    BY <2>1, <2>2 DEF InsertElement, RemoveElement, SetAttribute, Deliver, records
<1>5. changes' \in [DOMAIN scans -> 0..MaxRecords]
  <2>1. changes \in [DOMAIN scans -> 0..MaxRecords] /\ MaxRecords \in Nat
    BY BasicsMean
  <2>2. ASSUME NEW e \in Elements, NEW s \in Sources, SetAttribute(e, s)
        PROVE  changes' \in [DOMAIN scans -> 0..MaxRecords]
    <3> DEFINE told == {n \in watching : scans[n].el = e}
    <3>1. /\ \A n \in told : changes[n] < MaxRecords
          /\ changes' = [n \in DOMAIN changes |-> IF n \in told THEN changes[n] + 1 ELSE changes[n]]
      BY <2>2 DEF SetAttribute
    <3> HIDE DEF told
    <3>2. QED
      BY <2>1, <3>1
  <2>3. QED
    BY <2>1, <2>2 DEF InsertElement, RemoveElement, Deliver, records
<1>6. changes' \in [DOMAIN scans' -> 0..MaxRecords] /\ (delivering' \/ scanned' = {})
  BY <1>1, <1>2, <1>5
<1>7. QED
  BY <1>1, <1>2, <1>3, <1>4, <1>6, BasicsNext

(* The end of a delivery only forgets what was scanned.                      *)
LEMMA DeliveredBasics == ASSUME Basics, Delivered PROVE Basics'
<1>1. UNCHANGED <<document, records, removalsFirst, indicators, throttle, unheard, astray>>
      /\ scanned' = {} /\ delivering' = FALSE
  BY DEF Delivered
<1>2. scanned' \subseteq Elements /\ (delivering' \/ scanned' = {}) /\ delivering' \in BOOLEAN
  BY <1>1
<1>3. QED
  BY <1>1, <1>2, BasicsMean, BasicsNext DEF document, records, indicators

(* Taking every callback of the indicators off.                              *)
LEMMA ReinitializeBasics == ASSUME Basics, Reinitialize PROVE Basics'
<1>1. /\ live' = {} /\ found' = {} /\ removers' = {} /\ watching' = {}
      /\ changes' = [n \in DOMAIN changes |-> 0]
      /\ throttle' = Off(throttle, live) /\ unheard' = unheard \ live
      /\ added' = SetToSeq(inDocument) /\ removed' = <<>> /\ removalsFirst' \in BOOLEAN
      /\ delivering' = TRUE /\ scanned' = {} /\ astray' = {}
      /\ UNCHANGED <<document, scans>>
  BY DEF Reinitialize
<1>2. added' \in Seq(Elements) /\ removed' \in Seq(Elements)
  <2>1. inDocument \subseteq Elements /\ IsFiniteSet(inDocument)
    BY BasicsMean, MediaScanAssumption, FS_Subset
  <2>2. PICK S : S = inDocument
    OBVIOUS
  <2>3. SetToSeq(S) \in Seq(S)
    BY <2>1, <2>2, SetToSeqFacts
  <2>4. PICK q : q = SetToSeq(S)
    OBVIOUS
  <2>5. q \in Seq(Elements)
    BY <2>1, <2>2, <2>3, <2>4
  <2>6. QED
    BY <1>1, <2>2, <2>4, <2>5
<1>3. changes' \in [DOMAIN scans' -> 0..MaxRecords]
  <2>1. changes \in [DOMAIN scans -> 0..MaxRecords] /\ MaxRecords \in Nat
    BY BasicsMean
  <2>2. QED
    BY <1>1, <2>1
<1>4. /\ Sound(throttle', live' \cup {Other}) /\ unheard' \subseteq Registered(throttle')
  <2>1. /\ Sound(throttle, live \cup {Other}) /\ live \cup {Other} \in SUBSET (Nat \cup {Other})
        /\ unheard \subseteq Registered(throttle) /\ Other \notin live
    BY BasicsMean
  <2>2. PICK C, t, cs : C = live \cup {Other} /\ t = throttle /\ cs = live
    OBVIOUS
  <2>3. Sound(Off(t, cs), C \ cs) /\ Registered(Off(t, cs)) = Registered(t) \ cs
    BY <2>1, <2>2, OffFacts
  <2>4. C \ cs = live' \cup {Other} /\ throttle' = Off(t, cs)
    BY <1>1, <2>1, <2>2
  <2>5. QED
    BY <1>1, <2>1, <2>2, <2>3, <2>4
<1>5. /\ inDocument' \subseteq Elements /\ src' \in [Elements -> Sources]
      /\ scans' \in Seq(Scan) /\ delivering' \in BOOLEAN
  BY <1>1, BasicsMean DEF document
<1>6. /\ live' \subseteq removers' /\ removers' \subseteq DOMAIN scans'
      /\ \A n \in removers' : scans'[n].shown
      /\ watching' \subseteq DOMAIN scans' /\ found' \subseteq Sources \X Elements
      /\ live' \subseteq Registered(throttle') /\ scanned' \subseteq Elements /\ astray' \subseteq Elements
      /\ delivering' \/ scanned' = {}
  BY <1>1
<1>7. QED
  BY <1>1, <1>2, <1>3, <1>4, <1>5, <1>6, BasicsNext

(* Between scripts only the lists of callbacks change.                       *)
LEMMA RestingBasics ==
    ASSUME Basics, Resting, Sound(throttle', live \cup {Other}),
           live \subseteq Registered(throttle'), unheard' \subseteq Registered(throttle')
    PROVE  Basics'
BY BasicsMean, BasicsNext DEF Resting, document, records, indicators

(* Scrolling.                                                                *)
LEMMA ScrollBasics == ASSUME Basics, Scroll PROVE Basics'
<1>1. /\ Sound(throttle, live \cup {Other}) /\ live \cup {Other} \in SUBSET (Nat \cup {Other})
      /\ live \subseteq Registered(throttle) /\ unheard \subseteq Registered(throttle)
  BY BasicsMean
<1>2. PICK C, t : C = live \cup {Other} /\ t = throttle
  OBVIOUS
<1>3. /\ Resting /\ Idle(t) # {} /\ throttle' = HandleEvent(t)
      /\ unheard' = unheard \cup Registered(t)
  BY <1>2 DEF Scroll
<1>4. Sound(HandleEvent(t), C) /\ Registered(HandleEvent(t)) = Registered(t)
  BY <1>1, <1>2, <1>3, HandleEventFacts
<1>5. QED
  BY <1>1, <1>2, <1>3, <1>4, RestingBasics

(* A timer ends: only the other callback may leave.                          *)
LEMMA ThrottledBasics == ASSUME Basics, NEW l \in 1..MaxLists, Throttled(l) PROVE Basics'
<1>1. /\ Sound(throttle, live \cup {Other}) /\ live \cup {Other} \in SUBSET (Nat \cup {Other})
      /\ live \subseteq Registered(throttle) /\ unheard \subseteq Registered(throttle)
      /\ Other \notin live
  BY BasicsMean
<1>2. PICK C, t : C = live \cup {Other} /\ t = throttle
  OBVIOUS
<1>3. PICK leaving \in SUBSET (t.lists[l].callbacks \cap {Other}) :
        /\ Resting /\ unheard' = unheard \ t.lists[l].callbacks
        /\ throttle' = TimerEnded(t, l, leaving)
  BY <1>2 DEF Throttled
<1>4. /\ Sound(TimerEnded(t, l, leaving), C \ leaving)
      /\ Registered(TimerEnded(t, l, leaving)) = Registered(t) \ leaving
  <2>1. C \in SUBSET (Nat \cup {Other}) /\ Sound(t, C) /\ l \in 1..MaxLists
    BY <1>1, <1>2
  <2>2. PICK lv : lv = leaving
    OBVIOUS
  <2>3. /\ Sound(TimerEnded(t, l, lv), C \ lv)
        /\ Registered(TimerEnded(t, l, lv)) = Registered(t) \ lv
    BY <2>1, TimerEndedFacts, ZenonT(60)
  <2>4. QED
    BY <2>2, <2>3
<1>5. unheard' \subseteq Registered(throttle') /\ live \subseteq Registered(throttle')
  BY <1>1, <1>2, <1>3, <1>4
<1>6. Sound(throttle', live \cup {Other})
  <2>1. \A D \in SUBSET (live \cup {Other}) : Sound(throttle', D) => Sound(throttle', live \cup {Other})
    BY SoundMeans, SoundIs
  <2>2. C \ leaving \in SUBSET (live \cup {Other})
    BY <1>2
  <2>3. QED
    BY <1>3, <1>4, <2>1, <2>2
<1>7. QED
  BY <1>3, <1>5, <1>6, RestingBasics

(* The other callback comes.                                                 *)
LEMMA OtherComesBasics == ASSUME Basics, OtherComes PROVE Basics'
<1>1. /\ Sound(throttle, live \cup {Other}) /\ live \cup {Other} \in SUBSET (Nat \cup {Other})
      /\ live \subseteq Registered(throttle) /\ unheard \subseteq Registered(throttle)
  BY BasicsMean
<1>2. PICK C, t : C = live \cup {Other} /\ t = throttle
  OBVIOUS
<1>3. Resting /\ throttle' = On(t, Other) /\ unheard' = unheard
  BY <1>2 DEF OtherComes
<1>4. Sound(On(t, Other), C \cup {Other}) /\ Registered(On(t, Other)) = Registered(t) \cup {Other}
  BY <1>1, <1>2, OnFacts
<1>5. C \cup {Other} = live \cup {Other}
  BY <1>2
<1>6. QED
  BY <1>1, <1>2, <1>3, <1>4, <1>5, RestingBasics

(* The page before its first scan.                                           *)
LEMMA InitBasics == ASSUME Init PROVE Basics
<1>1. /\ inDocument \in SUBSET Elements /\ src \in [Elements -> Sources]
      /\ added = SetToSeq(inDocument) /\ removed = <<>> /\ changes = <<>>
      /\ removalsFirst \in BOOLEAN /\ delivering = TRUE /\ scans = <<>>
      /\ live = {} /\ watching = {} /\ removers = {} /\ found = {}
      /\ throttle = NoThrottle /\ unheard = {} /\ scanned = {} /\ astray = {}
  BY DEF Init
<1>2. added \in Seq(Elements) /\ removed \in Seq(Elements)
  <2>1. inDocument \subseteq Elements /\ IsFiniteSet(inDocument)
    BY <1>1, MediaScanAssumption, FS_Subset
  <2>2. PICK S : S = inDocument
    OBVIOUS
  <2>3. SetToSeq(S) \in Seq(S)
    BY <2>1, <2>2, SetToSeqFacts
  <2>4. PICK q : q = SetToSeq(S)
    OBVIOUS
  <2>5. q \in Seq(Elements)
    BY <2>1, <2>2, <2>3, <2>4
  <2>6. QED
    BY <1>1, <2>2, <2>4, <2>5
<1>3. scans \in Seq(Scan) /\ DOMAIN scans = {} /\ DOMAIN changes = {}
  BY <1>1
<1>4. changes \in [DOMAIN scans -> 0..MaxRecords]
  BY <1>1, <1>3
<1>5. Sound(throttle, live \cup {Other}) /\ Registered(throttle) = {}
  <2>1. PICK C : C = {Other}
    OBVIOUS
  <2>2. Sound(NoThrottle, C) /\ Registered(NoThrottle) = {}
    BY <2>1, NoThrottleFacts
  <2>3. QED
    BY <1>1, <2>1, <2>2
<1>6. IsThrottle(throttle, live \cup {Other}) /\ ThrottleInv
  BY <1>5 DEF Sound, ThrottleInv
<1>7. TypeOK
  BY <1>1, <1>2, <1>3, <1>5, <1>6 DEF TypeOK
<1>8. QED
  BY <1>1, <1>4, <1>6, <1>7 DEF Basics

(* TypeOK, with what is needed beside it, is inductive.                      *)
LEMMA StepBasics == ASSUME Basics, [Next]_vars PROVE Basics'
<1>1. CASE UNCHANGED vars
  BY <1>1, BasicsMean, BasicsNext DEF vars, document, records, indicators
<1>2. CASE Delivery
  BY <1>2, DeliverAdditionBasics, DeliverRemovalBasics, DeliverChangeBasics, DeliveredBasics DEF Delivery
<1>3. CASE \/ \E e \in Elements : InsertElement(e) \/ RemoveElement(e) \/ \E s \in Sources : SetAttribute(e, s)
           \/ Deliver
  <2>1. ~delivering
    BY <1>3 DEF InsertElement, RemoveElement, SetAttribute, ScriptRuns, Deliver
  <2>2. QED
    BY <1>3, <2>1, ScriptBasics
<1>4. CASE Reinitialize
  BY <1>4, ReinitializeBasics
<1>5. CASE Scroll \/ OtherComes \/ \E l \in 1..MaxLists : Throttled(l)
  BY <1>5, ScrollBasics, OtherComesBasics, ThrottledBasics
<1>6. QED
  BY <1>1, <1>2, <1>3, <1>4, <1>5 DEF Next

(* The types, what a list of callbacks may hold, and that nothing counts as  *)
(* scanned between deliveries.                                               *)
THEOREM BasicsHold == Spec => []Basics
<1>1. Init => Basics
  BY InitBasics
<1>2. Basics /\ [Next]_vars => Basics'
  BY StepBasics
<1>3. QED
  BY <1>1, <1>2, PTL DEF Spec

(* What has an indicator has a removal listener and a callback that is       *)
(* registered; observers, listeners and records are of scans that were made: *)
(* for any elements, scans, records and lists.                               *)
THEOREM MediaScanTypeCorrect == Spec => []TypeOK
<1>1. Basics => TypeOK
  BY DEF Basics
<1>2. QED
  BY <1>1, BasicsHold, PTL

-----------------------------------------------------------------------------
(* One element                                                              *)

(* The newest scan of an element is one of its scans.                        *)
LEMMA NewestIn ==
    ASSUME Basics, NEW e, Mine(e) # {}
    PROVE  Newest(e) \in Mine(e) /\ Newest(e) \in DOMAIN scans
<1>1. Len(scans) \in Nat /\ Mine(e) \in SUBSET (1..Len(scans))
  BY BasicsMean DEF Mine
<1>2. Newest(e) \in Mine(e)
  BY <1>1, MaxIn DEF Newest
<1>3. QED
  BY <1>2 DEF Mine

(* A step does nothing to element f, apart from records of it.               *)
Same(f) ==
    /\ Mine(f)' = Mine(f)
    /\ \A n \in Mine(f) : /\ scans'[n] = scans[n] /\ changes'[n] = changes[n]
                          /\ n \in live' <=> n \in live
                          /\ n \in watching' <=> n \in watching
    /\ FoundAs(f)' = FoundAs(f)
    /\ f \in inDocument' <=> f \in inDocument
    /\ src'[f] = src[f]

(* Then its newest scan, its indicators and what is due are the same.        *)
LEMMA SameFacts ==
    ASSUME Basics, NEW f, Same(f)
    PROVE  /\ Newest(f)' = Newest(f) /\ Lit(f)' = Lit(f) /\ Due(f)' = Due(f)
           /\ {scans'[n].hash : n \in Lit(f)} = {scans[n].hash : n \in Lit(f)}
           /\ {scans'[n].hash : n \in Due(f)} = {scans[n].hash : n \in Due(f)}
           /\ Lit(f) \subseteq Mine(f) /\ Due(f) \subseteq Mine(f)
           /\ Mine(f) # {} => Newest(f) \in Mine(f)
<1>1. Newest(f)' = Newest(f) /\ Lit(f)' = Lit(f)
  BY DEF Same, Newest, Lit
<1>2. Mine(f) # {} => Newest(f) \in Mine(f)
  BY NewestIn
<1>3. Due(f)' = Due(f)
  BY <1>1, <1>2 DEF Same, Due
<1>4. Lit(f) \subseteq Mine(f) /\ Due(f) \subseteq Mine(f)
  BY <1>2 DEF Lit, Due
<1>5. \A n \in Mine(f) : scans'[n].hash = scans[n].hash
  BY DEF Same
<1>6. {scans'[n].hash : n \in Lit(f)} = {scans[n].hash : n \in Lit(f)}
  BY <1>4, <1>5
<1>7. {scans'[n].hash : n \in Due(f)} = {scans[n].hash : n \in Due(f)}
  BY <1>4, <1>5
<1>8. QED
  BY <1>1, <1>2, <1>3, <1>4, <1>6, <1>7

(* And so is what is known of it, if the records of it are the same.         *)
LEMMA SameKept ==
    ASSUME Basics, NEW f, Same(f),
           f \in ToSet(added)' <=> f \in ToSet(added), f \in ToSet(removed)' <=> f \in ToSet(removed)
    PROVE  /\ Waiting(f) => Waiting(f)'
           /\ Fresh(f) => Fresh(f)'
           /\ Doomed(f) => Doomed(f)'
<1>1. /\ Newest(f)' = Newest(f) /\ Lit(f)' = Lit(f) /\ Due(f)' = Due(f)
      /\ {scans'[n].hash : n \in Lit(f)} = {scans[n].hash : n \in Lit(f)}
      /\ {scans'[n].hash : n \in Due(f)} = {scans[n].hash : n \in Due(f)}
      /\ Mine(f) # {} => Newest(f) \in Mine(f)
      /\ Due(f) # {} => Newest(f) \in Mine(f)
  <2>1. Due(f) # {} => Mine(f) # {}
    BY DEF Due
  <2>2. QED
    BY <2>1, SameFacts
<1>2. /\ Mine(f)' = Mine(f)
      /\ \A n \in Mine(f) : /\ scans'[n].hash = scans[n].hash /\ changes'[n] = changes[n]
                            /\ n \in live' <=> n \in live
                            /\ n \in watching' <=> n \in watching
      /\ FoundAs(f)' = FoundAs(f)
      /\ f \in inDocument' <=> f \in inDocument
      /\ src'[f] = src[f]
  BY DEF Same
<1>3. Doomed(f) => Doomed(f)'
  BY <1>2 DEF Doomed
<1>4. ASSUME Fresh(f) PROVE Fresh(f)'
  <2>1. /\ f \in inDocument /\ f \notin ToSet(removed) /\ Mine(f) # {} /\ Newest(f) \in watching
        /\ Lit(f) = Due(f) /\ FoundAs(f) = {scans[n].hash : n \in Due(f)}
        /\ Due(f) # {} => src[f] = scans[Newest(f)].hash
    BY <1>4 DEF Fresh
  <2>2. FoundAs(f)' = {scans'[n].hash : n \in Due(f)'}
    BY <1>1, <1>2, <2>1
  <2>3. Due(f)' # {} => src'[f] = scans'[Newest(f)'].hash
    BY <1>1, <1>2, <2>1
  <2>4. f \in inDocument' /\ f \notin ToSet(removed)' /\ Mine(f)' # {} /\ Newest(f)' \in watching' /\ Lit(f)' = Due(f)'
    BY <1>1, <1>2, <2>1
  <2>5. QED
    BY <2>2, <2>3, <2>4 DEF Fresh
<1>5. ASSUME Waiting(f) PROVE Waiting(f)'
  <2>1. /\ FoundAs(f) = {scans[n].hash : n \in Lit(f)}
        /\ f \in ToSet(removed) /\ f \in inDocument => f \in ToSet(added)
        /\ f \notin ToSet(removed) /\ (f \in ToSet(added) \/ f \notin inDocument) => Lit(f) = {}
        /\ f \notin ToSet(removed) /\ f \notin ToSet(added) /\ f \in inDocument =>
               /\ Mine(f) # {} /\ Newest(f) \in watching /\ Lit(f) = Due(f)
               /\ Due(f) # {} => src[f] = scans[Newest(f)].hash \/ changes[Newest(f)] > 0
        /\ \A n \in Mine(f) : changes[n] > 0 => n \in watching
        /\ \A m, n \in Mine(f) \cap watching : changes[m] = changes[n]
    BY <1>5 DEF Waiting
  <2>2. FoundAs(f)' = {scans'[n].hash : n \in Lit(f)'}
    BY <1>1, <1>2, <2>1
  <2>3. f \notin ToSet(removed)' /\ f \notin ToSet(added)' /\ f \in inDocument' =>
               /\ Mine(f)' # {} /\ Newest(f)' \in watching' /\ Lit(f)' = Due(f)'
               /\ Due(f)' # {} => src'[f] = scans'[Newest(f)'].hash \/ changes'[Newest(f)'] > 0
    BY <1>1, <1>2, <2>1
  <2>4. \A n \in Mine(f)' : changes'[n] > 0 => n \in watching'
    BY <1>2, <2>1
  <2>5. \A m, n \in Mine(f)' \cap watching' : changes'[m] = changes'[n]
    BY <1>2, <2>1
  <2>6. /\ f \in ToSet(removed)' /\ f \in inDocument' => f \in ToSet(added)'
        /\ f \notin ToSet(removed)' /\ (f \in ToSet(added)' \/ f \notin inDocument') => Lit(f)' = {}
    BY <1>1, <1>2, <2>1
  <2>7. QED
    BY <2>2, <2>3, <2>4, <2>5, <2>6 DEF Waiting
<1>6. QED
  BY <1>3, <1>4, <1>5

(* An element that is not the scanned one.                                   *)
LEMMA ScanOthers ==
    ASSUME Basics, NEW e \in Elements, NEW big \in BOOLEAN, NEW rest,
           rest.live \subseteq live, rest.watching \subseteq watching, rest.found \subseteq found,
           ScanMedia(e, big, rest), UNCHANGED document, NEW f, f # e
    PROVE  /\ \A n \in Mine(f) : /\ n \in live => n \in rest.live
                                 /\ n \in watching => n \in rest.watching
                                 /\ changes'[n] = changes[n]
           /\ \A h \in Sources : <<h, f>> \in found => <<h, f>> \in rest.found
           => Same(f)
<1>1. PICK k : Scanned(e, big, rest, k)
  BY ScanFacts
<1>2. /\ DOMAIN scans' = DOMAIN scans \cup {k} /\ k \notin DOMAIN scans /\ scans'[k].el = e
      /\ \A i \in DOMAIN scans : scans'[i] = scans[i]
      /\ live' = rest.live \cup (IF big THEN {k} ELSE {})
      /\ watching' = rest.watching \cup {k}
      /\ found' = rest.found \cup (IF big THEN {<<src[e], e>>} ELSE {})
  BY <1>1 DEF Scanned
<1>3. Mine(f)' = Mine(f)
  BY <1>2 DEF Mine
<1> SUFFICES ASSUME \A n \in Mine(f) : /\ n \in live => n \in rest.live
                                       /\ n \in watching => n \in rest.watching
                                       /\ changes'[n] = changes[n],
                    \A h \in Sources : <<h, f>> \in found => <<h, f>> \in rest.found
             PROVE  Same(f)
  OBVIOUS
<1>4. ASSUME NEW n \in Mine(f)
      PROVE  /\ scans'[n] = scans[n] /\ changes'[n] = changes[n]
             /\ n \in live' <=> n \in live
             /\ n \in watching' <=> n \in watching
  <2>1. n \in DOMAIN scans /\ n # k
    BY <1>2 DEF Mine
  <2>2. QED
    BY <1>2, <2>1
<1>5. FoundAs(f)' = FoundAs(f)
  BY <1>2 DEF FoundAs
<1>6. inDocument' = inDocument /\ src' = src
  BY DEF document
<1>7. QED
  BY <1>3, <1>4, <1>5, <1>6 DEF Same

(* The scanned one, when nothing is left of it.                              *)
LEMMA ScannedFresh ==
    ASSUME Basics, NEW e \in Elements, NEW big \in BOOLEAN, NEW rest,
           rest.live \subseteq live, rest.watching \subseteq watching, rest.found \subseteq found,
           ScanMedia(e, big, rest), UNCHANGED document, e \in inDocument
    PROVE  /\ e \notin ToSet(removed)' /\ rest.live \cap Mine(e) = {}
           /\ \A h \in Sources : <<h, e>> \notin rest.found
           => Fresh(e)'
<1>1. PICK k : Scanned(e, big, rest, k)
  BY ScanFacts
<1> DEFINE new == IF big THEN {k} ELSE {}
<1>2. /\ k \in Nat /\ DOMAIN scans = 1..(k - 1)
      /\ DOMAIN scans' = DOMAIN scans \cup {k} /\ k \notin DOMAIN scans
      /\ scans'[k].el = e /\ scans'[k].hash = src[e] /\ scans'[k].shown = big
      /\ src[e] \in Sources
      /\ \A i \in DOMAIN scans : scans'[i] = scans[i]
      /\ live' = rest.live \cup new
      /\ watching' = rest.watching \cup {k}
      /\ found' = rest.found \cup (IF big THEN {<<src[e], e>>} ELSE {})
  BY <1>1 DEF Scanned
<1>3. Mine(e)' = Mine(e) \cup {k}
  BY <1>2 DEF Mine
<1>4. Newest(e)' = k
  <2>1. Mine(e)' \in SUBSET (1..k) /\ k \in Nat /\ k \in Mine(e)'
    <3>1. Mine(e) \subseteq 1..(k - 1)
      BY <1>2 DEF Mine
    <3>2. k \in Nat /\ k # 0
      <4>1. Len(scans) \in Nat /\ k = Len(scans) + 1
        BY <1>1, BasicsMean DEF Scanned
      <4>2. QED
        BY <4>1
    <3>3. QED
      BY <1>3, <3>1, <3>2
  <2>2. Max(Mine(e)') \in 1..k /\ k <= Max(Mine(e)')
    <3>1. PICK N \in Nat : N = k
      BY <2>1
    <3>s. PICK S : S = Mine(e)'
      OBVIOUS
    <3>2. S \in SUBSET (1..N) /\ N \in S
      BY <2>1, <3>1, <3>s
    <3>3. Max(S) \in S /\ N <= Max(S)
      BY <3>2, MaxIn
    <3>4. QED
      BY <3>1, <3>s, <3>2, <3>3
  <2>3. QED
    BY <2>1, <2>2 DEF Newest
<1> SUFFICES ASSUME e \notin ToSet(removed)', rest.live \cap Mine(e) = {},
                    \A h \in Sources : <<h, e>> \notin rest.found
             PROVE  Fresh(e)'
  OBVIOUS
<1>5. live \subseteq DOMAIN scans
  BY BasicsMean
<1>6. Lit(e)' = new
  BY <1>2, <1>3, <1>5 DEF Lit
<1>7. e \in inDocument' /\ src'[e] = src[e]
  BY DEF document
<1>8. Due(e)' = new
  BY <1>2, <1>3, <1>4, <1>7 DEF Due
<1>9. FoundAs(e)' = {scans'[n].hash : n \in new}
  <2>1. CASE big
    <3>1. FoundAs(e)' = {src[e]}
      BY <1>2, <2>1 DEF FoundAs
    <3>2. QED
      BY <1>2, <2>1, <3>1
  <2>2. CASE ~big
    <3>1. FoundAs(e)' = {}
      BY <1>2, <2>2 DEF FoundAs
    <3>2. QED
      BY <2>2, <3>1
  <2>3. QED
    BY <2>1, <2>2
<1>10. Mine(e)' # {} /\ Newest(e)' \in watching' /\ src'[e] = scans'[Newest(e)'].hash
  BY <1>2, <1>3, <1>4, <1>7
<1> HIDE DEF new
<1>11. QED
  BY <1>6, <1>7, <1>8, <1>9, <1>10 DEF Fresh

-----------------------------------------------------------------------------
(* What is known of every element, step by step                             *)

(* The part of ScansInv that is about one element.                           *)
Known(e) == IF e \in scanned THEN Doomed(e) \/ Fresh(e) ELSE Waiting(e)

(* So that the step does not disturb the invariant for this element.         *)
LEMMA SameKnown ==
    ASSUME Basics, NEW f, Same(f), Known(f), f \in scanned' <=> f \in scanned,
           f \in ToSet(added)' <=> f \in ToSet(added), f \in ToSet(removed)' <=> f \in ToSet(removed)
    PROVE  Known(f)'
BY SameKept DEF Known

(* A delivered record is off the list, and those of others are still on it.  *)
LEMMA TailOthers ==
    ASSUME NEW s \in Seq(Elements), s # <<>>
    PROVE  /\ Head(s) \in ToSet(s) /\ Head(s) \in Elements
           /\ \A f : f # Head(s) => (f \in ToSet(Tail(s)) <=> f \in ToSet(s))
BY TailFacts

(* An addition is delivered.  The element waited without an indicator, and   *)
(* has the one of this scan now; unless it was scanned before in this        *)
(* delivery, or its removal is still to come, and it goes astray.            *)
LEMMA DeliverAdditionKnown ==
    ASSUME Basics, ScansInv, DeliverAddition, NEW f \in Elements, f \notin astray'
    PROVE  Known(f)'
<1> DEFINE e == Head(added)
<1>1. /\ added # <<>> /\ added' = Tail(added) /\ UNCHANGED <<document, removed>>
  BY DEF DeliverAddition
<1>2. added \in Seq(Elements)
  BY BasicsMean
<1>3. /\ e \in ToSet(added) /\ e \in Elements
      /\ f # e => (f \in ToSet(added)' <=> f \in ToSet(added))
      /\ f \in ToSet(removed)' <=> f \in ToSet(removed)
  <2>1. PICK s \in Seq(Elements) : s = added
    BY <1>2
  <2>2. /\ Head(s) \in ToSet(s) /\ Head(s) \in Elements
        /\ f # Head(s) => (f \in ToSet(Tail(s)) <=> f \in ToSet(s))
    BY <1>1, <2>1, TailOthers
  <2>3. ToSet(added)' = ToSet(Tail(s)) /\ ToSet(removed)' = ToSet(removed)
    BY <1>1, <2>1 DEF ToSet
  <2>4. QED
    BY <2>1, <2>2, <2>3
<1>4. CASE e \in inDocument
  <2>1. PICK big \in BOOLEAN : ScanMedia(e, big, Kept)
    BY <1>4 DEF DeliverAddition
  <2>2. /\ changes' = Append(changes, 0)
        /\ astray' = IF e \in scanned \cup ToSet(removed) THEN astray \cup {e} ELSE astray
    BY <1>4 DEF DeliverAddition
  <2>3. PICK rest : rest = Kept
    OBVIOUS
  <2>4. PICK x \in Elements : x = e
    BY <1>3
  <2>5. /\ ScanMedia(x, big, rest)
        /\ rest.live = live /\ rest.watching = watching /\ rest.found = found
    BY <2>1, <2>3, <2>4 DEF Kept
  <2>6. rest.live \subseteq live /\ rest.watching \subseteq watching /\ rest.found \subseteq found
    BY <2>5
  <2>7. \A n \in DOMAIN scans : changes'[n] = changes[n]
    BY <2>2, BasicsMean, AppendCount
  <2>8. scanned' = scanned \cup {x}
    <3>1. PICK k : Scanned(x, big, rest, k)
      BY <2>5, <2>6, ScanFacts
    <3>2. QED
      BY <3>1 DEF Scanned
  <2> HIDE DEF e
  <2>9. CASE f # x
    <3>1. /\ \A n \in Mine(f) : /\ n \in live => n \in rest.live
                                /\ n \in watching => n \in rest.watching
                                /\ changes'[n] = changes[n]
          /\ \A h \in Sources : <<h, f>> \in found => <<h, f>> \in rest.found
      BY <2>5, <2>7 DEF Mine
    <3>2. Same(f)
      BY <1>1, <2>5, <2>6, <2>9, <3>1, ScanOthers
    <3>3. f \notin astray
      BY <2>2
    <3>4. QED
      BY <1>3, <2>4, <2>8, <2>9, <3>2, <3>3, SameKnown DEF ScansInv, Known
  <2>10. CASE f = x
    <3>1. x \notin scanned /\ x \notin ToSet(removed) /\ x \notin astray
      BY <2>2, <2>4, <2>10
    <3>2. Waiting(x)
      BY <3>1 DEF ScansInv
    <3>3. Lit(x) = {} /\ FoundAs(x) = {}
      BY <1>3, <2>4, <3>1, <3>2 DEF Waiting
    <3>4. rest.live \cap Mine(x) = {} /\ \A h \in Sources : <<h, x>> \notin rest.found
      BY <2>5, <3>3 DEF Lit, FoundAs
    <3>5. x \notin ToSet(removed)'
      BY <1>3, <2>10, <3>1
    <3>6. x \in inDocument
      BY <1>4, <2>4
    <3>7. Fresh(x)'
      BY <1>1, <2>5, <2>6, <3>4, <3>5, <3>6, ScannedFresh
    <3>8. QED
      BY <2>8, <2>10, <3>7 DEF Known
  <2>11. QED
    BY <2>9, <2>10
<1>5. CASE e \notin inDocument
  <2>1. UNCHANGED <<document, removed, indicators, changes, scanned, astray>>
    BY <1>1, <1>5 DEF DeliverAddition
  <2>2. Same(f) /\ f \notin astray /\ scanned' = scanned
    BY <2>1 DEF Same, document, indicators, Mine, FoundAs
  <2>3. Known(f)
    BY <2>2 DEF ScansInv, Known
  <2> HIDE DEF e
  <2>4. CASE f # e
    BY <1>3, <2>2, <2>3, <2>4, SameKnown
  <2>5. CASE f = e
    <3>1. f \notin inDocument /\ f \notin inDocument'
      BY <1>5, <2>1, <2>5 DEF document
    <3>2. CASE f \in scanned
      <4>1. \E n \in Mine(f) : changes[n] > 0
        BY <2>3, <3>1, <3>2 DEF Known, Fresh, Doomed
      <4>2. \E n \in Mine(f)' : changes'[n] > 0
        BY <2>2, <4>1 DEF Same
      <4>3. QED
        BY <2>2, <3>2, <4>2 DEF Known, Doomed
    <3>3. CASE f \notin scanned
      <4>1. Waiting(f)
        BY <2>3, <3>3 DEF Known
      <4>2. /\ Lit(f)' = Lit(f) /\ {scans'[n].hash : n \in Lit(f)} = {scans[n].hash : n \in Lit(f)}
        BY <2>2, SameFacts
      <4>3. FoundAs(f)' = {scans'[n].hash : n \in Lit(f)'}
        BY <2>2, <4>1, <4>2 DEF Waiting, Same
      <4>4. f \notin ToSet(removed)' => Lit(f)' = {}
        BY <1>3, <3>1, <4>1, <4>2 DEF Waiting
      <4>5. /\ \A n \in Mine(f)' : changes'[n] > 0 => n \in watching'
            /\ \A m, n \in Mine(f)' \cap watching' : changes'[m] = changes'[n]
        BY <2>2, <4>1 DEF Waiting, Same
      <4>6. Waiting(f)'
        BY <3>1, <4>3, <4>4, <4>5 DEF Waiting
      <4>7. QED
        BY <2>2, <3>3, <4>6 DEF Known
    <3>4. QED
      BY <3>2, <3>3
  <2>6. QED
    BY <2>4, <2>5
<1>6. QED
  BY <1>4, <1>5

(* A removal is delivered.  All indicators of the element go; if it is in    *)
(* the document, its addition is still to come.                              *)
LEMMA DeliverRemovalKnown ==
    ASSUME Basics, ScansInv, DeliverRemoval, NEW f \in Elements, f \notin astray'
    PROVE  Known(f)'
<1> DEFINE e == Head(removed)
           called == {n \in removers : scans[n].el = e}
<1>1. /\ removed # <<>> /\ removed' = Tail(removed)
      /\ found' = Without(found, e, called) /\ live' = live \ called
      /\ inDocument' = inDocument /\ src' = src
      /\ UNCHANGED <<added, changes, scans, watching, scanned, astray>>
  BY DEF DeliverRemoval, document
<1>2. removed \in Seq(Elements) /\ live \subseteq removers
  BY BasicsMean
<1>3. /\ e \in ToSet(removed)
      /\ f # e => (f \in ToSet(removed)' <=> f \in ToSet(removed))
      /\ ToSet(added)' = ToSet(added)
  <2>1. PICK s \in Seq(Elements) : s = removed
    BY <1>2
  <2>2. /\ Head(s) \in ToSet(s)
        /\ f # Head(s) => (f \in ToSet(Tail(s)) <=> f \in ToSet(s))
    BY <1>1, <2>1, TailOthers
  <2>3. ToSet(removed)' = ToSet(Tail(s)) /\ ToSet(added)' = ToSet(added)
    BY <1>1, <2>1 DEF ToSet
  <2>4. QED
    BY <2>1, <2>2, <2>3
<1>4. Known(f) /\ f \notin astray
  BY <1>1 DEF ScansInv, Known
<1>5. Mine(f)' = Mine(f)
  BY <1>1 DEF Mine
<1> HIDE DEF e
<1>6. CASE f # e
  <2>1. \A n \in Mine(f) : n \notin called
    BY <1>6 DEF Mine
  <2>2. FoundAs(f)' = FoundAs(f)
    BY <1>1, <1>6 DEF FoundAs, Without
  <2> HIDE DEF called
  <2>3. Same(f)
    BY <1>1, <1>5, <2>1, <2>2 DEF Same
  <2>4. QED
    BY <1>1, <1>3, <1>4, <1>6, <2>3, SameKnown
<1>7. CASE f = e
  <2>1. CASE f \in scanned
    <3>1. Doomed(f)
      BY <1>3, <1>4, <1>7, <2>1 DEF Known, Fresh
    <3>2. Doomed(f)'
      BY <1>1, <1>3, <1>5, <3>1 DEF Doomed
    <3>3. QED
      BY <1>1, <2>1, <3>2 DEF Known
  <2>2. CASE f \notin scanned
    <3>1. Waiting(f)
      BY <1>4, <2>2 DEF Known
    <3>2. Lit(f) \subseteq called
      BY <1>2, <1>7 DEF Lit, Mine
    <3>3. Lit(f)' = {}
      <4> HIDE DEF called
      <4>1. QED
        BY <1>1, <1>5, <3>2 DEF Lit
    <3>4. FoundAs(f)' = {}
      <4> SUFFICES ASSUME NEW h \in Sources, <<h, f>> \in found' PROVE FALSE
        BY DEF FoundAs
      <4>1. <<h, f>> \in found /\ \A n \in called : h # scans[n].hash
        BY <1>1, <1>7 DEF Without
      <4>2. h \in {scans[n].hash : n \in Lit(f)}
        BY <3>1, <4>1 DEF Waiting, FoundAs
      <4>3. QED
        BY <3>2, <4>1, <4>2
    <3>5. f \in inDocument => f \in ToSet(added)
      BY <1>3, <1>7, <3>1 DEF Waiting
    <3>6. /\ \A n \in Mine(f)' : changes'[n] > 0 => n \in watching'
          /\ \A m, n \in Mine(f)' \cap watching' : changes'[m] = changes'[n]
      BY <1>1, <1>5, <3>1 DEF Waiting
    <3>7. FoundAs(f)' = {scans'[n].hash : n \in Lit(f)'}
      BY <3>3, <3>4
    <3> HIDE DEF called
    <3>8. /\ f \in ToSet(removed)' /\ f \in inDocument' => f \in ToSet(added)'
          /\ ~(f \notin ToSet(removed)' /\ f \notin ToSet(added)' /\ f \in inDocument')
      BY <1>1, <1>3, <3>5
    <3>9. Waiting(f)'
      BY <3>3, <3>6, <3>7, <3>8 DEF Waiting
    <3>10. QED
      BY <1>1, <2>2, <3>9 DEF Known
  <2>3. QED
    BY <2>1, <2>2
<1>8. QED
  BY <1>6, <1>7

(* A change is delivered.  If the closure is the newest, the scan replaces   *)
(* its indicator.  If it is an older one, the newest has as many records,    *)
(* and will scan again: the element is doomed to go astray.                  *)
LEMMA DeliverChangeKnown ==
    ASSUME Basics, ScansInv, DeliverChange, NEW f \in Elements, f \notin astray'
    PROVE  Known(f)'
<1>1. PICK n \in DOMAIN scans, big \in BOOLEAN, e \in Elements :
        /\ added = <<>> /\ removed = <<>> /\ e = scans[n].el /\ changes[n] > 0
        /\ ScanMedia(e, big, ChangeKept(n, e))
        /\ \A i \in DOMAIN scans : i # n => changes'[i] = changes[i]
        /\ astray' = IF e \in scanned \/ e \notin inDocument THEN astray \cup {e} ELSE astray
        /\ UNCHANGED <<document, added, removed>>
  BY DeliverChangeIs
<1>2. PICK rest : rest = ChangeKept(n, e)
  OBVIOUS
<1>3. /\ rest.live = live \ {n} /\ rest.watching = watching \ {n}
      /\ rest.found = IF scans[n].shown THEN Without(found, e, {n}) ELSE found
  BY <1>2 DEF ChangeKept
<1>4. /\ rest.live \subseteq live /\ rest.watching \subseteq watching /\ rest.found \subseteq found
  BY <1>3 DEF Without
<1>5. ScanMedia(e, big, rest)
  BY <1>1, <1>2
<1>6. ToSet(added)' = {} /\ ToSet(removed)' = {} /\ ToSet(added) = {} /\ ToSet(removed) = {}
  BY <1>1, NoRecords DEF ToSet
<1>7. /\ scanned' = scanned \cup {e} /\ f \notin astray
      /\ \A i \in DOMAIN scans : i \in DOMAIN scans' /\ scans'[i] = scans[i]
  <2>1. PICK k : Scanned(e, big, rest, k)
    BY <1>4, <1>5, ScanFacts
  <2>2. QED
    BY <1>1, <2>1 DEF Scanned
<1>8. CASE f # e
  <2>1. n \notin Mine(f) /\ Mine(f) \subseteq DOMAIN scans
    BY <1>1, <1>8 DEF Mine
  <2>2. \A h \in Sources : <<h, f>> \in found => <<h, f>> \in rest.found
    BY <1>3, <1>8 DEF Without
  <2>3. \A m \in Mine(f) : /\ m \in live => m \in rest.live
                           /\ m \in watching => m \in rest.watching
                           /\ changes'[m] = changes[m]
    BY <1>1, <1>3, <2>1
  <2>4. Same(f)
    BY <1>1, <1>4, <1>5, <1>8, <2>2, <2>3, ScanOthers
  <2>5. Known(f)
    BY <1>7 DEF ScansInv, Known
  <2>6. QED
    BY <1>6, <1>7, <1>8, <2>4, <2>5, SameKnown
<1>9. CASE f = e
  <2>1. e \notin scanned /\ e \in inDocument /\ e \notin astray
    BY <1>1, <1>9
  <2>2. /\ Mine(e) # {} /\ Newest(e) \in watching /\ Lit(e) = Due(e)
        /\ FoundAs(e) = {scans[i].hash : i \in Lit(e)}
        /\ \A i \in Mine(e) : changes[i] > 0 => i \in watching
        /\ \A i, j \in Mine(e) \cap watching : changes[i] = changes[j]
    <3>1. Waiting(e)
      BY <2>1 DEF ScansInv
    <3>2. QED
      BY <1>6, <2>1, <3>1 DEF Waiting
  <2>3. n \in Mine(e) /\ Newest(e) \in Mine(e) /\ Newest(e) \in DOMAIN scans
    BY <1>1, <2>2, NewestIn DEF Mine
  <2>4. changes[Newest(e)] = changes[n]
    BY <1>1, <2>2, <2>3
  <2>5. CASE n = Newest(e)
    <3>1. Due(e) = IF scans[n].shown THEN {n} ELSE {}
      BY <2>1, <2>2, <2>5 DEF Due
    <3>2. rest.live \cap Mine(e) = {}
      BY <1>3, <2>2, <3>1 DEF Lit
    <3>3. \A h \in Sources : <<h, e>> \notin rest.found
      <4>1. CASE scans[n].shown
        <5>1. FoundAs(e) = {scans[n].hash}
          BY <2>2, <3>1, <4>1
        <5>2. QED
          BY <1>3, <4>1, <5>1 DEF FoundAs, Without
      <4>2. CASE ~scans[n].shown
        <5>1. FoundAs(e) = {}
          BY <2>2, <3>1, <4>2
        <5>2. QED
          BY <1>3, <4>2, <5>1 DEF FoundAs
      <4>3. QED
        BY <4>1, <4>2
    <3>4. e \notin ToSet(removed)'
      BY <1>6
    <3>5. Fresh(e)'
      BY <1>1, <1>4, <1>5, <2>1, <3>2, <3>3, <3>4, ScannedFresh
    <3>6. QED
      BY <1>7, <1>9, <3>5 DEF Known
  <2>6. CASE n # Newest(e)
    <3>1. changes'[Newest(e)] > 0
      BY <1>1, <2>3, <2>4, <2>6
    <3>2. Newest(e) \in Mine(e)'
      <4>1. PICK i : i = Newest(e)
        OBVIOUS
      <4>2. i \in DOMAIN scans /\ scans[i].el = e
        BY <2>3, <4>1 DEF Mine
      <4>3. i \in DOMAIN scans' /\ scans'[i] = scans[i]
        BY <1>7, <4>2
      <4>4. QED
        BY <4>1, <4>2, <4>3 DEF Mine
    <3>3. Doomed(e)'
      <4>1. PICK i : i = Newest(e)
        OBVIOUS
      <4>2. i \in Mine(e)' /\ changes'[i] > 0
        BY <3>1, <3>2, <4>1
      <4>3. QED
        BY <4>2 DEF Doomed
    <3>4. QED
      BY <1>7, <1>9, <3>3 DEF Known
  <2>7. QED
    BY <2>5, <2>6
<1>10. QED
  BY <1>8, <1>9

(* Between scripts nothing is scanned: what is known of an element is what    *)
(* waits for the next delivery.                                               *)
LEMMA ScriptKnown ==
    ASSUME Basics, ScansInv, ~delivering, NEW f \in Elements, f \notin astray'
    PROVE  /\ \A e \in Elements : InsertElement(e) => Known(f)'
           /\ \A e \in Elements : RemoveElement(e) => Known(f)'
           /\ \A e \in Elements, s \in Sources : SetAttribute(e, s) => Known(f)'
<1>1. scanned = {} /\ added \in Seq(Elements) /\ removed \in Seq(Elements) /\ src \in [Elements -> Sources]
      /\ changes \in [DOMAIN scans -> 0..MaxRecords] /\ MaxRecords \in Nat
  BY BasicsMean
<1>2. f \notin astray => Waiting(f)
  BY <1>1 DEF ScansInv
<1>3. ASSUME NEW e \in Elements, InsertElement(e) PROVE Known(f)'
  <2>1. /\ e \notin inDocument /\ inDocument' = inDocument \cup {e} /\ added' = Append(added, e)
        /\ UNCHANGED <<src, removed, changes, indicators, scanned, astray>>
    BY <1>3 DEF InsertElement
  <2>2. ToSet(added)' = ToSet(added) \cup {e} /\ ToSet(removed)' = ToSet(removed)
    <3>1. PICK s \in Seq(Elements) : s = added
      BY <1>1
    <3>2. ToSet(Append(s, e)) = ToSet(s) \cup {e}
      BY <3>1, AppendFacts
    <3>3. QED
      BY <2>1, <3>1, <3>2 DEF ToSet
  <2>3. /\ Mine(f)' = Mine(f) /\ FoundAs(f)' = FoundAs(f) /\ Lit(f)' = Lit(f)
        /\ {scans'[n].hash : n \in Lit(f)} = {scans[n].hash : n \in Lit(f)}
    BY <2>1 DEF indicators, Mine, FoundAs, Lit
  <2>4. f \notin astray /\ f \notin scanned'
    BY <1>1, <2>1
  <2>5. CASE f # e
    <3>1. Same(f)
      BY <2>1, <2>3, <2>5 DEF Same, indicators
    <3>2. QED
      BY <1>1, <1>2, <2>2, <2>4, <2>5, <3>1, SameKept DEF Known
  <2>6. CASE f = e
    <3>1. Waiting(f)
      BY <1>2, <2>4
    <3>2. /\ FoundAs(f)' = {scans'[n].hash : n \in Lit(f)'}
          /\ f \notin ToSet(removed)' => Lit(f)' = {}
          /\ f \in ToSet(added)'
      BY <2>1, <2>2, <2>3, <2>6, <3>1 DEF Waiting
    <3>3. /\ \A n \in Mine(f)' : changes'[n] > 0 => n \in watching'
          /\ \A m, n \in Mine(f)' \cap watching' : changes'[m] = changes'[n]
      BY <2>1, <2>3, <3>1 DEF Waiting, indicators
    <3>4. Waiting(f)'
      BY <3>2, <3>3 DEF Waiting
    <3>5. QED
      BY <2>4, <3>4 DEF Known
  <2>7. QED
    BY <2>5, <2>6
<1>4. ASSUME NEW e \in Elements, RemoveElement(e) PROVE Known(f)'
  <2>1. /\ inDocument' = inDocument \ {e} /\ removed' = Append(removed, e)
        /\ UNCHANGED <<src, added, changes, indicators, scanned, astray>>
    BY <1>4 DEF RemoveElement
  <2>2. ToSet(removed)' = ToSet(removed) \cup {e} /\ ToSet(added)' = ToSet(added)
    <3>1. PICK s \in Seq(Elements) : s = removed
      BY <1>1
    <3>2. ToSet(Append(s, e)) = ToSet(s) \cup {e}
      BY <3>1, AppendFacts
    <3>3. QED
      BY <2>1, <3>1, <3>2 DEF ToSet
  <2>3. /\ Mine(f)' = Mine(f) /\ FoundAs(f)' = FoundAs(f) /\ Lit(f)' = Lit(f)
        /\ {scans'[n].hash : n \in Lit(f)} = {scans[n].hash : n \in Lit(f)}
    BY <2>1 DEF indicators, Mine, FoundAs, Lit
  <2>4. f \notin astray /\ f \notin scanned'
    BY <1>1, <2>1
  <2>5. CASE f # e
    <3>1. Same(f)
      BY <2>1, <2>3, <2>5 DEF Same, indicators
    <3>2. QED
      BY <1>1, <1>2, <2>2, <2>4, <2>5, <3>1, SameKept DEF Known
  <2>6. CASE f = e
    <3>1. Waiting(f)
      BY <1>2, <2>4
    <3>2. /\ FoundAs(f)' = {scans'[n].hash : n \in Lit(f)'}
          /\ f \in ToSet(removed)' /\ f \notin inDocument'
      BY <2>1, <2>2, <2>3, <2>6, <3>1 DEF Waiting
    <3>3. /\ \A n \in Mine(f)' : changes'[n] > 0 => n \in watching'
          /\ \A m, n \in Mine(f)' \cap watching' : changes'[m] = changes'[n]
      BY <2>1, <2>3, <3>1 DEF Waiting, indicators
    <3>4. Waiting(f)'
      BY <3>2, <3>3 DEF Waiting
    <3>5. QED
      BY <2>4, <3>4 DEF Known
  <2>7. QED
    BY <2>5, <2>6
<1>5. ASSUME NEW e \in Elements, NEW s \in Sources, SetAttribute(e, s) PROVE Known(f)'
  <2> DEFINE told == {n \in watching : scans[n].el = e}
  <2>1. /\ src' = [src EXCEPT ![e] = s]
        /\ changes' = [n \in DOMAIN changes |-> IF n \in told THEN changes[n] + 1 ELSE changes[n]]
        /\ UNCHANGED <<inDocument, added, removed, indicators, scanned, astray>>
    BY <1>5 DEF SetAttribute
  <2>2. ToSet(removed)' = ToSet(removed) /\ ToSet(added)' = ToSet(added)
    BY <2>1 DEF ToSet
  <2>3. /\ Mine(f)' = Mine(f) /\ FoundAs(f)' = FoundAs(f) /\ Lit(f)' = Lit(f)
        /\ {scans'[n].hash : n \in Lit(f)} = {scans[n].hash : n \in Lit(f)}
        /\ Newest(f)' = Newest(f) /\ Due(f)' = Due(f) /\ watching' = watching
    BY <2>1 DEF indicators, Mine, FoundAs, Lit, Newest, Due
  <2>4. f \notin astray /\ f \notin scanned'
    BY <1>1, <2>1
  <2>5. \A n \in DOMAIN scans : /\ changes[n] \in Nat
                                /\ changes'[n] = IF n \in told THEN changes[n] + 1 ELSE changes[n]
    BY <1>1, <2>1
  <2>6. CASE f # e
    <3>1. \A n \in Mine(f) : n \in DOMAIN scans /\ n \notin told
      BY <2>6 DEF Mine
    <3>2. src'[f] = src[f]
      BY <1>1, <2>1, <2>6
    <3> HIDE DEF told
    <3>3. Same(f)
      BY <2>1, <2>3, <2>5, <3>1, <3>2 DEF Same, indicators
    <3>4. QED
      BY <1>2, <2>2, <2>4, <3>3, SameKept DEF Known
  <2>7. CASE f = e
    <3>1. Waiting(f)
      BY <1>2, <2>4
    <3>2. \A n \in Mine(f) : n \in DOMAIN scans /\ (n \in told <=> n \in watching)
      BY <2>7 DEF Mine
    <3> HIDE DEF told
    <3>3. /\ FoundAs(f)' = {scans'[n].hash : n \in Lit(f)'}
          /\ f \in ToSet(removed)' /\ f \in inDocument' => f \in ToSet(added)'
          /\ f \notin ToSet(removed)' /\ (f \in ToSet(added)' \/ f \notin inDocument') => Lit(f)' = {}
      BY <2>1, <2>2, <2>3, <3>1 DEF Waiting
    <3>4. \A n \in Mine(f)' : changes'[n] > 0 => n \in watching'
      BY <2>3, <2>5, <3>1, <3>2 DEF Waiting
    <3>5. \A m, n \in Mine(f)' \cap watching' : changes'[m] = changes'[n]
      BY <2>3, <2>5, <3>1, <3>2 DEF Waiting
    <3>6. f \notin ToSet(removed)' /\ f \notin ToSet(added)' /\ f \in inDocument' =>
               /\ Mine(f)' # {} /\ Newest(f)' \in watching' /\ Lit(f)' = Due(f)'
               /\ Due(f)' # {} => src'[f] = scans'[Newest(f)'].hash \/ changes'[Newest(f)'] > 0
      <4> SUFFICES ASSUME f \notin ToSet(removed)', f \notin ToSet(added)', f \in inDocument'
                   PROVE  /\ Mine(f)' # {} /\ Newest(f)' \in watching' /\ Lit(f)' = Due(f)'
                          /\ changes'[Newest(f)'] > 0
        OBVIOUS
      <4>1. Mine(f) # {} /\ Newest(f) \in watching /\ Lit(f) = Due(f)
        BY <2>1, <2>2, <3>1 DEF Waiting
      <4>2. PICK k : k = Newest(f)
        OBVIOUS
      <4>3. k \in Mine(f) /\ k \in watching /\ Newest(f)' = k
        BY <2>3, <4>1, <4>2, NewestIn
      <4>4. changes'[k] > 0
        BY <2>5, <3>2, <4>3
      <4>5. QED
        BY <2>3, <4>1, <4>2, <4>3, <4>4
    <3>7. Waiting(f)'
      BY <3>3, <3>4, <3>5, <3>6 DEF Waiting
    <3>8. QED
      BY <2>4, <3>7 DEF Known
  <2>8. QED
    BY <2>6, <2>7
<1>6. QED
  BY <1>3, <1>4, <1>5

(* At the end of a delivery nothing is left that could lead a scanned        *)
(* element astray, so it is as the property says.                            *)
LEMMA DeliveredKnown ==
    ASSUME Basics, ScansInv, Delivered, NEW f \in Elements, f \notin astray'
    PROVE  Known(f)'
<1>1. /\ added = <<>> /\ removed = <<>> /\ \A n \in DOMAIN changes : changes[n] = 0
      /\ scanned' = {} /\ UNCHANGED <<document, records, indicators, astray>>
  BY DEF Delivered
<1>2. Same(f) /\ ToSet(added)' = ToSet(added) /\ ToSet(removed)' = ToSet(removed)
  BY <1>1 DEF Same, document, records, indicators, Mine, FoundAs, ToSet
<1>3. f \notin astray /\ Known(f)
  BY <1>1 DEF ScansInv, Known
<1>4. ToSet(added) = {} /\ ToSet(removed) = {}
  BY <1>1, NoRecords
<1>5. Waiting(f)
  <2>1. CASE f \notin scanned
    BY <1>3, <2>1 DEF Known
  <2>2. CASE f \in scanned
    <3>1. \A n \in Mine(f) : changes[n] = 0
      <4>1. DOMAIN changes = DOMAIN scans
        BY BasicsMean
      <4>2. QED
        BY <1>1, <4>1 DEF Mine
    <3>2. ~Doomed(f)
      BY <1>4, <3>1 DEF Doomed
    <3>3. Fresh(f)
      BY <1>3, <2>2, <3>2 DEF Known
    <3>4. QED
      BY <1>4, <3>1, <3>3 DEF Fresh, Waiting
  <2>3. QED
    BY <2>1, <2>2
<1>6. Waiting(f)'
  BY <1>2, <1>5, SameKept
<1>7. QED
  BY <1>1, <1>6 DEF Known

(* After a reinitialization, and at the start, nothing is known of elements  *)
(* but that they are there and added.                                        *)
LEMMA WaitingAnew ==
    ASSUME NEW f, live = {}, found = {}, watching = {}, ToSet(added) = inDocument, ToSet(removed) = {},
           \A n \in DOMAIN scans : changes[n] = 0
    PROVE  Waiting(f)
<1>1. Lit(f) = {} /\ FoundAs(f) = {}
  BY DEF Lit, FoundAs
<1>2. \A n \in Mine(f) : changes[n] = 0
  BY DEF Mine
<1>3. QED
  BY <1>1, <1>2 DEF Waiting

(* A reinitialization forgets everything and adds all that is there.         *)
LEMMA ReinitializeKnown ==
    ASSUME Basics, Reinitialize, NEW f \in Elements
    PROVE  Known(f)'
<1>1. /\ live' = {} /\ found' = {} /\ watching' = {}
      /\ changes' = [n \in DOMAIN changes |-> 0]
      /\ added' = SetToSeq(inDocument) /\ removed' = <<>>
      /\ scanned' = {} /\ inDocument' = inDocument /\ scans' = scans
  BY DEF Reinitialize, document
<1>2. ToSet(added)' = inDocument' /\ ToSet(removed)' = {}
  <2>1. IsFiniteSet(inDocument)
    BY BasicsMean, MediaScanAssumption, FS_Subset
  <2>2. PICK S : S = inDocument
    OBVIOUS
  <2>3. ToSet(SetToSeq(S)) = S
    BY <2>1, <2>2, SetToSeqFacts
  <2>4. ToSet(added)' = ToSet(SetToSeq(S))
    BY <1>1, <2>2 DEF ToSet
  <2>5. ToSet(removed)' = {}
    BY <1>1, NoRecords DEF ToSet
  <2>6. QED
    BY <1>1, <2>2, <2>3, <2>4, <2>5
<1>3. \A n \in DOMAIN scans' : changes'[n] = 0
  BY <1>1, BasicsMean
<1>4. Lit(f)' = {} /\ FoundAs(f)' = {}
  BY <1>1 DEF Lit, FoundAs
<1>5. \A n \in Mine(f)' : changes'[n] = 0
  BY <1>3 DEF Mine
<1>6. Waiting(f)'
  BY <1>1, <1>2, <1>4, <1>5 DEF Waiting
<1>7. QED
  BY <1>1, <1>6 DEF Known

(* Every step keeps what is known of every element.                          *)
LEMMA StepScans == ASSUME Basics, ScansInv, [Next]_vars PROVE ScansInv'
<1> SUFFICES ASSUME NEW f \in Elements, f \notin astray' PROVE Known(f)'
  BY DEF ScansInv, Known
<1>1. CASE UNCHANGED vars \/ Deliver \/ Scroll \/ OtherComes \/ \E l \in 1..MaxLists : Throttled(l)
  <2>1. UNCHANGED <<document, records, indicators, scanned, astray>>
    BY <1>1 DEF vars, Deliver, Scroll, OtherComes, Throttled, Resting
  <2>2. Same(f) /\ ToSet(added)' = ToSet(added) /\ ToSet(removed)' = ToSet(removed)
    BY <2>1 DEF Same, document, records, indicators, Mine, FoundAs, ToSet
  <2>3. Known(f) /\ scanned' = scanned
    BY <2>1 DEF ScansInv, Known
  <2>4. QED
    BY <2>2, <2>3, SameKnown
<1>2. CASE Delivery
  BY <1>2, DeliverAdditionKnown, DeliverRemovalKnown, DeliverChangeKnown, DeliveredKnown DEF Delivery
<1>3. CASE \E e \in Elements : InsertElement(e) \/ RemoveElement(e) \/ \E s \in Sources : SetAttribute(e, s)
  <2>1. ~delivering
    BY <1>3 DEF InsertElement, RemoveElement, SetAttribute, ScriptRuns
  <2>2. QED
    BY <1>3, <2>1, ScriptKnown
<1>4. CASE Reinitialize
  BY <1>4, ReinitializeKnown
<1>5. QED
  BY <1>1, <1>2, <1>3, <1>4 DEF Next

(* The first scan is like a reinitialization.                                *)
LEMMA InitScans == ASSUME Init PROVE ScansInv
<1>1. /\ inDocument \in SUBSET Elements /\ added = SetToSeq(inDocument) /\ removed = <<>>
      /\ scans = <<>> /\ live = {} /\ watching = {} /\ found = {} /\ scanned = {}
  BY DEF Init
<1>2. ToSet(added) = inDocument /\ ToSet(removed) = {}
  <2>1. IsFiniteSet(inDocument)
    BY <1>1, MediaScanAssumption, FS_Subset
  <2>2. PICK S : S = inDocument
    OBVIOUS
  <2>3. ToSet(SetToSeq(S)) = S
    BY <2>1, <2>2, SetToSeqFacts
  <2>4. QED
    BY <1>1, <2>2, <2>3, NoRecords
<1>3. DOMAIN scans = {}
  BY <1>1
<1>4. \A f \in Elements : Waiting(f)
  BY <1>1, <1>2, <1>3, WaitingAnew
<1>5. QED
  BY <1>1, <1>4 DEF ScansInv

(* When all is delivered, what waits is what the property says.              *)
LEMMA ScansAreIndicated == ASSUME Basics, ScansInv PROVE OneIndicator
<1> SUFFICES ASSUME ~delivering, added = <<>>, removed = <<>>,
                    \A n \in DOMAIN changes : changes[n] = 0, NEW e \in Elements \ astray
             PROVE  /\ Lit(e) = Due(e) /\ FoundAs(e) = {scans[n].hash : n \in Due(e)}
                    /\ Due(e) # {} => src[e] = scans[Newest(e)].hash
                    /\ e \in inDocument => Mine(e) \cap watching # {}
  BY DEF OneIndicator, Lit, Due, FoundAs, Newest, Mine
<1>1. scanned = {} /\ DOMAIN changes = DOMAIN scans
  BY BasicsMean
<1>2. Waiting(e)
  BY <1>1 DEF ScansInv
<1>3. ToSet(added) = {} /\ ToSet(removed) = {}
  BY NoRecords
<1>4. CASE e \notin inDocument
  <2>1. Due(e) = {} /\ Lit(e) = {}
    BY <1>2, <1>3, <1>4 DEF Waiting, Due
  <2>2. FoundAs(e) = {scans[n].hash : n \in Lit(e)}
    BY <1>2 DEF Waiting
  <2>3. QED
    BY <1>4, <2>1, <2>2
<1>5. CASE e \in inDocument
  <2>1. /\ Mine(e) # {} /\ Newest(e) \in watching /\ Lit(e) = Due(e)
        /\ FoundAs(e) = {scans[n].hash : n \in Lit(e)}
        /\ Due(e) # {} => src[e] = scans[Newest(e)].hash \/ changes[Newest(e)] > 0
    BY <1>2, <1>3, <1>5 DEF Waiting
  <2>2. Newest(e) \in Mine(e) /\ changes[Newest(e)] = 0
    <3>1. Newest(e) \in Mine(e) /\ Newest(e) \in DOMAIN scans
      BY <2>1, NewestIn
    <3>2. QED
      BY <1>1, <3>1
  <2>3. QED
    BY <2>1, <2>2
<1>6. QED
  BY <1>4, <1>5

(* What is known of an element between the records of one delivery, and what *)
(* of it is known between scripts, is inductive.                             *)
THEOREM ScansAreKnown == Spec => []ScansInv
<1>1. Init => ScansInv
  BY InitScans
<1>2. Basics /\ ScansInv /\ [Next]_vars => ScansInv'
  BY StepScans
<1>3. QED
  BY <1>1, <1>2, BasicsHold, PTL DEF Spec

(* An image has one indicator if it is in the document and was big enough    *)
(* when it was scanned last, none otherwise, and is watched for its next     *)
(* change: whatever scripts do, whatever the number of elements, scans and   *)
(* records in a delivery, unless the element went astray.                    *)
THEOREM IndicatorsAreOne == Spec => []OneIndicator
<1>1. Basics /\ ScansInv => OneIndicator
  BY ScansAreIndicated
<1>2. QED
  BY <1>1, BasicsHold, ScansAreKnown, PTL
=============================================================================
