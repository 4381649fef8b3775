----------------------- MODULE ReactionsWindowProofs -----------------------
(***************************************************************************)
(* The types of a reactions window; that the page which waits for an       *)
(* accepted reaction does not stay; and that the page shown last is shown. *)
(* The last rests on the order of timers: pages slide in in the order they *)
(* were pushed, what slides in later does not lie under what slid in       *)
(* earlier, and every listener for the end of a transition either has its  *)
(* timer still to come or waits for a page that moves.                     *)
(***************************************************************************)
EXTENDS ReactionsWindow, FiniteSetTheorems, WellFoundedInduction, TLAPS

-----------------------------------------------------------------------------
(* Sequences and least elements                                             *)

(* A function on 1..n is a sequence.                                         *)
LEMMA FunctionIsSeq ==
    ASSUME NEW S, NEW n \in Nat, NEW f \in [1..n -> S]
    PROVE  f \in Seq(S) /\ Len(f) = n
<1>1. f \in Seq(S)
  OBVIOUS
<1>2. Len(f) \in Nat /\ 1..Len(f) = 1..n
  BY <1>1
<1>3. ~(Len(f) < n)
  <2> SUFFICES ASSUME Len(f) < n PROVE FALSE
    OBVIOUS
  <2>1. Len(f) + 1 \in 1..n /\ Len(f) + 1 \notin 1..Len(f)
    BY <1>2
  <2>2. QED
    BY <1>2, <2>1
<1>4. ~(n < Len(f))
  <2> SUFFICES ASSUME n < Len(f) PROVE FALSE
    OBVIOUS
  <2>1. n + 1 \in 1..Len(f) /\ n + 1 \notin 1..n
    BY <1>2
  <2>2. QED
    BY <1>2, <2>1
<1>5. QED
  BY <1>1, <1>2, <1>3, <1>4

(* Of the subsets of a finite set that are given, one contains no other.     *)
LEMMA SmallestSet ==
    ASSUME NEW D, IsFiniteSet(D), NEW B \in SUBSET (SUBSET D), B # {}
    PROVE  \E s \in B : \A t \in B : ~(t \subseteq s /\ t # s)
<1> DEFINE R == StrictSubsetOrdering(D)
<1>1. IsWellFoundedOn(R, FiniteSubsetsOf(D))
  BY FS_StrictSubsetOrderingWellFounded
<1>2. B \subseteq FiniteSubsetsOf(D)
  <2>1. \A s \in SUBSET D : IsFiniteSet(s)
    BY FS_Subset
  <2>2. QED
    BY <2>1 DEF FiniteSubsetsOf
<1>3. PICK s \in B : \A t \in B : ~(<<t, s>> \in R)
  <2> HIDE DEF R
  <2>1. QED
    BY <1>1, <1>2, WFMin
<1>4. \A t \in B : ~(t \subseteq s /\ t # s)
  <2>1. \A t \in B : t \subseteq s /\ t # s => <<t, s>> \in R
    BY DEF StrictSubsetOrdering
  <2>2. QED
    BY <1>3, <2>1
<1>5. QED
  BY <1>4

(* An interval of naturals has as many members as it is long.                *)
LEMMA IntervalFinite == ASSUME NEW N \in Nat PROVE IsFiniteSet(1..N) /\ Cardinality(1..N) = N
<1>1. 1 \in Int /\ N \in Int
  OBVIOUS
<1>2. QED
  BY <1>1, FS_Interval

(* A set of numbers has a least one, which is what Min chooses: of the sets  *)
(* 1..n, for n in S, one is contained in no other.                           *)
LEMMA MinIn ==
    ASSUME NEW N \in Nat, NEW S \in SUBSET (1..N), S # {}
    PROVE  Min(S) \in S
<1> DEFINE D == 1..N
           B == {1..n : n \in S}
<1>1. B \in SUBSET (SUBSET D) /\ B # {}
  <2>1. \A n \in S : 1..n \subseteq D
    OBVIOUS
  <2>2. QED
    BY <2>1
<1>2. PICK s \in B : \A t \in B : ~(t \subseteq s /\ t # s)
  <2>1. IsFiniteSet(D)
    BY IntervalFinite
  <2> HIDE DEF B, D
  <2>2. QED
    BY <1>1, <2>1, SmallestSet
<1>3. PICK k \in S : s = 1..k
  OBVIOUS
<1>4. \A j \in S : k <= j
  <2> SUFFICES ASSUME NEW j \in S, j < k PROVE FALSE
    OBVIOUS
  <2>1. 1..j \subseteq 1..k /\ 1..j # 1..k
    OBVIOUS
  <2>2. QED
    BY <1>2, <1>3, <2>1
<1>5. QED
  BY <1>4 DEF Min

(* What is in a sequence.                                                    *)
LEMMA InSeq ==
    ASSUME NEW S, NEW s \in Seq(S)
    PROVE  /\ \A i \in DOMAIN s : s[i] \in S
           /\ Len(s) \in Nat /\ DOMAIN s = 1..Len(s)
  OBVIOUS

-----------------------------------------------------------------------------
(* Types                                                                    *)

(* The first two pages are those a window starts with; the others were       *)
(* pushed, and those that ask to log in do so for a call.                    *)
Pushed == Selectors \ {"progress", "reactions"}
PagesOK(p) ==
    /\ p \in Seq(Page) /\ Len(p) \in 2..MaxPages
    /\ \A e \in DOMAIN p : p[e].login # "no" <=> p[e].sel = "login"
    /\ p[Progress].sel = "progress" /\ p[Reactions].sel = "reactions"
    /\ \A e \in DOMAIN p : e \notin Kept => p[e].sel \in Pushed
ShowsOK ==
    /\ shows \in Seq(Pushed)
    /\ toggles \in Seq([on : SUBSET (1..MaxPages), active : BOOLEAN])
    /\ \A i \in DOMAIN toggles : toggles[i].on \subseteq DOMAIN pages
    /\ handlers \subseteq Handler
    /\ \A h \in handlers : h.on \subseteq DOMAIN pages /\ h.current \subseteq DOMAIN pages
ViewOK ==
    /\ PagesOK(pages) /\ ShowsOK
    /\ below \in [Selectors -> SUBSET Selectors]
    /\ top \in Selectors /\ overtaken \in BOOLEAN
CallsOK ==
    /\ window \in 1..MaxWindows
    /\ calls \in Seq(Call) /\ Len(calls) <= MaxCalls
    /\ posts \in 0..MaxPosts
    /\ \A c \in DOMAIN calls : calls[c].out <= posts /\ calls[c].window <= window
LoginsOK == \A e \in DOMAIN pages : pages[e].login # "no" => pages[e].call \in DOMAIN calls
DataOK ==
    /\ win \in {"open", "fading", "gone"}
    /\ returning \subseteq DOMAIN calls
    /\ known \subseteq 0..MaxCalls /\ located \subseteq known
    /\ stuck \in BOOLEAN
GoneOK == win = "gone" => Len(pages) = 2 /\ shows = <<>> /\ toggles = <<>> /\ handlers = {}
TypeInv == ViewOK /\ CallsOK /\ LoginsOK /\ DataOK /\ GoneOK

(* The invariant of the types says what TypeOK says.                         *)
LEMMA TypeInvIsTypeOK == TypeInv => TypeOK
<1> SUFFICES ASSUME TypeInv PROVE TypeOK
  OBVIOUS
<1>1. shows \in Seq(Selectors)
  BY DEF TypeInv, ViewOK, ShowsOK, Pushed
<1>2. QED
  BY <1>1 DEF TypeInv, ViewOK, PagesOK, ShowsOK, CallsOK, LoginsOK, DataOK, GoneOK, TypeOK

(* Pages are the same but for classes and the state of a login.              *)
SamePages(p, q) ==
    /\ q \in [DOMAIN p -> Page]
    /\ \A e \in DOMAIN p : q[e].sel = p[e].sel /\ (q[e].login = "no" <=> p[e].login = "no")

(* A list of pages that are the same has the types it had.                   *)
LEMMA SamePagesOK ==
    ASSUME NEW p, PagesOK(p), NEW q, SamePages(p, q)
    PROVE  PagesOK(q) /\ DOMAIN q = DOMAIN p
<1>1. Len(p) \in Nat /\ Len(p) \in 2..MaxPages /\ DOMAIN p = 1..Len(p) /\ p \in [1..Len(p) -> Page]
  BY DEF PagesOK
<1>2. q \in Seq(Page) /\ Len(q) = Len(p)
  <2>1. PICK n \in Nat : n = Len(p)
    BY <1>1
  <2>2. q \in [1..n -> Page]
    BY <1>1, <2>1 DEF SamePages
  <2>3. QED
    BY <2>1, <2>2, FunctionIsSeq, SMTT(30)
<1>3. DOMAIN q = DOMAIN p
  BY <1>1, <1>2
<1>4. \A e \in DOMAIN p : q[e].sel = p[e].sel /\ (q[e].login = "no" <=> p[e].login = "no")
  BY DEF SamePages
<1>5. /\ \A e \in DOMAIN q : q[e].login # "no" <=> q[e].sel = "login"
      /\ \A e \in DOMAIN q : e \notin Kept => q[e].sel \in Pushed
  BY <1>3, <1>4 DEF PagesOK
<1>6. q[Progress].sel = "progress" /\ q[Reactions].sel = "reactions"
  <2>1. 1 \in DOMAIN p /\ 2 \in DOMAIN p
    BY <1>1
  <2>2. p[1].sel = "progress" /\ p[2].sel = "reactions"
    BY DEF PagesOK, Progress, Reactions
  <2>3. QED
    BY <1>4, <2>1, <2>2 DEF Progress, Reactions
<1>7. QED
  BY <1>1, <1>2, <1>3, <1>5, <1>6 DEF PagesOK

(* A new page, and a page with other classes.                                *)
LEMMA NewPageFacts ==
    ASSUME NEW sel \in Selectors, NEW c \in 0..MaxCalls
    PROVE  /\ NewPage(sel, c) \in Page
           /\ NewPage(sel, c).sel = sel /\ NewPage(sel, c).call = c
           /\ ~NewPage(sel, c).active /\ NewPage(sel, c).animate /\ ~NewPage(sel, c).moving
           /\ NewPage(sel, c).login = "no" <=> sel # "login"
<1>1. PICK l : l = IF sel = "login" THEN "asking" ELSE "no"
  OBVIOUS
<1>2. NewPage(sel, c) = [sel |-> sel, active |-> FALSE, animate |-> TRUE, moving |-> FALSE, login |-> l, call |-> c]
  BY <1>1 DEF NewPage
<1>3. l \in {"no", "asking", "window", "left"} /\ (l # "no" <=> sel = "login")
  BY <1>1
<1>4. QED
  BY <1>2, <1>3 DEF Page

(* A window starts well.                                                     *)
LEMMA FirstPagesOK ==
    /\ PagesOK(FirstPages) /\ Len(FirstPages) = 2 /\ DOMAIN FirstPages = {1, 2}
    /\ \A e \in {1, 2} : ~FirstPages[e].moving /\ FirstPages[e].login = "no"
    /\ FirstBelow \in [Selectors -> SUBSET Selectors]
<1>1. PICK a : a = [NewPage("progress", 0) EXCEPT !.animate = FALSE]
  OBVIOUS
<1>b. PICK b : b = [NewPage("reactions", 0) EXCEPT !.animate = FALSE, !.active = TRUE]
  OBVIOUS
<1>n. 0 \in 0..MaxCalls /\ "progress" \in Selectors /\ "reactions" \in Selectors
  BY ReactionsWindowAssumption DEF Selectors
<1>c. a \in Page /\ a.sel = "progress" /\ ~a.moving /\ a.login = "no"
  <2>1. PICK p : p = NewPage("progress", 0)
    OBVIOUS
  <2>2. p \in Page /\ p.sel = "progress" /\ ~p.moving /\ p.login = "no"
    BY <1>n, <2>1, NewPageFacts
  <2>3. QED
    BY <1>1, <2>1, <2>2 DEF Page
<1>d. b \in Page /\ b.sel = "reactions" /\ ~b.moving /\ b.login = "no"
  <2>1. PICK p : p = NewPage("reactions", 0)
    OBVIOUS
  <2>2. p \in Page /\ p.sel = "reactions" /\ ~p.moving /\ p.login = "no"
    BY <1>n, <2>1, NewPageFacts
  <2>3. QED
    BY <1>b, <2>1, <2>2 DEF Page
<1>e. FirstPages = <<a, b>>
  BY <1>1, <1>b DEF FirstPages
<1>2. /\ FirstPages \in Seq(Page) /\ Len(FirstPages) = 2 /\ DOMAIN FirstPages = {1, 2}
      /\ FirstPages[1].sel = "progress" /\ FirstPages[2].sel = "reactions"
      /\ \A e \in {1, 2} : ~FirstPages[e].moving /\ FirstPages[e].login = "no"
  BY <1>c, <1>d, <1>e
<1>3. FirstBelow \in [Selectors -> SUBSET Selectors]
  BY DEF FirstBelow, Selectors
<1>4. PagesOK(FirstPages)
  <2>1. PICK p : p = FirstPages
    OBVIOUS
  <2>2. /\ p \in Seq(Page) /\ Len(p) = 2 /\ DOMAIN p = {1, 2}
        /\ p[1].sel = "progress" /\ p[2].sel = "reactions"
        /\ \A e \in {1, 2} : p[e].login = "no"
    BY <1>2, <2>1
  <2>3. Len(p) \in 2..MaxPages
    BY <2>2, ReactionsWindowAssumption
  <2>4. PagesOK(p)
    BY <2>2, <2>3 DEF PagesOK, Progress, Reactions, Kept
  <2>5. QED
    BY <2>1, <2>4
<1>5. QED
  BY <1>2, <1>3, <1>4

(* The types hold at the start.                                              *)
LEMMA TypeStart == Init => TypeInv
<1> SUFFICES ASSUME Init PROVE TypeInv
  OBVIOUS
<1>1. pages = FirstPages /\ below = FirstBelow
  BY DEF Init
<1>2. ViewOK
  <2>1. ShowsOK
    BY DEF Init, ShowsOK
  <2>2. top \in Selectors /\ overtaken \in BOOLEAN
    BY DEF Init, Selectors
  <2>3. QED
    BY <1>1, <2>1, <2>2, FirstPagesOK DEF ViewOK
<1>3. CallsOK /\ DataOK /\ GoneOK
  <2>1. 1 \in 1..MaxWindows /\ 0 \in 0..MaxPosts /\ 0 \in 0..MaxCalls /\ 0 <= MaxCalls
    BY ReactionsWindowAssumption
  <2>2. CallsOK
    BY <2>1 DEF Init, CallsOK
  <2>3. QED
    BY <2>1, <2>2 DEF Init, DataOK, GoneOK
<1>4. LoginsOK
  BY <1>1, FirstPagesOK DEF LoginsOK
<1>5. QED
  BY <1>2, <1>3, <1>4 DEF TypeInv

(* What is known of a list of pages, by itself.                              *)
LEMMA PagesAre ==
    ASSUME NEW p, PagesOK(p)
    PROVE  /\ Len(p) \in Nat /\ Len(p) > 1 /\ Len(p) <= MaxPages /\ MaxPages \in Nat
           /\ DOMAIN p = 1..Len(p) /\ p \in [DOMAIN p -> Page]
           /\ DOMAIN p \subseteq 1..MaxPages /\ 1 \in DOMAIN p /\ 2 \in DOMAIN p
           /\ \A e \in DOMAIN p : p[e] \in Page /\ p[e].sel \in Selectors
           /\ p[1].sel = "progress" /\ p[2].sel = "reactions"
<1>1. p \in Seq(Page) /\ Len(p) \in 2..MaxPages /\ MaxPages \in Nat
  BY ReactionsWindowAssumption DEF PagesOK
<1>2. /\ Len(p) \in Nat /\ Len(p) > 1 /\ Len(p) <= MaxPages
      /\ DOMAIN p = 1..Len(p) /\ p \in [DOMAIN p -> Page]
  BY <1>1
<1>3. \A e \in DOMAIN p : p[e] \in Page /\ p[e].sel \in Selectors
  BY <1>2 DEF Page
<1>4. DOMAIN p \subseteq 1..MaxPages /\ 1 \in DOMAIN p /\ 2 \in DOMAIN p
  BY <1>1, <1>2
<1>5. QED
  BY <1>1, <1>2, <1>3, <1>4 DEF PagesOK, Progress, Reactions

(* What addClass and removeClass do to a page.                               *)
LEMMA ActivatedFacts ==
    ASSUME NEW p, PagesOK(p), NEW on, NEW a \in BOOLEAN
    PROVE  /\ SamePages(p, Activated(p, on, a)) /\ PagesOK(Activated(p, on, a))
           /\ DOMAIN Activated(p, on, a) = DOMAIN p
           /\ \A e \in DOMAIN p :
                  /\ Activated(p, on, a)[e].login = p[e].login
                  /\ Activated(p, on, a)[e].call = p[e].call
                  /\ Activated(p, on, a)[e].sel = p[e].sel
                  /\ Activated(p, on, a)[e].animate <=> p[e].animate
                  /\ Activated(p, on, a)[e].active <=> IF e \in on THEN a ELSE p[e].active
                  /\ Activated(p, on, a)[e].moving <=>
                         \/ p[e].moving
                         \/ e \in on /\ p[e].animate /\ ~(p[e].active <=> a)
<1> DEFINE q == Activated(p, on, a)
<1>1. \A e \in DOMAIN p : p[e] \in Page
  BY PagesAre
<1>2. \A e \in DOMAIN p :
          /\ q[e] \in Page
          /\ q[e].login = p[e].login
          /\ q[e].call = p[e].call
          /\ q[e].sel = p[e].sel
          /\ q[e].animate <=> p[e].animate
          /\ q[e].active <=> IF e \in on THEN a ELSE p[e].active
          /\ q[e].moving <=>
                 \/ p[e].moving
                 \/ e \in on /\ p[e].animate /\ ~(p[e].active <=> a)
  <2> SUFFICES ASSUME NEW e \in DOMAIN p PROVE
          /\ q[e] \in Page
          /\ q[e].login = p[e].login
          /\ q[e].call = p[e].call
          /\ q[e].sel = p[e].sel
          /\ q[e].animate <=> p[e].animate
          /\ q[e].active <=> IF e \in on THEN a ELSE p[e].active
          /\ q[e].moving <=>
                 \/ p[e].moving
                 \/ e \in on /\ p[e].animate /\ ~(p[e].active <=> a)
    OBVIOUS
  <2>1. PICK r \in Page : r = p[e]
    BY <1>1
  <2>2. q[e] = IF e \in on /\ r.active # a
               THEN [r EXCEPT !.active = a, !.moving = @ \/ r.animate] ELSE r
    BY <2>1 DEF Activated
  <2>3. r.active \in BOOLEAN /\ r.moving \in BOOLEAN /\ r.animate \in BOOLEAN
    BY DEF Page
  <2> HIDE DEF q
  <2>4. CASE e \in on /\ r.active # a
    <3>1. PICK m \in BOOLEAN : m <=> (r.moving \/ r.animate)
      OBVIOUS
    <3>2. q[e] = [r EXCEPT !.active = a, !.moving = m]
      BY <2>2, <2>3, <2>4, <3>1
    <3>3. /\ q[e] \in Page /\ q[e].login = r.login /\ q[e].call = r.call /\ q[e].sel = r.sel
          /\ q[e].animate = r.animate /\ q[e].active = a /\ q[e].moving = m
      BY <3>2 DEF Page
    <3>4. QED
      BY <2>1, <2>3, <2>4, <3>1, <3>3
  <2>5. CASE ~(e \in on /\ r.active # a)
    BY <2>1, <2>2, <2>3, <2>5
  <2>6. QED
    BY <2>4, <2>5
<1>3. DOMAIN q = DOMAIN p /\ q \in [DOMAIN p -> Page]
  <2>1. q = [e \in DOMAIN p |-> q[e]]
    BY DEF Activated
  <2> HIDE DEF q
  <2>2. QED
    BY <1>2, <2>1
<1> HIDE DEF q
<1>4. SamePages(p, q)
  BY <1>2, <1>3 DEF SamePages
<1>5. PagesOK(q) /\ DOMAIN q = DOMAIN p
  BY <1>4, SamePagesOK
<1>6. QED
  BY <1>2, <1>4, <1>5 DEF q

(* Of the pages the first two are kept.                                      *)
LEMMA FirstTwo ==
    ASSUME NEW p, PagesOK(p)
    PROVE  /\ PagesOK(SubSeq(p, 1, 2)) /\ Len(SubSeq(p, 1, 2)) = 2
           /\ DOMAIN SubSeq(p, 1, 2) = {1, 2}
           /\ SubSeq(p, 1, 2)[1] = p[1] /\ SubSeq(p, 1, 2)[2] = p[2]
<1>1. p \in Seq(Page) /\ Len(p) \in Nat /\ Len(p) > 1 /\ 2 \in 2..MaxPages
  BY PagesAre, ReactionsWindowAssumption DEF PagesOK
<1>2. /\ SubSeq(p, 1, 2) \in Seq(Page) /\ Len(SubSeq(p, 1, 2)) = 2
      /\ DOMAIN SubSeq(p, 1, 2) = {1, 2}
      /\ SubSeq(p, 1, 2)[1] = p[1] /\ SubSeq(p, 1, 2)[2] = p[2]
  BY <1>1
<1>3. 1 \in DOMAIN p /\ 2 \in DOMAIN p
  BY PagesAre
<1>4. QED
  BY <1>1, <1>2, <1>3 DEF PagesOK, Progress, Reactions, Kept

(* A page is added.                                                          *)
LEMMA AppendPage ==
    ASSUME NEW p, PagesOK(p), Len(p) < MaxPages, NEW s \in Pushed, NEW c \in 0..MaxCalls
    PROVE  LET q == Append(p, NewPage(s, c)) IN
           /\ PagesOK(q) /\ DOMAIN q = DOMAIN p \cup {Len(p) + 1} /\ Len(p) + 1 \notin DOMAIN p
           /\ Len(p) + 1 > 2 /\ \A e \in DOMAIN p : e <= Len(p)
           /\ q[Len(p) + 1] = NewPage(s, c)
           /\ \A e \in DOMAIN p : q[e] = p[e]
<1> DEFINE q == Append(p, NewPage(s, c))
<1>1. /\ Len(p) \in Nat /\ Len(p) > 1 /\ Len(p) + 1 <= MaxPages /\ MaxPages \in Nat /\ p \in Seq(Page)
      /\ DOMAIN p = 1..Len(p) /\ 1 \in DOMAIN p /\ 2 \in DOMAIN p
  BY PagesAre DEF PagesOK
<1>2. s \in Selectors /\ NewPage(s, c) \in Page
  BY NewPageFacts DEF Pushed
<1>3. PICK r \in Page : r = NewPage(s, c)
  BY <1>2
<1>4. r.sel = s /\ (r.login # "no" <=> r.sel = "login")
  BY <1>2, <1>3, NewPageFacts
<1>5. q = Append(p, r)
  BY <1>3
<1> HIDE DEF q
<1>6. /\ q \in Seq(Page) /\ Len(q) = Len(p) + 1 /\ DOMAIN q = 1..(Len(p) + 1)
      /\ q[Len(p) + 1] = r /\ \A e \in DOMAIN p : q[e] = p[e]
  BY <1>1, <1>5
<1>7. DOMAIN q = DOMAIN p \cup {Len(p) + 1} /\ Len(p) + 1 \notin DOMAIN p /\ Len(q) \in 2..MaxPages
  BY <1>1, <1>6
<1>8. PagesOK(q)
  <2>1. \A e \in DOMAIN q : (e \in DOMAIN p /\ q[e] = p[e]) \/ (q[e].sel = s /\ q[e] = r)
    BY <1>4, <1>6, <1>7
  <2>2. QED
    BY <1>1, <1>4, <1>6, <1>7, <2>1 DEF PagesOK, Progress, Reactions
<1>9. QED
  BY <1>1, <1>3, <1>6, <1>7, <1>8 DEF q

(* What the types say, in the words the steps need.                          *)
LEMMA TypesMean ==
    ASSUME TypeInv
    PROVE  /\ PagesOK(pages) /\ DOMAIN pages \subseteq 1..MaxPages /\ 1 \in DOMAIN pages /\ 2 \in DOMAIN pages
           /\ Active \subseteq DOMAIN pages /\ \A s : Find(s) \subseteq DOMAIN pages
           /\ shows \in Seq(Pushed)
           /\ toggles \in Seq([on : SUBSET (1..MaxPages), active : BOOLEAN])
           /\ \A i \in DOMAIN toggles : toggles[i].on \subseteq DOMAIN pages /\ toggles[i].active \in BOOLEAN
           /\ handlers \subseteq Handler
           /\ \A h \in handlers : h.on \subseteq DOMAIN pages /\ h.current \subseteq DOMAIN pages
           /\ below \in [Selectors -> SUBSET Selectors]
           /\ calls \in Seq(Call) /\ DOMAIN calls \subseteq 1..MaxCalls /\ DOMAIN calls = 1..Len(calls)
<1>1. \A i \in DOMAIN toggles : toggles[i].active \in BOOLEAN
  <2>1. toggles \in Seq([on : SUBSET (1..MaxPages), active : BOOLEAN])
    BY DEF TypeInv, ViewOK, ShowsOK
  <2>2. \A i \in DOMAIN toggles : toggles[i] \in [on : SUBSET (1..MaxPages), active : BOOLEAN]
    BY <2>1, InSeq
  <2>3. QED
    BY <2>2
<1>2. DOMAIN calls = 1..Len(calls) /\ DOMAIN calls \subseteq 1..MaxCalls
  BY ReactionsWindowAssumption DEF TypeInv, CallsOK
<1>3. /\ DOMAIN pages \subseteq 1..MaxPages /\ 1 \in DOMAIN pages /\ 2 \in DOMAIN pages
  BY PagesAre DEF TypeInv, ViewOK
<1>4. QED
  BY <1>1, <1>2, <1>3 DEF TypeInv, ViewOK, ShowsOK, CallsOK, Active, Find

(* The other parts of the state are as they were.                            *)
LEMMA CallsStay ==
    ASSUME CallsOK, UNCHANGED <<window, calls, posts>> PROVE CallsOK'
  BY DEF CallsOK

(* The same for the data.                                                    *)
LEMMA DataStay ==
    ASSUME DataOK, UNCHANGED <<win, calls, data, stuck>> PROVE DataOK'
  BY DEF DataOK, data

(* A window that has not gone may have pages and timers.                     *)
LEMMA GoneStays ==
    ASSUME win' # "gone" PROVE GoneOK'
  BY DEF GoneOK

(* Nothing is shown, and calls are only added to.                            *)
LEMMA ViewStays ==
    ASSUME TypeInv, UNCHANGED view, DOMAIN calls \subseteq DOMAIN calls'
    PROVE  ViewOK' /\ LoginsOK' /\ (win' = win => GoneOK')
  BY DEF TypeInv, ViewOK, PagesOK, ShowsOK, LoginsOK, GoneOK, view

(* Pages are pushed for calls.                                               *)
LEMMA PushTypes ==
    ASSUME TypeInv, NEW sel \in Pushed, NEW c \in DOMAIN calls', DOMAIN calls' \subseteq 1..MaxCalls,
           DOMAIN calls \subseteq DOMAIN calls', Push(sel, c)
    PROVE  ViewOK' /\ LoginsOK'
<1>1. /\ PagesOK(pages) /\ Len(pages) < MaxPages /\ c \in 0..MaxCalls
      /\ pages' = Append(pages, NewPage(sel, c))
  BY DEF TypeInv, ViewOK, Push
<1>2. /\ PagesOK(pages)' /\ DOMAIN pages' = DOMAIN pages \cup {Len(pages) + 1}
      /\ pages'[Len(pages) + 1] = NewPage(sel, c)
      /\ \A e \in DOMAIN pages : pages'[e] = pages[e]
  BY <1>1, AppendPage
<1>3. ShowsOK'
  <2>1. shows' \in Seq(Pushed)
    BY DEF TypeInv, ViewOK, ShowsOK, Push
  <2>2. QED
    BY <1>2, <2>1 DEF TypeInv, ViewOK, ShowsOK, Push
<1>4. LoginsOK'
  <2>1. NewPage(sel, c).call = c
    BY <1>1, NewPageFacts DEF Pushed
  <2>2. QED
    BY <1>2, <2>1 DEF TypeInv, LoginsOK
<1>5. below' \in [Selectors -> SUBSET Selectors] /\ top' \in Selectors /\ overtaken' \in BOOLEAN
  <2>1. (overtaken \/ GoingBack \/ (Moving /\ Find(sel) # {})) \in BOOLEAN
    OBVIOUS
  <2>2. QED
    BY <2>1 DEF TypeInv, ViewOK, Push, Pushed
<1>6. QED
  BY <1>2, <1>3, <1>4, <1>5 DEF ViewOK

(* A page is pushed for an answer, if its window is there.                   *)
LEMMA PushForTypes ==
    ASSUME TypeInv, NEW sel \in Pushed, NEW c \in DOMAIN calls, DOMAIN calls' = DOMAIN calls, PushFor(c, sel),
           win' = win
    PROVE  ViewOK' /\ LoginsOK' /\ GoneOK'
<1>1. CASE win # "gone" /\ Push(sel, c)
  BY <1>1, PushTypes, TypesMean, GoneStays
<1>2. CASE UNCHANGED view
  BY <1>2, ViewStays
<1>3. QED
  BY <1>1, <1>2 DEF PushFor

(* Pages that are the same but for their classes.                            *)
LEMMA SameTypes ==
    ASSUME TypeInv, PagesOK(pages)', DOMAIN pages' = DOMAIN pages, DOMAIN calls \subseteq DOMAIN calls',
           \A e \in DOMAIN pages : /\ pages'[e].sel = pages[e].sel
                                   /\ pages'[e].login = pages[e].login
                                   /\ pages'[e].login # "no" => pages'[e].call = pages[e].call
    PROVE  /\ LoginsOK'
           /\ UNCHANGED <<shows, toggles, handlers>> => ShowsOK'
           /\ UNCHANGED <<below, shows, toggles, handlers, top, overtaken>> => ViewOK'
<1>1. LoginsOK'
  BY DEF TypeInv, LoginsOK
<1>2. UNCHANGED <<shows, toggles, handlers>> => ShowsOK'
  BY DEF TypeInv, ViewOK, ShowsOK
<1>3. QED
  BY <1>1, <1>2 DEF TypeInv, ViewOK

(* A queue of timers: one is set, or the first one fires.                    *)
LEMMA TimerSet ==
    ASSUME TypeInv, NEW on \in SUBSET DOMAIN pages, NEW a \in BOOLEAN
    PROVE  LET t == Append(toggles, [on |-> on, active |-> a]) IN
           /\ t \in Seq([on : SUBSET (1..MaxPages), active : BOOLEAN])
           /\ Len(toggles) \in Nat /\ DOMAIN toggles = 1..Len(toggles)
           /\ DOMAIN t = DOMAIN toggles \cup {Len(toggles) + 1} /\ Len(toggles) + 1 \notin DOMAIN toggles
           /\ t[Len(toggles) + 1].on = on /\ t[Len(toggles) + 1].active = a
           /\ \A i \in DOMAIN toggles : t[i] = toggles[i]
<1>1. [on |-> on, active |-> a] \in [on : SUBSET (1..MaxPages), active : BOOLEAN]
  BY TypesMean
<1>2. PICK r \in [on : SUBSET (1..MaxPages), active : BOOLEAN] : r = [on |-> on, active |-> a]
  BY <1>1
<1>3. r.on = on /\ r.active = a
  BY <1>2
<1>4. PICK t : t = Append(toggles, r)
  OBVIOUS
<1>5. toggles \in Seq([on : SUBSET (1..MaxPages), active : BOOLEAN])
  BY TypesMean
<1>6. /\ t \in Seq([on : SUBSET (1..MaxPages), active : BOOLEAN])
      /\ Len(toggles) \in Nat /\ DOMAIN toggles = 1..Len(toggles)
      /\ DOMAIN t = 1..(Len(toggles) + 1)
      /\ t[Len(toggles) + 1] = r /\ \A i \in DOMAIN toggles : t[i] = toggles[i]
  BY <1>4, <1>5
<1>7. DOMAIN t = DOMAIN toggles \cup {Len(toggles) + 1} /\ Len(toggles) + 1 \notin DOMAIN toggles
  BY <1>6
<1>8. QED
  BY <1>2, <1>3, <1>4, <1>6, <1>7

(* The first timer that toggles a class fires.                               *)
LEMMA TimerFires ==
    ASSUME TypeInv, toggles # <<>>
    PROVE  /\ Tail(toggles) \in Seq([on : SUBSET (1..MaxPages), active : BOOLEAN])
           /\ Len(toggles) \in Nat /\ DOMAIN toggles = 1..Len(toggles) /\ 1 \in DOMAIN toggles
           /\ Head(toggles) = toggles[1]
           /\ \A i \in DOMAIN Tail(toggles) : /\ i \in Nat /\ i # 0 /\ i + 1 \in DOMAIN toggles
                                              /\ Tail(toggles)[i] = toggles[i + 1]
           /\ \A i \in DOMAIN toggles : i # 1 => i - 1 \in DOMAIN Tail(toggles)
<1>1. toggles \in Seq([on : SUBSET (1..MaxPages), active : BOOLEAN])
  BY TypesMean
<1>2. QED
  BY <1>1

(* The first timer that shows a page fires.                                  *)
LEMMA ShowFires ==
    ASSUME TypeInv, shows # <<>>
    PROVE  /\ Tail(shows) \in Seq(Pushed) /\ Head(shows) \in Pushed
           /\ Len(shows) \in Nat /\ Len(shows) > 0 /\ DOMAIN shows = 1..Len(shows) /\ 1 \in DOMAIN shows
           /\ Head(shows) = shows[1] /\ Len(Tail(shows)) = Len(shows) - 1
           /\ \A i \in DOMAIN Tail(shows) : /\ i \in Nat /\ i # 0 /\ i + 1 \in DOMAIN shows
                                            /\ Tail(shows)[i] = shows[i + 1]
<1>1. shows \in Seq(Pushed)
  BY TypesMean
<1>2. QED
  BY <1>1

(* Each step keeps the types.                                                *)
LEMMA ShowTypes == TypeInv /\ Show => TypeInv'
<1> SUFFICES ASSUME TypeInv, Show PROVE TypeInv'
  OBVIOUS
<1> DEFINE on == Find(Head(shows))
<1>1. shows # <<>> /\ shows' = Tail(shows) /\ UNCHANGED <<win, window, calls, posts, data, top, overtaken, stuck>>
  BY DEF Show
<1>2. win' # "gone" /\ CallsOK' /\ DataOK' /\ GoneOK' /\ shows' \in Seq(Pushed) /\ on \subseteq DOMAIN pages
  BY <1>1, CallsStay, DataStay, ShowFires, TypesMean DEF TypeInv, GoneOK, data
<1>3. CASE on = {}
  <2>1. UNCHANGED <<pages, below, handlers, toggles>>
    BY <1>3 DEF Show
  <2>2. QED
    BY <1>1, <1>2, <2>1 DEF TypeInv, ViewOK, ShowsOK, LoginsOK
<1>4. CASE on # {}
  <2>1. /\ pages' = [e \in DOMAIN pages |->
                        IF e \in on THEN [pages[e] EXCEPT !.animate = TRUE] ELSE pages[e]]
        /\ below' = OnTop(Head(shows))
        /\ handlers' = handlers \cup {[on |-> on, back |-> FALSE, current |-> Active \ on]}
        /\ toggles' = Append(toggles, [on |-> on, active |-> TRUE])
    BY <1>4 DEF Show
  <2> HIDE DEF on
  <2>2. SamePages(pages, pages') /\ \A e \in DOMAIN pages : /\ pages'[e].login = pages[e].login
                                                            /\ pages'[e].call = pages[e].call
    <3>1. \A e \in DOMAIN pages : pages[e] \in Page
      BY TypesMean, PagesAre
    <3>2. ASSUME NEW e \in DOMAIN pages
          PROVE  /\ pages'[e] \in Page /\ pages'[e].sel = pages[e].sel
                 /\ pages'[e].login = pages[e].login /\ pages'[e].call = pages[e].call
      <4>1. PICK p \in Page : p = pages[e]
        BY <3>1
      <4>2. pages'[e] = IF e \in on THEN [p EXCEPT !.animate = TRUE] ELSE p
        BY <2>1, <4>1
      <4>3. pages'[e] = p \/ pages'[e] = [p EXCEPT !.animate = TRUE]
        BY <4>2
      <4>4. QED
        BY <4>1, <4>3 DEF Page
    <3>3. pages' \in [DOMAIN pages -> Page]
      BY <2>1, <3>2
    <3>4. QED
      BY <3>2, <3>3 DEF SamePages
  <2>3. PagesOK(pages)' /\ DOMAIN pages' = DOMAIN pages
    BY <2>2, TypesMean, SamePagesOK
  <2>4. LoginsOK'
    BY <1>1, <2>2, <2>3, SameTypes DEF SamePages, data
  <2>5. ShowsOK'
    <3>1. [on |-> on, back |-> FALSE, current |-> Active \ on] \in Handler
      BY <1>2, TypesMean DEF Handler
    <3>2. handlers' \subseteq Handler /\ \A h \in handlers' : h.on \subseteq DOMAIN pages /\ h.current \subseteq DOMAIN pages
      <4>1. PICK r : r = [on |-> on, back |-> FALSE, current |-> Active \ on]
        OBVIOUS
      <4>2. r.on = on /\ r.current = Active \ on /\ r \in Handler /\ handlers' = handlers \cup {r}
        BY <2>1, <3>1, <4>1
      <4>3. QED
        BY <1>2, <4>2, TypesMean
    <3>3. /\ toggles' \in Seq([on : SUBSET (1..MaxPages), active : BOOLEAN])
          /\ \A i \in DOMAIN toggles' : toggles'[i].on \subseteq DOMAIN pages
      BY <1>2, <2>1, TimerSet, TypesMean
    <3>4. QED
      BY <1>2, <2>3, <3>2, <3>3 DEF ShowsOK
  <2>6. below' \in [Selectors -> SUBSET Selectors]
    BY <2>1, TypesMean DEF OnTop
  <2>7. QED
    BY <1>1, <1>2, <2>3, <2>4, <2>5, <2>6 DEF TypeInv, ViewOK
<1>5. QED
  BY <1>3, <1>4

(* The timer of 20 ms keeps the types.                                       *)
LEMMA ToggleTypes == TypeInv /\ Toggle => TypeInv'
<1> SUFFICES ASSUME TypeInv, Toggle PROVE TypeInv'
  OBVIOUS
<1>1. /\ toggles # <<>> /\ toggles' = Tail(toggles)
      /\ pages' = Activated(pages, Head(toggles).on, Head(toggles).active)
      /\ UNCHANGED <<win, window, below, shows, handlers, calls, posts, data, top, overtaken, stuck>>
  BY DEF Toggle
<1>2. Head(toggles).active \in BOOLEAN
  BY <1>1, TimerFires, TypesMean
<1>3. /\ PagesOK(pages)' /\ DOMAIN pages' = DOMAIN pages
      /\ \A e \in DOMAIN pages : /\ pages'[e].sel = pages[e].sel
                                 /\ pages'[e].login = pages[e].login
                                 /\ pages'[e].call = pages[e].call
  BY <1>1, <1>2, ActivatedFacts, TypesMean
<1>4. LoginsOK'
  BY <1>1, <1>3, SameTypes DEF data
<1>5. ShowsOK'
  <2>1. toggles' \in Seq([on : SUBSET (1..MaxPages), active : BOOLEAN])
    BY <1>1, TimerFires
  <2>2. \A i \in DOMAIN toggles' : toggles'[i].on \subseteq DOMAIN pages'
    BY <1>1, <1>3, TimerFires, TypesMean
  <2>3. QED
    BY <1>1, <1>3, <2>1, <2>2 DEF TypeInv, ViewOK, ShowsOK
<1>6. CallsOK' /\ DataOK' /\ GoneOK'
  BY <1>1, CallsStay, DataStay DEF TypeInv, GoneOK, data
<1>7. QED
  BY <1>1, <1>3, <1>4, <1>5, <1>6 DEF TypeInv, ViewOK

(* The end of a transition: who hears it, whose listeners are taken off, and *)
(* what the pages look like then.                                            *)
Heard(e) == {h \in handlers : e \in h.on}
Unheard(e) == UNION {h.on : h \in Heard(e)}
Listening(e) == {[h EXCEPT !.on = @ \ Unheard(e)] : h \in {g \in handlers : ~(g.on \subseteq Unheard(e))}}
Resting(e) == [pages EXCEPT ![e].moving = FALSE]
Shown(e) == Activated(Resting(e), UNION {h.current : h \in Heard(e)}, FALSE)
BackAtFirst(e) == SubSeq(Activated(Shown(e), {Progress}, FALSE), 1, 2)

(* TransitionEnd in these words.                                             *)
LEMMA TransitionIs ==
    ASSUME NEW e, TransitionEnd(e)
    PROVE  /\ pages[e].moving
           /\ UNCHANGED <<win, window, shows, calls, posts, known, located, top, overtaken, stuck>>
           /\ (\E h \in Heard(e) : h.back) =>
                  /\ pages' = BackAtFirst(e) /\ handlers' = Without(Listening(e))
                  /\ toggles' = [i \in DOMAIN toggles |-> [toggles[i] EXCEPT !.on = @ \cap Kept]]
                  /\ returning' = returning \cup NotCancelled
                  /\ below' = OnTop("reactions")
           /\ ~(\E h \in Heard(e) : h.back) =>
                  /\ pages' = Shown(e) /\ handlers' = Listening(e)
                  /\ UNCHANGED <<toggles, returning, below>>
  BY DEF TransitionEnd, Heard, Unheard, Listening, Resting, Shown, BackAtFirst

(* The page whose transition has ended no longer moves.                      *)
LEMMA RestingFacts ==
    ASSUME TypeInv, NEW e \in DOMAIN pages
    PROVE  /\ PagesOK(Resting(e)) /\ DOMAIN Resting(e) = DOMAIN pages
           /\ \A f \in DOMAIN pages :
                  /\ Resting(e)[f].login = pages[f].login
                  /\ Resting(e)[f].call = pages[f].call
                  /\ Resting(e)[f].sel = pages[f].sel
                  /\ Resting(e)[f].animate <=> pages[f].animate
                  /\ Resting(e)[f].active <=> pages[f].active
                  /\ Resting(e)[f].moving <=> pages[f].moving /\ f # e
<1> DEFINE q == Resting(e)
<1>1. PagesOK(pages) /\ pages \in [DOMAIN pages -> Page] /\ \A f \in DOMAIN pages : pages[f] \in Page
  BY TypesMean, PagesAre
<1>2. PICK p \in Page : p = pages[e]
  BY <1>1
<1>3. PICK r : r = [p EXCEPT !.moving = FALSE]
  OBVIOUS
<1>4. /\ r \in Page /\ r.login = p.login /\ r.call = p.call /\ r.sel = p.sel
      /\ r.animate = p.animate /\ r.active = p.active /\ ~r.moving
  BY <1>3 DEF Page
<1>5. q = [pages EXCEPT ![e] = r]
  BY <1>1, <1>2, <1>3 DEF Resting
<1> HIDE DEF q
<1>6. q \in [DOMAIN pages -> Page] /\ q[e] = r /\ \A f \in DOMAIN pages : f # e => q[f] = pages[f]
  BY <1>1, <1>4, <1>5
<1>7. SamePages(pages, q)
  BY <1>2, <1>4, <1>6 DEF SamePages
<1>8. PagesOK(q) /\ DOMAIN q = DOMAIN pages
  BY <1>1, <1>7, SamePagesOK
<1>9. \A f \in DOMAIN pages :
          /\ q[f].login = pages[f].login
          /\ q[f].call = pages[f].call
          /\ q[f].sel = pages[f].sel
          /\ q[f].animate <=> pages[f].animate
          /\ q[f].active <=> pages[f].active
          /\ q[f].moving <=> pages[f].moving /\ f # e
  BY <1>2, <1>4, <1>6
<1>10. QED
  BY <1>8, <1>9 DEF q

(* What its listener takes away is not active any more, and may move.        *)
LEMMA ShownFacts ==
    ASSUME TypeInv, NEW e \in DOMAIN pages
    PROVE  /\ PagesOK(Shown(e)) /\ DOMAIN Shown(e) = DOMAIN pages
           /\ \A f \in DOMAIN pages :
                  /\ Shown(e)[f].login = pages[f].login
                  /\ Shown(e)[f].call = pages[f].call
                  /\ Shown(e)[f].sel = pages[f].sel
                  /\ Shown(e)[f].animate <=> pages[f].animate
                  /\ Shown(e)[f].active <=> pages[f].active /\ \A h \in Heard(e) : f \notin h.current
                  /\ Shown(e)[f].moving <=>
                         \/ pages[f].moving /\ f # e
                         \/ pages[f].animate /\ pages[f].active /\ \E h \in Heard(e) : f \in h.current
<1> DEFINE on == UNION {h.current : h \in Heard(e)}
<1>1. \A f : f \in on <=> \E h \in Heard(e) : f \in h.current
  OBVIOUS
<1>2. Shown(e) = Activated(Resting(e), on, FALSE)
  BY DEF Shown
<1> HIDE DEF on
<1>3. /\ PagesOK(Shown(e)) /\ DOMAIN Shown(e) = DOMAIN pages
      /\ \A f \in DOMAIN pages :
             /\ Shown(e)[f].login = Resting(e)[f].login
             /\ Shown(e)[f].call = Resting(e)[f].call
             /\ Shown(e)[f].sel = Resting(e)[f].sel
             /\ Shown(e)[f].animate <=> Resting(e)[f].animate
             /\ Shown(e)[f].active <=> IF f \in on THEN FALSE ELSE Resting(e)[f].active
             /\ Shown(e)[f].moving <=>
                    \/ Resting(e)[f].moving
                    \/ f \in on /\ Resting(e)[f].animate /\ ~(Resting(e)[f].active <=> FALSE)
  <2>1. PICK r : r = Resting(e)
    OBVIOUS
  <2>a. PICK a \in BOOLEAN : a = FALSE
    OBVIOUS
  <2>o. PICK o : o = on
    OBVIOUS
  <2>2. PICK n : n = Activated(r, o, a)
    OBVIOUS
  <2>3. PagesOK(r) /\ DOMAIN r = DOMAIN pages
    BY <2>1, RestingFacts
  <2>n. n = Shown(e)
    BY <1>2, <2>1, <2>2, <2>a, <2>o
  <2>4. PagesOK(n) /\ DOMAIN n = DOMAIN r
    BY <2>2, <2>3, ActivatedFacts
  <2>5. ASSUME NEW f \in DOMAIN r
        PROVE  /\ n[f].login = r[f].login
               /\ n[f].call = r[f].call
               /\ n[f].sel = r[f].sel
               /\ n[f].animate <=> r[f].animate
               /\ n[f].active <=> IF f \in o THEN a ELSE r[f].active
               /\ n[f].moving <=>
                      \/ r[f].moving
                      \/ f \in o /\ r[f].animate /\ ~(r[f].active <=> a)
    BY <2>2, <2>3, ActivatedFacts
  <2>6. QED
    BY <2>1, <2>3, <2>4, <2>5, <2>a, <2>o, <2>n
<1>4. QED
  BY <1>1, <1>3, RestingFacts

(* When going back is over there are two pages.                              *)
LEMMA BackAtFirstFacts ==
    ASSUME TypeInv, NEW e \in DOMAIN pages
    PROVE  /\ PagesOK(BackAtFirst(e)) /\ Len(BackAtFirst(e)) = 2 /\ DOMAIN BackAtFirst(e) = {1, 2}
           /\ \A f \in {1, 2} : /\ BackAtFirst(e)[f].login = pages[f].login
                                /\ BackAtFirst(e)[f].call = pages[f].call
                                /\ BackAtFirst(e)[f].sel = pages[f].sel
           /\ ~BackAtFirst(e)[1].active
           /\ BackAtFirst(e)[2].active <=> pages[2].active /\ \A h \in Heard(e) : 2 \notin h.current
<1> DEFINE q == Activated(Shown(e), {Progress}, FALSE)
<1>1. 1 \in DOMAIN pages /\ 2 \in DOMAIN pages
  BY TypesMean
<1>2. PagesOK(q) /\ q[1].login = pages[1].login /\ q[1].call = pages[1].call /\ q[1].sel = pages[1].sel
      /\ q[2].login = pages[2].login /\ q[2].call = pages[2].call /\ q[2].sel = pages[2].sel
      /\ ~q[1].active /\ (q[2].active <=> Shown(e)[2].active)
  <2>1. PICK r : r = Shown(e)
    OBVIOUS
  <2>a. PICK a \in BOOLEAN : a = FALSE
    OBVIOUS
  <2>2. PICK n : n = Activated(r, {1}, a)
    OBVIOUS
  <2>3. PagesOK(r) /\ DOMAIN r = DOMAIN pages
    BY <2>1, ShownFacts
  <2>4. /\ PagesOK(n)
        /\ \A f \in DOMAIN r :
               /\ n[f].login = r[f].login
               /\ n[f].call = r[f].call
               /\ n[f].sel = r[f].sel
               /\ n[f].active <=> IF f \in {1} THEN a ELSE r[f].active
    BY <2>2, <2>3, ActivatedFacts
  <2>5. \A f \in {1, 2} : r[f].login = pages[f].login /\ r[f].call = pages[f].call /\ r[f].sel = pages[f].sel
    BY <1>1, <2>1, ShownFacts
  <2>6. n = q
    BY <2>1, <2>2, <2>a DEF Progress
  <2> HIDE DEF q
  <2>7. QED
    BY <1>1, <2>1, <2>3, <2>4, <2>5, <2>6, <2>a
<1>3. BackAtFirst(e) = SubSeq(q, 1, 2)
  BY DEF BackAtFirst
<1> HIDE DEF q
<1>4. /\ PagesOK(BackAtFirst(e)) /\ Len(BackAtFirst(e)) = 2 /\ DOMAIN BackAtFirst(e) = {1, 2}
      /\ BackAtFirst(e)[1] = q[1] /\ BackAtFirst(e)[2] = q[2]
  BY <1>2, <1>3, FirstTwo
<1>5. Shown(e)[2].active <=> pages[2].active /\ \A h \in Heard(e) : 2 \notin h.current
  BY <1>1, ShownFacts
<1>6. QED
  BY <1>2, <1>4, <1>5

(* Listeners, also when they are taken off some of their pages.              *)
LEMMA ListeningFacts ==
    ASSUME TypeInv, NEW e
    PROVE  /\ Listening(e) \subseteq Handler
           /\ \A h \in Listening(e) : /\ h.on \subseteq DOMAIN pages /\ h.current \subseteq DOMAIN pages
                                      /\ \E g \in handlers : h.on = g.on \ Unheard(e) /\ h.back = g.back
                                                             /\ h.current = g.current /\ ~(g.on \subseteq Unheard(e))
<1> SUFFICES ASSUME NEW h \in Listening(e)
             PROVE  /\ h \in Handler /\ h.on \subseteq DOMAIN pages /\ h.current \subseteq DOMAIN pages
                    /\ \E g \in handlers : h.on = g.on \ Unheard(e) /\ h.back = g.back
                                           /\ h.current = g.current /\ ~(g.on \subseteq Unheard(e))
  OBVIOUS
<1>1. PICK g \in handlers : ~(g.on \subseteq Unheard(e)) /\ h = [g EXCEPT !.on = @ \ Unheard(e)]
  BY DEF Listening
<1>2. g \in Handler /\ g.on \subseteq DOMAIN pages /\ g.current \subseteq DOMAIN pages
  BY TypesMean
<1>3. PICK u : u = Unheard(e)
  OBVIOUS
<1>4. h \in Handler /\ h.on = g.on \ u /\ h.back = g.back /\ h.current = g.current
  BY <1>1, <1>2, <1>3 DEF Handler
<1>5. QED
  BY <1>1, <1>2, <1>3, <1>4

(* Listeners are taken off the pages that were torn down.                    *)
LEMMA WithoutFacts ==
    ASSUME NEW hs \in SUBSET Handler, 1 \in 1..MaxPages, 2 \in 1..MaxPages
    PROVE  /\ Without(hs) \subseteq Handler
           /\ \A h \in Without(hs) : h.on \subseteq {1, 2} /\ h.current \subseteq {1, 2}
           /\ hs = {} => Without(hs) = {}
<1>1. ASSUME NEW h \in Without(hs)
      PROVE  h \in Handler /\ h.on \subseteq {1, 2} /\ h.current \subseteq {1, 2} /\ hs # {}
  <2>1. PICK g \in hs : h = [g EXCEPT !.on = @ \cap Kept, !.current = @ \cap Kept]
    BY DEF Without
  <2>2. g \in Handler /\ Kept = {1, 2}
    BY DEF Kept, Progress, Reactions
  <2>3. h = [on |-> g.on \cap {1, 2}, back |-> g.back, current |-> g.current \cap {1, 2}]
    BY <2>1, <2>2 DEF Handler
  <2>4. QED
    BY <2>2, <2>3 DEF Handler
<1>2. QED
  BY <1>1

(* The end of a transition keeps the types.                                  *)
LEMMA TransitionTypes ==
    ASSUME TypeInv, NEW e \in DOMAIN pages, TransitionEnd(e)
    PROVE  TypeInv'
<1>1. UNCHANGED <<win, window, shows, calls, posts, known, located, top, overtaken, stuck>>
  BY TransitionIs
<1>2. CallsOK'
  BY <1>1, CallsStay DEF TypeInv
<1>3. CASE ~(\E h \in Heard(e) : h.back)
  <2>1. pages' = Shown(e) /\ handlers' = Listening(e) /\ UNCHANGED <<toggles, returning, below>>
    BY <1>3, TransitionIs
  <2>2. /\ PagesOK(pages)' /\ DOMAIN pages' = DOMAIN pages
        /\ \A f \in DOMAIN pages : /\ pages'[f].sel = pages[f].sel
                                   /\ pages'[f].login = pages[f].login
                                   /\ pages'[f].call = pages[f].call
    BY <2>1, ShownFacts
  <2>3. LoginsOK'
    BY <1>1, <2>2, SameTypes
  <2>4. ShowsOK'
    BY <1>1, <2>1, <2>2, ListeningFacts DEF TypeInv, ViewOK, ShowsOK
  <2>5. GoneOK'
    <3>1. PICK n \in Nat : n = Len(pages)
      BY TypesMean, PagesAre
    <3>2. Len(pages') = Len(pages)
      BY <2>2, TypesMean DEF PagesOK
    <3>3. handlers = {} => handlers' = {}
      BY <2>1 DEF Listening
    <3>4. QED
      BY <1>1, <2>1, <3>2, <3>3 DEF TypeInv, GoneOK
  <2>6. DataOK'
    BY <1>1, <2>1 DEF TypeInv, DataOK
  <2>7. QED
    BY <1>1, <1>2, <2>1, <2>2, <2>3, <2>4, <2>5, <2>6 DEF TypeInv, ViewOK
<1>4. CASE \E h \in Heard(e) : h.back
  <2>1. /\ pages' = BackAtFirst(e) /\ handlers' = Without(Listening(e))
        /\ toggles' = [i \in DOMAIN toggles |-> [toggles[i] EXCEPT !.on = @ \cap Kept]]
        /\ returning' = returning \cup NotCancelled
        /\ below' = OnTop("reactions")
    BY <1>4, TransitionIs
  <2>2. 1 \in DOMAIN pages /\ 2 \in DOMAIN pages /\ 1 \in 1..MaxPages /\ 2 \in 1..MaxPages
    BY TypesMean
  <2>3. /\ PagesOK(pages)' /\ DOMAIN pages' = {1, 2}
        /\ \A f \in {1, 2} : pages'[f].login = pages[f].login /\ pages'[f].call = pages[f].call
    BY <2>1, BackAtFirstFacts
  <2>4. LoginsOK'
    BY <1>1, <2>2, <2>3 DEF TypeInv, LoginsOK
  <2>5. /\ toggles' \in Seq([on : SUBSET (1..MaxPages), active : BOOLEAN])
        /\ \A i \in DOMAIN toggles' : toggles'[i].on \subseteq {1, 2}
    <3>1. PICK n \in Nat : n = Len(toggles)
      BY TypesMean
    <3>2. DOMAIN toggles = 1..n /\ \A i \in 1..n : toggles[i] \in [on : SUBSET (1..MaxPages), active : BOOLEAN]
      BY <3>1, TypesMean, InSeq
    <3>3. ASSUME NEW i \in 1..n
          PROVE  /\ toggles'[i] \in [on : SUBSET (1..MaxPages), active : BOOLEAN]
                 /\ toggles'[i].on \subseteq {1, 2}
      <4>1. PICK t \in [on : SUBSET (1..MaxPages), active : BOOLEAN] : t = toggles[i]
        BY <3>2
      <4>2. toggles'[i] = [t EXCEPT !.on = @ \cap Kept] /\ Kept = {1, 2}
        BY <2>1, <3>2, <4>1 DEF Kept, Progress, Reactions
      <4>3. [t EXCEPT !.on = @ \cap Kept] = [on |-> t.on \cap Kept, active |-> t.active]
        OBVIOUS
      <4>4. QED
        BY <4>2, <4>3
    <3>4. toggles' \in [1..n -> [on : SUBSET (1..MaxPages), active : BOOLEAN]]
      BY <2>1, <3>2, <3>3
    <3>5. QED
      BY <3>3, <3>4, FunctionIsSeq
  <2>6. handlers' \subseteq Handler /\ \A h \in handlers' : h.on \subseteq {1, 2} /\ h.current \subseteq {1, 2}
    <3>1. PICK hs \in SUBSET Handler : hs = Listening(e)
      BY ListeningFacts
    <3>2. QED
      BY <2>1, <2>2, <3>1, WithoutFacts
  <2>7. ShowsOK'
    BY <1>1, <2>3, <2>5, <2>6 DEF TypeInv, ViewOK, ShowsOK
  <2>8. DataOK'
    <3>1. NotCancelled \subseteq DOMAIN calls
      BY DEF NotCancelled, Windowed, TypeInv, LoginsOK
    <3>2. QED
      BY <1>1, <2>1, <3>1 DEF TypeInv, DataOK
  <2>9. win # "gone"
    BY <1>4 DEF TypeInv, GoneOK, Heard
  <2>10. below' \in [Selectors -> SUBSET Selectors]
    BY <2>1, TypesMean DEF OnTop
  <2>11. QED
    BY <1>1, <1>2, <2>3, <2>4, <2>7, <2>8, <2>9, <2>10 DEF TypeInv, ViewOK, GoneOK
<1>5. QED
  BY <1>3, <1>4

(* A call is made, or made once more, or answered.                           *)
LEMMA NewCallTypes ==
    ASSUME TypeInv, NEW kind \in {"plusOne", "default", "custom", "locations"}, NewCall(kind), window' = window
    PROVE  /\ CallsOK' /\ DOMAIN calls' = DOMAIN calls \cup {Len(calls) + 1} /\ DOMAIN calls' \subseteq 1..MaxCalls
           /\ Len(calls) \in Nat /\ Len(calls) + 1 \notin DOMAIN calls
           /\ Len(calls) + 1 \in DOMAIN calls' /\ Len(calls) + 1 \in 0..MaxCalls
           /\ calls'[Len(calls) + 1].kind = kind
           /\ calls'[Len(calls) + 1].window = window
           /\ calls'[Len(calls) + 1].result = "none"
           /\ \A c \in DOMAIN calls : calls'[c] = calls[c]
<1> DEFINE r == [kind |-> kind, window |-> window, out |-> 1, result |-> "none"]
<1>1. /\ Len(calls) < MaxCalls /\ posts < MaxPosts /\ posts' = posts + 1 /\ calls' = Append(calls, r)
      /\ posts \in 0..MaxPosts /\ window \in 1..MaxWindows /\ MaxPosts \in Nat /\ MaxCalls \in Nat
  BY ReactionsWindowAssumption DEF NewCall, TypeInv, CallsOK
<1>2. r \in Call /\ r.kind = kind /\ r.window = window /\ r.out = 1 /\ r.result = "none"
  BY <1>1 DEF Call
<1> HIDE DEF r
<1>3. /\ calls' \in Seq(Call) /\ Len(calls') = Len(calls) + 1 /\ Len(calls) \in Nat
      /\ DOMAIN calls' = 1..(Len(calls) + 1) /\ DOMAIN calls = 1..Len(calls)
      /\ calls'[Len(calls) + 1] = r /\ \A c \in DOMAIN calls : calls'[c] = calls[c]
  BY <1>1, <1>2, TypesMean
<1>4. DOMAIN calls' = DOMAIN calls \cup {Len(calls) + 1} /\ Len(calls) + 1 \notin DOMAIN calls
  BY <1>3
<1>5. \A c \in DOMAIN calls' : calls'[c].out <= posts' /\ calls'[c].window <= window'
  <2>1. \A c \in DOMAIN calls : calls[c].out <= posts /\ calls[c].window <= window /\ calls[c] \in Call
    BY <1>3, TypesMean, InSeq DEF TypeInv, CallsOK
  <2>2. \A c \in DOMAIN calls : calls[c].out \in 0..MaxPosts
    BY <2>1 DEF Call
  <2>3. \A c \in DOMAIN calls : calls'[c].out <= posts' /\ calls'[c].window <= window'
    BY <1>1, <1>3, <2>1, <2>2
  <2>4. calls'[Len(calls) + 1].out <= posts' /\ calls'[Len(calls) + 1].window <= window'
    BY <1>1, <1>2, <1>3
  <2>5. QED
    BY <1>4, <2>3, <2>4
<1>6. CallsOK'
  BY <1>1, <1>3, <1>5 DEF CallsOK
<1>7. QED
  BY <1>1, <1>2, <1>3, <1>4, <1>6

(* One call is changed.                                                      *)
LEMMA CallChanges ==
    ASSUME TypeInv, NEW c \in DOMAIN calls, NEW r \in Call, r.window = calls[c].window, r.out <= posts',
           calls' = [calls EXCEPT ![c] = r], posts' \in 0..MaxPosts, posts <= posts', window' = window
    PROVE  CallsOK' /\ DOMAIN calls' = DOMAIN calls
           /\ calls'[c] = r /\ \A d \in DOMAIN calls : d # c => calls'[d] = calls[d]
<1>1. calls \in Seq(Call) /\ DOMAIN calls = 1..Len(calls) /\ \A d \in DOMAIN calls : calls[d] \in Call
  BY TypesMean, InSeq
<1>2. calls' \in Seq(Call) /\ Len(calls') = Len(calls) /\ DOMAIN calls' = DOMAIN calls
      /\ calls'[c] = r /\ \A d \in DOMAIN calls : d # c => calls'[d] = calls[d]
  BY <1>1
<1>3. \A d \in DOMAIN calls' : calls'[d].out <= posts' /\ calls'[d].window <= window'
  <2>1. \A d \in DOMAIN calls : calls[d].out <= posts /\ calls[d].window <= window /\ calls[d].out \in 0..MaxPosts
    BY <1>1 DEF TypeInv, CallsOK, Call
  <2>2. posts \in 0..MaxPosts /\ MaxPosts \in Nat
    BY ReactionsWindowAssumption DEF TypeInv, CallsOK
  <2>3. \A d \in DOMAIN calls : d # c => calls'[d].out <= posts' /\ calls'[d].window <= window'
    BY <1>2, <2>1, <2>2
  <2>4. QED
    BY <1>2, <2>1, <2>3
<1>4. QED
  BY <1>2, <1>3 DEF TypeInv, CallsOK

(* A +1 or a default reaction keeps the types.                               *)
LEMMA ReactTypes ==
    ASSUME TypeInv, NEW kind \in {"plusOne", "default"}, React(kind)
    PROVE  TypeInv'
<1>1. /\ NewCall(kind) /\ Push("confirmation", Len(calls) + 1) /\ win # "gone"
      /\ UNCHANGED <<win, window, data, stuck>>
  BY DEF React, Tappable
<1>2. /\ CallsOK' /\ DOMAIN calls' = DOMAIN calls \cup {Len(calls) + 1} /\ DOMAIN calls' \subseteq 1..MaxCalls
  BY <1>1, NewCallTypes
<1>3. ViewOK' /\ LoginsOK'
  <2>1. PICK c \in DOMAIN calls' : c = Len(calls) + 1
    BY <1>2
  <2>2. "confirmation" \in Pushed
    BY DEF Pushed, Selectors
  <2>3. QED
    BY <1>1, <1>2, <2>1, <2>2, PushTypes
<1>4. DataOK'
  BY <1>1, <1>2 DEF TypeInv, DataOK, data
<1>5. QED
  BY <1>1, <1>2, <1>3, <1>4, GoneStays DEF TypeInv

(* The progress page is laid over the others.                                *)
LEMMA OverlayTypes ==
    ASSUME TypeInv, NEW c \in 0..MaxCalls, Overlay(c), DOMAIN calls \subseteq DOMAIN calls'
    PROVE  /\ ViewOK' /\ LoginsOK' /\ DOMAIN pages' = DOMAIN pages
           /\ pages'[1].active /\ pages'[1].call = c /\ (pages'[1].moving <=> pages[1].moving)
           /\ pages'[1].sel = pages[1].sel
           /\ \A e \in DOMAIN pages : e # 1 => pages'[e] = pages[e]
<1>1. /\ pages' = [pages EXCEPT ![Progress].active = TRUE, ![Progress].animate = FALSE, ![Progress].call = c]
      /\ top' = "progress" /\ below' = OnTop("progress") /\ UNCHANGED <<shows, toggles, handlers>>
      /\ overtaken' = (overtaken \/ Moving)
  BY DEF Overlay
<1>2. PagesOK(pages) /\ pages \in [DOMAIN pages -> Page] /\ 1 \in DOMAIN pages
      /\ \A e \in DOMAIN pages : pages[e] \in Page
  BY TypesMean, PagesAre
<1>3. PICK p \in Page : p = pages[1]
  BY <1>2
<1>4. PICK r : r = [[[p EXCEPT !.active = TRUE] EXCEPT !.animate = FALSE] EXCEPT !.call = c]
  OBVIOUS
<1>5. /\ r \in Page /\ r.active /\ r.call = c /\ r.moving = p.moving /\ r.sel = p.sel /\ r.login = p.login
  BY <1>4 DEF Page
<1>6. pages' = [pages EXCEPT ![1] = r]
  BY <1>1, <1>2, <1>3, <1>4 DEF Progress
<1>7. pages' \in [DOMAIN pages -> Page] /\ pages'[1] = r /\ \A e \in DOMAIN pages : e # 1 => pages'[e] = pages[e]
  BY <1>2, <1>5, <1>6
<1>8. SamePages(pages, pages')
  BY <1>3, <1>5, <1>7 DEF SamePages
<1>9. PagesOK(pages)' /\ DOMAIN pages' = DOMAIN pages
  BY <1>2, <1>8, SamePagesOK
<1>10. pages[1].login = "no" /\ pages'[1].login = "no"
  BY <1>2, <1>3, <1>5, <1>7, PagesAre DEF PagesOK
<1>11. /\ LoginsOK' /\ ShowsOK'
  <2>1. LoginsOK /\ ShowsOK
    BY DEF TypeInv, ViewOK
  <2>2. ShowsOK'
    BY <1>1, <1>9, <2>1 DEF ShowsOK
  <2>3. \A e \in DOMAIN pages : e # 1 /\ pages'[e].login # "no" => pages'[e].call \in DOMAIN calls'
    BY <1>7, <2>1 DEF LoginsOK
  <2>4. LoginsOK'
    BY <1>9, <1>10, <2>3 DEF LoginsOK
  <2>5. QED
    BY <2>2, <2>4
<1>12. below' \in [Selectors -> SUBSET Selectors] /\ "progress" \in Selectors
  BY <1>1, TypesMean DEF OnTop, Selectors
<1>13. QED
  BY <1>1, <1>3, <1>5, <1>7, <1>9, <1>11, <1>12 DEF TypeInv, ViewOK

(* A custom reaction keeps the types.                                        *)
LEMMA NewCustomTypes == TypeInv /\ NewCustomReaction => TypeInv'
<1> SUFFICES ASSUME TypeInv, NewCustomReaction PROVE TypeInv'
  OBVIOUS
<1>1. /\ NewCall("custom") /\ Overlay(Len(calls) + 1) /\ win # "gone"
      /\ UNCHANGED <<win, window, data, stuck>>
  BY DEF NewCustomReaction, Tappable
<1>2. /\ CallsOK' /\ DOMAIN calls' = DOMAIN calls \cup {Len(calls) + 1} /\ Len(calls) + 1 \in 0..MaxCalls
  BY <1>1, NewCallTypes
<1>3. ViewOK' /\ LoginsOK'
  <2>1. PICK c \in 0..MaxCalls : c = Len(calls) + 1
    BY <1>2
  <2>2. QED
    BY <1>1, <1>2, <2>1, OverlayTypes
<1>4. DataOK'
  BY <1>1, <1>2 DEF TypeInv, DataOK, data
<1>5. QED
  BY <1>1, <1>2, <1>3, <1>4, GoneStays DEF TypeInv

(* What showLocations does: the page is laid over the others, for a call or  *)
(* for none.                                                                 *)
LEMMA LocationsAre ==
    ASSUME TypeInv, NEW r \in known, ShowLocations(r)
    PROVE  /\ Tappable(Reactions) /\ UNCHANGED <<win, window, returning, known>> /\ located' \subseteq known
           /\ \/ Overlay(Len(calls) + 1) /\ NewCall("locations") /\ stuck' = stuck
              \/ Overlay(0) /\ stuck' = TRUE /\ UNCHANGED <<calls, posts>>
  BY DEF ShowLocations, TypeInv, DataOK

(* Asking for locations keeps the types.                                     *)
LEMMA LocationsTypes ==
    ASSUME TypeInv, NEW r \in known, ShowLocations(r)
    PROVE  TypeInv'
<1>1. win # "gone" /\ UNCHANGED <<win, window, returning, known>> /\ located' \subseteq known
  BY LocationsAre DEF Tappable
<1>2. CASE Overlay(Len(calls) + 1) /\ NewCall("locations") /\ stuck' = stuck
  <2>1. /\ CallsOK' /\ DOMAIN calls' = DOMAIN calls \cup {Len(calls) + 1} /\ Len(calls) + 1 \in 0..MaxCalls
    BY <1>1, <1>2, NewCallTypes
  <2>2. PICK c \in 0..MaxCalls : c = Len(calls) + 1
    BY <2>1
  <2>3. ViewOK' /\ LoginsOK'
    BY <1>2, <2>1, <2>2, OverlayTypes
  <2>4. DataOK'
    BY <1>1, <1>2, <2>1 DEF TypeInv, DataOK
  <2>5. QED
    BY <1>1, <2>1, <2>3, <2>4, GoneStays DEF TypeInv
<1>3. CASE Overlay(0) /\ stuck' = TRUE /\ UNCHANGED <<calls, posts>>
  <2>1. 0 \in 0..MaxCalls
    BY ReactionsWindowAssumption
  <2>2. ViewOK' /\ LoginsOK'
    BY <1>3, <2>1, OverlayTypes
  <2>3. DataOK' /\ CallsOK'
    BY <1>1, <1>3, CallsStay DEF TypeInv, DataOK
  <2>4. QED
    BY <1>1, <2>2, <2>3, GoneStays DEF TypeInv
<1>4. QED
  BY <1>2, <1>3, LocationsAre

(* What goBackToPage does to the pages.                                      *)
LEMMA GoBackFacts ==
    ASSUME TypeInv, NEW e \in DOMAIN pages, GoBack(e)
    PROVE  /\ PagesOK(pages)' /\ DOMAIN pages' = DOMAIN pages
           /\ \A f \in DOMAIN pages :
                  /\ pages'[f].login = pages[f].login
                  /\ pages'[f].call = pages[f].call
                  /\ pages'[f].sel = pages[f].sel
                  /\ pages'[f].moving <=> pages[f].moving
                  /\ pages'[f].active <=> pages[f].active \/ f = 2
                  /\ f \in Active /\ f # 2 => pages'[f].animate
<1>1. PagesOK(pages) /\ \A f \in DOMAIN pages : pages[f] \in Page
  BY TypesMean, PagesAre
<1>2. /\ DOMAIN pages' = DOMAIN pages /\ pages' = [f \in DOMAIN pages |-> pages'[f]]
      /\ \A f \in DOMAIN pages :
             pages'[f] = CASE f \in Active /\ f # Reactions -> [pages[f] EXCEPT !.animate = TRUE]
                           [] f = Reactions -> [pages[f] EXCEPT !.active = TRUE, !.animate = f \in Active]
                           [] OTHER -> pages[f]
  BY DEF GoBack
<1>3. ASSUME NEW f \in DOMAIN pages
      PROVE  /\ pages'[f] \in Page
             /\ pages'[f].login = pages[f].login
             /\ pages'[f].call = pages[f].call
             /\ pages'[f].sel = pages[f].sel
             /\ pages'[f].moving <=> pages[f].moving
             /\ pages'[f].active <=> pages[f].active \/ f = 2
             /\ f \in Active /\ f # 2 => pages'[f].animate
  <2>1. PICK p \in Page : p = pages[f]
    BY <1>1
  <2>2. CASE f # 2 /\ f \in Active
    <3>1. pages'[f] = [p EXCEPT !.animate = TRUE]
      BY <1>2, <2>1, <2>2 DEF Reactions
    <3>2. QED
      BY <2>1, <2>2, <3>1 DEF Page
  <2>3. CASE f = 2
    <3>1. PICK a \in BOOLEAN : a <=> f \in Active
      OBVIOUS
    <3>2. pages'[f] = [[p EXCEPT !.active = TRUE] EXCEPT !.animate = a]
      BY <1>2, <2>1, <2>3, <3>1 DEF Reactions
    <3>3. QED
      BY <2>1, <2>3, <3>2 DEF Page
  <2>4. CASE f # 2 /\ f \notin Active
    BY <1>2, <2>1, <2>4 DEF Reactions
  <2>5. QED
    BY <2>2, <2>3, <2>4
<1>4. SamePages(pages, pages')
  BY <1>2, <1>3 DEF SamePages
<1>5. PagesOK(pages)' /\ DOMAIN pages' = DOMAIN pages
  BY <1>1, <1>4, SamePagesOK
<1>6. QED
  BY <1>3, <1>5

(* Going back keeps the types.                                               *)
LEMMA GoBackTypes ==
    ASSUME TypeInv, NEW e \in DOMAIN pages, GoBack(e)
    PROVE  TypeInv'
<1>1. /\ win # "gone"
      /\ handlers' = handlers \cup {[on |-> Active, back |-> TRUE, current |-> {}]}
      /\ toggles' = Append(toggles, [on |-> Active, active |-> FALSE])
      /\ below' = IF Active = {} THEN below ELSE ReactionsUnder(pages[Min(Active)].sel)
      /\ top' = "reactions"
      /\ UNCHANGED <<win, window, shows, calls, posts, data, stuck>>
      /\ overtaken' = (overtaken \/ Moving)
  BY DEF GoBack, Tappable
<1>2. PagesOK(pages)' /\ DOMAIN pages' = DOMAIN pages /\ Active \subseteq DOMAIN pages
  BY GoBackFacts, TypesMean
<1>3. LoginsOK'
  BY <1>1, GoBackFacts, SameTypes DEF data
<1>4. ShowsOK'
  <2>1. /\ toggles' \in Seq([on : SUBSET (1..MaxPages), active : BOOLEAN])
        /\ \A i \in DOMAIN toggles' : toggles'[i].on \subseteq DOMAIN pages
    <3>1. PICK a \in BOOLEAN : a = FALSE
      OBVIOUS
    <3>2. toggles' = Append(toggles, [on |-> Active, active |-> a])
      BY <1>1, <3>1
    <3>3. QED
      BY <1>2, <3>2, TimerSet, TypesMean
  <2>2. handlers' \subseteq Handler /\ \A h \in handlers' : h.on \subseteq DOMAIN pages /\ h.current \subseteq DOMAIN pages
    <3>1. PICK r : r = [on |-> Active, back |-> TRUE, current |-> {}]
      OBVIOUS
    <3>2. r.on = Active /\ r.current = {} /\ handlers' = handlers \cup {r}
      BY <1>1, <3>1
    <3>3. r \in Handler
      BY <1>2, <3>1, TypesMean DEF Handler
    <3>4. QED
      BY <1>2, <3>2, <3>3, TypesMean
  <2>3. QED
    BY <1>1, <1>2, <2>1, <2>2 DEF TypeInv, ViewOK, ShowsOK
<1>5. below' \in [Selectors -> SUBSET Selectors]
  <2>1. CASE Active = {}
    BY <1>1, <2>1, TypesMean
  <2>2. CASE Active # {}
    <3>1. PICK N \in Nat : N = MaxPages
      BY ReactionsWindowAssumption
    <3>2. PICK S : S = Active
      OBVIOUS
    <3>3. Min(S) \in S
      BY <2>2, <3>1, <3>2, <1>2, TypesMean, MinIn
    <3>4. pages[Min(Active)].sel \in Selectors
      BY <1>2, <3>2, <3>3, TypesMean, PagesAre
    <3>5. PICK s \in Selectors : s = pages[Min(Active)].sel
      BY <3>4
    <3>6. below' = ReactionsUnder(s) /\ "reactions" \in Selectors
      BY <1>1, <2>2, <3>5 DEF Selectors
    <3>7. QED
      BY <3>6, TypesMean DEF ReactionsUnder
  <2>3. QED
    BY <2>1, <2>2
<1>6. CallsOK' /\ DataOK' /\ GoneOK'
  BY <1>1, CallsStay, DataStay, GoneStays DEF TypeInv, data
<1>7. QED
  BY <1>1, <1>2, <1>3, <1>4, <1>5, <1>6 DEF TypeInv, ViewOK, Selectors

(* What the login page does changes nothing but the state of logins.         *)
SameLook ==
    /\ PagesOK(pages)' /\ DOMAIN pages' = DOMAIN pages
    /\ \A e \in DOMAIN pages :
           /\ pages'[e].sel = pages[e].sel /\ pages'[e].call = pages[e].call
           /\ pages'[e].active <=> pages[e].active
           /\ pages'[e].moving <=> pages[e].moving
           /\ pages'[e].animate <=> pages[e].animate
    /\ UNCHANGED <<win, window, below, shows, toggles, handlers, calls, posts, known, located, top, overtaken,
                   stuck>>

(* The state of some logins is set.                                          *)
LEMMA LoginSet ==
    ASSUME TypeInv, NEW l \in {"window", "left"}, NEW S, \A e \in S : e \in DOMAIN pages /\ pages[e].login # "no",
           pages' = [e \in DOMAIN pages |-> IF e \in S THEN [pages[e] EXCEPT !.login = l] ELSE pages[e]],
           UNCHANGED <<win, window, below, shows, toggles, handlers, calls, posts, known, located, top, overtaken,
                       stuck>>
    PROVE  SameLook /\ LoginsOK' /\ ViewOK'
<1>1. PagesOK(pages) /\ \A f \in DOMAIN pages : pages[f] \in Page
  BY TypesMean, PagesAre
<1>2. ASSUME NEW e \in DOMAIN pages
      PROVE  /\ pages'[e] \in Page
             /\ pages'[e].sel = pages[e].sel /\ pages'[e].call = pages[e].call
             /\ pages'[e].active <=> pages[e].active
             /\ pages'[e].moving <=> pages[e].moving
             /\ pages'[e].animate <=> pages[e].animate
             /\ pages'[e].login = "no" <=> pages[e].login = "no"
  <2>1. PICK p \in Page : p = pages[e]
    BY <1>1
  <2>2. CASE e \in S
    <3>1. pages'[e] = [p EXCEPT !.login = l]
      BY <2>1, <2>2
    <3>2. QED
      BY <2>1, <2>2, <3>1 DEF Page
  <2>3. CASE e \notin S
    BY <2>1, <2>3
  <2>4. QED
    BY <2>2, <2>3
<1>3. SamePages(pages, pages')
  BY <1>2 DEF SamePages
<1>4. PagesOK(pages)' /\ DOMAIN pages' = DOMAIN pages
  BY <1>1, <1>3, SamePagesOK
<1>5. SameLook
  BY <1>2, <1>4 DEF SameLook
<1>6. LoginsOK'
  BY <1>2, <1>4 DEF TypeInv, LoginsOK
<1>7. ViewOK'
  BY <1>4 DEF TypeInv, ViewOK, ShowsOK
<1>8. QED
  BY <1>5, <1>6, <1>7

(* The login page keeps the types, and what pages look like.                 *)
LEMMA LoginTypes ==
    ASSUME TypeInv, LoginWindowCloses \/ \E e \in DOMAIN pages : OpenLoginWindow(e) \/ FacebookLogin(e)
    PROVE  TypeInv' /\ SameLook
<1>1. PICK l \in {"window", "left"}, S \in SUBSET DOMAIN pages :
          /\ \A e \in S : pages[e].login # "no"
          /\ pages' = [e \in DOMAIN pages |-> IF e \in S THEN [pages[e] EXCEPT !.login = l] ELSE pages[e]]
          /\ returning' \subseteq returning \cup {pages[e].call : e \in S}
          /\ UNCHANGED <<win, window, below, shows, toggles, handlers, calls, posts, known, located, top, overtaken,
                         stuck>>
  <2>1. CASE LoginWindowCloses
    <3>1. \A e \in Windowed : pages[e].login # "no"
      BY DEF Windowed
    <3>2. Windowed \subseteq DOMAIN pages
      BY DEF Windowed
    <3>3. QED
      BY <2>1, <3>1, <3>2 DEF LoginWindowCloses
  <2>2. ASSUME NEW e \in DOMAIN pages, OpenLoginWindow(e) \/ FacebookLogin(e)
        PROVE  \E l \in {"window", "left"}, S \in SUBSET DOMAIN pages :
          /\ \A f \in S : pages[f].login # "no"
          /\ pages' = [f \in DOMAIN pages |-> IF f \in S THEN [pages[f] EXCEPT !.login = l] ELSE pages[f]]
          /\ returning' \subseteq returning \cup {pages[f].call : f \in S}
          /\ UNCHANGED <<win, window, below, shows, toggles, handlers, calls, posts, known, located, top, overtaken,
                         stuck>>
    <3>1. PICK S \in SUBSET DOMAIN pages : S = {e}
      BY <2>2
    <3>2. pages \in [DOMAIN pages -> Page]
      BY TypesMean, PagesAre
    <3>3. pages[e].login # "no"
      BY <2>2 DEF OpenLoginWindow, FacebookLogin, LoginAt
    <3>4. CASE OpenLoginWindow(e)
      <4>1. pages' = [pages EXCEPT ![e].login = "window"] /\ returning' = returning
            /\ UNCHANGED <<win, window, below, shows, toggles, handlers, calls, posts, known, located, top, overtaken,
                           stuck>>
        BY <3>4 DEF OpenLoginWindow, data
      <4>2. pages' = [f \in DOMAIN pages |-> IF f \in S THEN [pages[f] EXCEPT !.login = "window"] ELSE pages[f]]
        BY <3>1, <3>2, <4>1
      <4>3. QED
        BY <3>1, <3>3, <4>1, <4>2
    <3>5. CASE FacebookLogin(e)
      <4>1. pages' = [pages EXCEPT ![e].login = "left"] /\ returning' = returning \cup {pages[e].call}
            /\ UNCHANGED <<win, window, below, shows, toggles, handlers, calls, posts, known, located, top, overtaken,
                           stuck>>
        BY <3>5 DEF FacebookLogin
      <4>2. pages' = [f \in DOMAIN pages |-> IF f \in S THEN [pages[f] EXCEPT !.login = "left"] ELSE pages[f]]
        BY <3>1, <3>2, <4>1
      <4>3. QED
        BY <3>1, <3>3, <4>1, <4>2
    <3>6. QED
      BY <2>2, <3>4, <3>5
  <2>3. QED
    BY <2>1, <2>2
<1>2. SameLook /\ LoginsOK' /\ ViewOK'
  BY <1>1, LoginSet
<1>3. CallsOK'
  BY <1>1, CallsStay DEF TypeInv
<1>4. DataOK'
  BY <1>1 DEF TypeInv, DataOK, LoginsOK
<1>5. GoneOK'
  <2>1. Len(pages') = Len(pages)
    BY <1>2, TypesMean DEF SameLook, PagesOK
  <2>2. QED
    BY <1>1, <2>1 DEF TypeInv, GoneOK
<1>6. QED
  BY <1>2, <1>3, <1>4, <1>5 DEF TypeInv

(* A request is sent again.                                                  *)
LEMMA RetryTypes ==
    ASSUME TypeInv, NEW c \in DOMAIN calls, Retry(c), returning' \subseteq returning
    PROVE  /\ TypeInv' /\ UNCHANGED <<win, window, view>> /\ DOMAIN calls' = DOMAIN calls
           /\ calls'[c].kind = calls[c].kind /\ calls'[c].window = calls[c].window
           /\ calls'[c].result = calls[c].result
           /\ \A d \in DOMAIN calls : d # c => calls'[d] = calls[d]
<1>1. /\ posts < MaxPosts /\ posts' = posts + 1 /\ calls' = [calls EXCEPT ![c].out = @ + 1]
      /\ UNCHANGED <<win, window, view, known, located, stuck>>
  BY DEF Retry
<1>2. /\ calls \in Seq(Call) /\ calls[c] \in Call /\ posts \in 0..MaxPosts /\ MaxPosts \in Nat
      /\ calls[c].out <= posts
  BY TypesMean, InSeq, ReactionsWindowAssumption DEF TypeInv, CallsOK
<1>3. PICK p \in Call : p = calls[c]
  BY <1>2
<1>4. PICK r : r = [p EXCEPT !.out = @ + 1]
  OBVIOUS
<1>5. p.out \in 0..MaxPosts
  BY DEF Call
<1>6. p.out + 1 \in 0..MaxPosts /\ p.out + 1 <= posts' /\ posts' \in 0..MaxPosts /\ posts <= posts'
  BY <1>1, <1>2, <1>3, <1>5
<1>7. /\ r \in Call /\ r.kind = p.kind /\ r.window = p.window /\ r.out = p.out + 1 /\ r.result = p.result
  BY <1>4, <1>6 DEF Call
<1>8. calls' = [calls EXCEPT ![c] = r]
  BY <1>1, <1>2, <1>3, <1>4
<1>9. CallsOK' /\ DOMAIN calls' = DOMAIN calls
      /\ calls'[c] = r /\ \A d \in DOMAIN calls : d # c => calls'[d] = calls[d]
  BY <1>1, <1>3, <1>6, <1>7, <1>8, CallChanges
<1>10. ViewOK' /\ LoginsOK' /\ GoneOK'
  BY <1>1, <1>9, ViewStays
<1>11. DataOK'
  BY <1>1, <1>9 DEF TypeInv, DataOK
<1>12. QED
  BY <1>1, <1>3, <1>7, <1>9, <1>10, <1>11 DEF TypeInv

(* An answer, whatever it is: at most one page is shown for it.              *)
LEMMA AnswerIs ==
    ASSUME NEW c \in DOMAIN calls, Answer(c)
    PROVE  \E result \in {"accepted", "refused"} :
               /\ Answered(c, result)
               /\ known' \subseteq known \cup {c} /\ known \subseteq known' /\ stuck' \in {stuck, TRUE}
               /\ \/ result = "accepted" /\ calls[c].kind = "custom" /\ \E sel \in {"confirmation", "pending"} : PushFor(c, sel)
                  \/ result = "accepted" /\ calls[c].kind = "locations" /\ PushFor(c, "locations")
                  \/ result = "accepted" /\ calls[c].kind \notin {"custom", "locations"} /\ UNCHANGED view
                  \/ result = "refused" /\ \E sel \in {"login", "blocked", "error"} : PushFor(c, sel)
                  \/ result = "refused" /\ UNCHANGED view
<1>1. CASE Accepted(c)
  BY <1>1 DEF Accepted
<1>2. CASE PendingApproval(c)
  BY <1>2 DEF PendingApproval
<1>3. CASE SignInRequired(c)
  BY <1>3 DEF SignInRequired
<1>4. CASE Blocked(c)
  BY <1>4 DEF Blocked
<1>5. CASE OtherError(c)
  BY <1>5 DEF OtherError
<1>6. CASE TokenError(c)
  BY <1>6 DEF TokenError
<1>7. QED
  BY <1>1, <1>2, <1>3, <1>4, <1>5, <1>6 DEF Answer

(* An answer changes its call, and no other.                                 *)
LEMMA AnsweredTypes ==
    ASSUME TypeInv, NEW c \in DOMAIN calls, NEW result \in {"accepted", "refused"}, Answered(c, result)
    PROVE  /\ CallsOK' /\ DOMAIN calls' = DOMAIN calls /\ UNCHANGED <<win, window, posts, returning, located>>
           /\ calls'[c].kind = calls[c].kind /\ calls'[c].window = calls[c].window
           /\ calls'[c].result = result
           /\ \A d \in DOMAIN calls : d # c => calls'[d] = calls[d]
<1>1. /\ calls[c].out > 0 /\ calls' = [calls EXCEPT ![c].out = @ - 1, ![c].result = result]
      /\ UNCHANGED <<win, window, posts, returning, located>>
  BY DEF Answered
<1>2. /\ calls \in Seq(Call) /\ calls[c] \in Call /\ posts \in 0..MaxPosts /\ MaxPosts \in Nat
      /\ calls[c].out <= posts
  BY TypesMean, InSeq, ReactionsWindowAssumption DEF TypeInv, CallsOK
<1>3. PICK p \in Call : p = calls[c]
  BY <1>2
<1>4. PICK r : r = [[p EXCEPT !.out = @ - 1] EXCEPT !.result = result]
  OBVIOUS
<1>5. p.out \in 0..MaxPosts
  BY DEF Call
<1>6. p.out - 1 \in 0..MaxPosts /\ p.out - 1 <= posts' /\ posts' \in 0..MaxPosts /\ posts <= posts'
  BY <1>1, <1>2, <1>3, <1>5
<1>7. /\ r \in Call /\ r.kind = p.kind /\ r.window = p.window /\ r.out = p.out - 1 /\ r.result = result
  BY <1>4, <1>6 DEF Call
<1>8. calls' = [calls EXCEPT ![c] = r]
  BY <1>1, <1>2, <1>3, <1>4
<1>9. CallsOK' /\ DOMAIN calls' = DOMAIN calls
      /\ calls'[c] = r /\ \A d \in DOMAIN calls : d # c => calls'[d] = calls[d]
  <2>1. r \in Call /\ r.window = calls[c].window /\ r.out <= posts'
    BY <1>3, <1>6, <1>7
  <2>2. posts' \in 0..MaxPosts /\ posts <= posts' /\ window' = window
    BY <1>1, <1>6
  <2>3. QED
    BY <1>8, <2>1, <2>2, CallChanges
<1>10. QED
  BY <1>1, <1>3, <1>7, <1>9

(* An answer keeps the types.                                                *)
LEMMA AnswerTypes ==
    ASSUME TypeInv, NEW c \in DOMAIN calls, Answer(c)
    PROVE  TypeInv'
<1>a. PICK result \in {"accepted", "refused"} :
               /\ Answered(c, result)
               /\ known' \subseteq known \cup {c} /\ known \subseteq known' /\ stuck' \in {stuck, TRUE}
               /\ \/ result = "accepted" /\ calls[c].kind = "custom" /\ \E sel \in {"confirmation", "pending"} : PushFor(c, sel)
                  \/ result = "accepted" /\ calls[c].kind = "locations" /\ PushFor(c, "locations")
                  \/ result = "accepted" /\ calls[c].kind \notin {"custom", "locations"} /\ UNCHANGED view
                  \/ result = "refused" /\ \E sel \in {"login", "blocked", "error"} : PushFor(c, sel)
                  \/ result = "refused" /\ UNCHANGED view
  BY AnswerIs
<1>1. /\ Answered(c, result)
      /\ known' \subseteq known \cup {c} /\ known \subseteq known' /\ stuck' \in {stuck, TRUE}
      /\ UNCHANGED view \/ \E sel \in Pushed : PushFor(c, sel)
  <2>1. {"confirmation", "pending", "locations", "login", "blocked", "error"} \subseteq Pushed
    BY DEF Pushed, Selectors
  <2>2. "confirmation" \in Pushed /\ "locations" \in Pushed /\ {"confirmation", "pending"} \subseteq Pushed
        /\ {"login", "blocked", "error"} \subseteq Pushed
    BY <2>1
  <2>3. UNCHANGED view \/ \E sel \in Pushed : PushFor(c, sel)
    BY <1>a, <2>2
  <2>4. QED
    BY <1>a, <2>3
<1>2. /\ CallsOK' /\ DOMAIN calls' = DOMAIN calls /\ UNCHANGED <<win, window, posts, returning, located>>
  BY <1>1, AnsweredTypes
<1>3. ViewOK' /\ LoginsOK' /\ GoneOK'
  <2>1. CASE UNCHANGED view
    BY <1>2, <2>1, ViewStays
  <2>2. ASSUME NEW sel \in Pushed, PushFor(c, sel) PROVE ViewOK' /\ LoginsOK' /\ GoneOK'
    <3>1. DOMAIN calls' = DOMAIN calls /\ win' = win
      BY <1>2
    <3>2. QED
      BY <2>2, <3>1, PushForTypes
  <2>3. QED
    BY <1>1, <2>1, <2>2
<1>4. DataOK'
  <2>1. c \in 0..MaxCalls
    BY TypesMean, ReactionsWindowAssumption
  <2>2. /\ win \in {"open", "fading", "gone"} /\ returning \subseteq DOMAIN calls
        /\ known \subseteq 0..MaxCalls /\ located \subseteq known /\ stuck \in BOOLEAN
    BY DEF TypeInv, DataOK
  <2>3. win' \in {"open", "fading", "gone"} /\ returning' \subseteq DOMAIN calls' /\ located' = located
    BY <1>2, <2>2
  <2>4. known' \subseteq 0..MaxCalls /\ located' \subseteq known'
    BY <1>1, <2>1, <2>2, <2>3
  <2>5. stuck' \in BOOLEAN
    BY <1>1, <2>2
  <2>6. QED
    BY <2>3, <2>4, <2>5 DEF DataOK
<1>5. QED
  BY <1>2, <1>3, <1>4 DEF TypeInv

(* So does opening and closing a window.                                     *)
LEMMA WindowTypes == TypeInv /\ (CloseWindow \/ FadedOut \/ OpenWindow) => TypeInv'
<1> SUFFICES ASSUME TypeInv, CloseWindow \/ FadedOut \/ OpenWindow PROVE TypeInv'
  OBVIOUS
<1>1. CASE CloseWindow
  <2>1. win' = "fading" /\ UNCHANGED <<window, view, calls, posts, data, stuck>>
    BY <1>1 DEF CloseWindow
  <2>2. ViewOK' /\ LoginsOK' /\ CallsOK' /\ GoneOK'
    BY <2>1, ViewStays, CallsStay, GoneStays DEF TypeInv
  <2>3. DataOK'
    BY <2>1 DEF TypeInv, DataOK, data
  <2>4. QED
    BY <2>2, <2>3 DEF TypeInv
<1>2. CASE FadedOut
  <2>1. /\ win' = "gone" /\ returning' = returning \cup NotCancelled /\ pages' = SubSeq(pages, 1, 2)
        /\ shows' = <<>> /\ toggles' = <<>> /\ handlers' = {}
        /\ UNCHANGED <<window, below, calls, posts, known, located, top, overtaken, stuck>>
    BY <1>2 DEF FadedOut
  <2>2. /\ PagesOK(pages)' /\ Len(pages') = 2 /\ DOMAIN pages' = {1, 2}
        /\ pages'[1] = pages[1] /\ pages'[2] = pages[2] /\ 1 \in DOMAIN pages /\ 2 \in DOMAIN pages
    BY <2>1, TypesMean, FirstTwo
  <2>3. LoginsOK' /\ ShowsOK' /\ GoneOK'
    BY <2>1, <2>2 DEF TypeInv, LoginsOK, ShowsOK, GoneOK
  <2>4. NotCancelled \subseteq DOMAIN calls
    BY DEF NotCancelled, Windowed, TypeInv, LoginsOK
  <2>5. DataOK' /\ CallsOK'
    BY <2>1, <2>4, CallsStay DEF TypeInv, DataOK
  <2>6. QED
    BY <2>1, <2>2, <2>3, <2>5 DEF TypeInv, ViewOK
<1>3. CASE OpenWindow
  <2>1. /\ win = "gone" /\ window < MaxWindows /\ win' = "open" /\ window' = window + 1
        /\ pages' = FirstPages /\ below' = FirstBelow
        /\ top' = "reactions" /\ overtaken' = FALSE /\ stuck' = FALSE
        /\ UNCHANGED <<shows, toggles, handlers, calls, posts, data>>
    BY <1>3 DEF OpenWindow
  <2>2. shows = <<>> /\ toggles = <<>> /\ handlers = {}
    BY <2>1 DEF TypeInv, GoneOK
  <2>3. ShowsOK' /\ LoginsOK' /\ GoneOK'
    BY <2>1, <2>2, FirstPagesOK DEF ShowsOK, LoginsOK, GoneOK
  <2>4. ViewOK'
    BY <2>1, <2>3, FirstPagesOK DEF ViewOK, Selectors
  <2>5. CallsOK'
    <3>1. window \in 1..MaxWindows /\ MaxWindows \in Nat
      BY ReactionsWindowAssumption DEF TypeInv, CallsOK
    <3>2. \A c \in DOMAIN calls : calls[c].window \in 1..MaxWindows
      <4>1. \A c \in DOMAIN calls : calls[c] \in Call
        BY TypesMean, InSeq
      <4>2. QED
        BY <4>1 DEF Call
    <3>3. QED
      BY <2>1, <3>1, <3>2 DEF TypeInv, CallsOK
  <2>6. DataOK'
    BY <2>1 DEF TypeInv, DataOK, data
  <2>7. QED
    BY <2>3, <2>4, <2>5, <2>6 DEF TypeInv
<1>4. QED
  BY <1>1, <1>2, <1>3

(* Every step keeps the types.                                               *)
LEMMA TypeStep == TypeInv /\ [Next]_vars => TypeInv'
<1> SUFFICES ASSUME TypeInv, [Next]_vars PROVE TypeInv'
  OBVIOUS
<1>1. CASE Browser
  BY <1>1, ShowTypes, ToggleTypes, TransitionTypes DEF Browser
<1>2. CASE React("plusOne") \/ React("default")
  BY <1>2, ReactTypes
<1>3. CASE NewCustomReaction
  BY <1>3, NewCustomTypes
<1>4. CASE \E r \in known : ShowLocations(r)
  BY <1>4, LocationsTypes
<1>5. ASSUME NEW e \in DOMAIN pages, GoBack(e) PROVE TypeInv'
  BY <1>5, GoBackTypes
<1>6. CASE LoginWindowCloses \/ \E e \in DOMAIN pages : OpenLoginWindow(e) \/ FacebookLogin(e)
  BY <1>6, LoginTypes
<1>7. ASSUME NEW e \in DOMAIN pages, RetryTapped(e) PROVE TypeInv'
  <2>1. pages[e].call \in DOMAIN calls /\ Retry(pages[e].call) /\ returning' \subseteq returning
    BY <1>7 DEF RetryTapped, TypeInv, LoginsOK
  <2>2. PICK c \in DOMAIN calls : c = pages[e].call
    BY <2>1
  <2>3. QED
    BY <2>1, <2>2, RetryTypes
<1>8. ASSUME NEW c \in DOMAIN calls, LoginReturns(c) PROVE TypeInv'
  BY <1>8, RetryTypes DEF LoginReturns
<1>9. ASSUME NEW c \in DOMAIN calls, Answer(c) PROVE TypeInv'
  BY <1>9, AnswerTypes
<1>10. CASE CloseWindow \/ FadedOut \/ OpenWindow
  BY <1>10, WindowTypes
<1>11. CASE UNCHANGED vars
  BY <1>11, ViewStays, CallsStay, DataStay DEF TypeInv, vars, data
<1>12. QED
  BY <1>1, <1>2, <1>3, <1>4, <1>5, <1>6, <1>7, <1>8, <1>9, <1>10, <1>11 DEF Next

(* The types of every window, for any number of pages, calls, requests and   *)
(* windows, and whether the visitor waits for pages to rest or not.          *)
THEOREM WindowTypeCorrect == Spec => []TypeOK
<1>1. Init => TypeInv
  BY TypeStart
<1>2. TypeInv /\ [Next]_vars => TypeInv'
  BY TypeStep
<1>3. TypeInv => TypeOK
  BY TypeInvIsTypeOK
<1>4. QED
  BY <1>1, <1>2, <1>3, PTL DEF Spec

-----------------------------------------------------------------------------
(* Accepted reactions                                                       *)

(* What shows an outcome is pushed, so that the page that waited is not the  *)
(* last one any more; the page that asks to log in is pushed for a refusal;  *)
(* and what lies over the reactions waits for a call that was just made.     *)
(* While a page goes back nothing was pushed.                                *)
AskedNow ==
    /\ GoingBack => top \in {"reactions", "progress"}
    /\ top = "login" => Find("login") # {}
    /\ \A c \in DOMAIN calls :
           calls[c].kind = "custom" /\ calls[c].window = window /\ Asks(c) =>
               calls[c].result # "accepted"
AskedInv == win # "gone" /\ ~overtaken => AskedNow

(* Max chooses the largest number.                                           *)
LEMMA MaxIs ==
    ASSUME NEW S \in SUBSET Nat, NEW m \in S, \A n \in S : n <= m
    PROVE  Max(S) = m
<1>1. \A n \in S : (\A k \in S : n >= k) <=> n = m
  OBVIOUS
<1>2. QED
  BY <1>1 DEF Max

(* There is one, since pages are finite: of the sets n..N, one is smallest.  *)
LEMMA MaxIn ==
    ASSUME NEW N \in Nat, NEW S \in SUBSET (1..N), S # {}
    PROVE  Max(S) \in S
<1> DEFINE D == 1..N
           B == {n..N : n \in S}
<1>1. B \in SUBSET (SUBSET D) /\ B # {}
  <2>1. \A n \in S : n..N \subseteq D
    OBVIOUS
  <2>2. QED
    BY <2>1
<1>2. PICK s \in B : \A t \in B : ~(t \subseteq s /\ t # s)
  <2>1. IsFiniteSet(D)
    BY IntervalFinite
  <2> HIDE DEF B, D
  <2>2. QED
    BY <1>1, <2>1, SmallestSet
<1>3. PICK k \in S : s = k..N
  OBVIOUS
<1>4. \A j \in S : j <= k
  <2> SUFFICES ASSUME NEW j \in S, k < j PROVE FALSE
    OBVIOUS
  <2>1. j..N \subseteq k..N /\ j..N # k..N
    OBVIOUS
  <2>2. QED
    BY <1>2, <1>3, <2>1
<1>5. QED
  BY <1>4 DEF Max

(* The page that waits, in a list of pages: the progress page is one.        *)
FindIn(p, s) == {e \in DOMAIN p : p[e].sel = s}

(* There is one progress page, the first.                                    *)
LEMMA OneProgress ==
    ASSUME NEW p, PagesOK(p)
    PROVE  FindIn(p, "progress") = {1} /\ Max(FindIn(p, "progress")) = 1
<1>1. /\ 1 \in DOMAIN p /\ p[1].sel = "progress" /\ 2 \in DOMAIN p /\ p[2].sel = "reactions"
      /\ \A e \in DOMAIN p : e \notin {1, 2} => p[e].sel # "progress"
  BY PagesAre DEF PagesOK, Kept, Progress, Reactions, Pushed
<1>2. FindIn(p, "progress") = {1}
  BY <1>1 DEF FindIn
<1>3. QED
  BY <1>2, MaxIs

(* Who is waited for, in the words of the two pages that wait.               *)
LEMMA AsksIs ==
    ASSUME TypeInv, NEW c
    PROVE  Asks(c) <=> \/ top = "progress" /\ c = pages[1].call
                       \/ top = "login" /\ c = pages[Max(Find("login"))].call
<1>1. Find("progress") = FindIn(pages, "progress")
  BY DEF Find, FindIn
<1>2. Max(Find("progress")) = 1
  BY <1>1, OneProgress, TypesMean
<1>3. QED
  BY <1>2 DEF Asks

(* The same, of the next state.                                              *)
LEMMA AsksNext ==
    ASSUME PagesOK(pages)', NEW c
    PROVE  Asks(c)' <=> \/ top' = "progress" /\ c = pages'[1].call
                        \/ top' = "login" /\ c = pages'[Max(FindIn(pages', "login"))].call
<1>1. PICK p : p = pages'
  OBVIOUS
<1>2. Max(FindIn(p, "progress")) = 1
  BY <1>1, OneProgress
<1>3. Find("progress")' = FindIn(p, "progress") /\ Find("login")' = FindIn(p, "login")
  BY <1>1 DEF Find, FindIn
<1>4. QED
  BY <1>1, <1>2, <1>3 DEF Asks

(* Nothing that matters here happens to pages, and calls are not accepted.   *)
LEMMA AskedStays ==
    ASSUME TypeInv, PagesOK(pages)', AskedNow, UNCHANGED <<window, top>>, GoingBack' => GoingBack,
           top = "progress" => pages'[1].call = pages[1].call,
           top = "login" => /\ DOMAIN pages' = DOMAIN pages
                            /\ \A e \in DOMAIN pages : pages'[e].sel = pages[e].sel /\ pages'[e].call = pages[e].call,
           DOMAIN calls' = DOMAIN calls,
           \A c \in DOMAIN calls :
               /\ calls'[c].kind = calls[c].kind /\ calls'[c].window = calls[c].window
               /\ \/ calls'[c].result = calls[c].result \/ calls'[c].result # "accepted"
                  \/ calls[c].kind # "custom" \/ calls[c].window # window
    PROVE  AskedNow'
<1>1. Find("login") = FindIn(pages, "login") /\ Find("login")' = FindIn(pages', "login")
  BY DEF Find, FindIn
<1>2. top = "login" => FindIn(pages', "login") = FindIn(pages, "login")
  BY DEF FindIn
<1>3. top = "login" => Max(Find("login")) \in DOMAIN pages /\ pages[Max(Find("login"))].call = pages'[Max(Find("login"))].call
  <2> SUFFICES ASSUME top = "login" PROVE Max(Find("login")) \in DOMAIN pages
    OBVIOUS
  <2>1. Find("login") # {}
    BY DEF AskedNow
  <2>2. PICK N \in Nat : DOMAIN pages = 1..N
    BY TypesMean, PagesAre
  <2>3. PICK S \in SUBSET (1..N) : S = Find("login") /\ S # {}
    BY <2>1, <2>2 DEF Find
  <2>4. Max(S) \in S
    BY <2>3, MaxIn
  <2>5. QED
    BY <2>2, <2>3, <2>4
<1>4. \A c \in DOMAIN calls : Asks(c)' => Asks(c)
  <2> SUFFICES ASSUME NEW c \in DOMAIN calls, Asks(c)' PROVE Asks(c)
    OBVIOUS
  <2>1. \/ top' = "progress" /\ c = pages'[1].call
        \/ top' = "login" /\ c = pages'[Max(FindIn(pages', "login"))].call
    BY AsksNext
  <2>2. \/ top = "progress" /\ c = pages[1].call
        \/ top = "login" /\ c = pages[Max(Find("login"))].call
    BY <1>1, <1>2, <1>3, <2>1
  <2>3. QED
    BY <2>2, AsksIs
<1>5. /\ GoingBack' => top' \in {"reactions", "progress"}
      /\ top' = "login" => Find("login")' # {}
  BY <1>1, <1>2 DEF AskedNow
<1>6. ASSUME NEW c \in DOMAIN calls', calls'[c].kind = "custom", calls'[c].window = window', Asks(c)'
      PROVE  calls'[c].result # "accepted"
  <2>1. c \in DOMAIN calls /\ Asks(c) /\ calls[c].kind = "custom" /\ calls[c].window = window
    BY <1>4, <1>6
  <2>2. QED
    BY <2>1 DEF AskedNow
<1>7. QED
  BY <1>5, <1>6 DEF AskedNow

(* A page is pushed; one that asks to log in, for a call that was refused.   *)
LEMMA AskedPushed ==
    ASSUME TypeInv, NEW sel \in Pushed, NEW c \in 0..MaxCalls, Push(sel, c), ~overtaken',
           sel = "login" => calls'[c].result # "accepted"
    PROVE  AskedNow'
<1>1. /\ PagesOK(pages) /\ Len(pages) < MaxPages /\ pages' = Append(pages, NewPage(sel, c))
      /\ top' = sel /\ handlers' = handlers /\ ~GoingBack
  BY TypesMean DEF Push
<1>2. /\ PagesOK(pages)' /\ DOMAIN pages' = DOMAIN pages \cup {Len(pages) + 1}
      /\ \A e \in DOMAIN pages : e <= Len(pages)
      /\ pages'[Len(pages) + 1] = NewPage(sel, c)
  BY <1>1, AppendPage
<1>3. PICK n \in Nat : n = Len(pages)
  BY <1>1, PagesAre
<1>4. ~GoingBack'
  BY <1>1 DEF GoingBack
<1>5. top' # "progress"
  BY <1>1 DEF Pushed
<1>6. ASSUME top' = "login" PROVE Find("login")' # {} /\ Max(FindIn(pages', "login")) = n + 1 /\ pages'[n + 1].call = c
  <2>1. pages'[n + 1].sel = "login" /\ pages'[n + 1].call = c /\ n + 1 \in DOMAIN pages'
    BY <1>1, <1>2, <1>3, <1>6, NewPageFacts DEF Pushed
  <2>2. PICK S : S = FindIn(pages', "login")
    OBVIOUS
  <2>3. S \in SUBSET DOMAIN pages' /\ n + 1 \in S
    BY <2>1, <2>2 DEF FindIn
  <2>4. DOMAIN pages' \subseteq Nat /\ \A e \in DOMAIN pages' : e <= n + 1
    BY <1>1, <1>2, <1>3, PagesAre
  <2>5. S \in SUBSET Nat /\ \A e \in S : e <= n + 1
    BY <2>3, <2>4
  <2>6. Max(S) = n + 1
    BY <2>3, <2>5, MaxIs
  <2>7. QED
    BY <2>1, <2>2, <2>3, <2>6 DEF Find, FindIn
<1>7. ASSUME NEW d \in DOMAIN calls', Asks(d)' PROVE calls'[d].result # "accepted"
  <2>1. top' = "login" /\ d = pages'[Max(FindIn(pages', "login"))].call
    BY <1>2, <1>5, <1>7, AsksNext
  <2>2. d = c
    BY <1>6, <2>1
  <2>3. QED
    BY <1>1, <2>1, <2>2
<1>8. QED
  BY <1>4, <1>6, <1>7 DEF AskedNow

(* The progress page is laid over, for a call without an answer.             *)
LEMMA AskedOverlay ==
    ASSUME TypeInv, NEW c \in 0..MaxCalls, Overlay(c), ViewOK', pages'[1].call = c,
           c \in DOMAIN calls' => calls'[c].result # "accepted"
    PROVE  AskedNow'
<1>1. top' = "progress" /\ PagesOK(pages)'
  BY DEF Overlay, ViewOK
<1>2. \A d : Asks(d)' => d = c
  BY <1>1, AsksNext
<1>3. QED
  BY <1>1, <1>2 DEF AskedNow

(* The reactions wait for nobody.                                            *)
LEMMA AskedBack == ASSUME top' = "reactions" PROVE AskedNow'
  BY DEF AskedNow, Asks

(* Every step keeps what is asked.                                           *)
LEMMA AskedStep == TypeInv /\ TypeInv' /\ AskedInv /\ [Next]_vars => AskedInv'
<1> SUFFICES ASSUME TypeInv, TypeInv', AskedInv, [Next]_vars, win' # "gone", ~overtaken' PROVE AskedNow'
  BY DEF AskedInv
<1>p. PagesOK(pages)' /\ ViewOK'
  BY DEF TypeInv, ViewOK
<1> DEFINE Stays == /\ UNCHANGED <<window, top>> /\ (GoingBack' => GoingBack)
                    /\ (top = "progress" => pages'[1].call = pages[1].call)
                    /\ DOMAIN calls' = DOMAIN calls
                    /\ \A c \in DOMAIN calls :
                           /\ calls'[c].kind = calls[c].kind /\ calls'[c].window = calls[c].window
                           /\ \/ calls'[c].result = calls[c].result \/ calls'[c].result # "accepted"
                              \/ calls[c].kind # "custom" \/ calls[c].window # window
           SameLogins == /\ DOMAIN pages' = DOMAIN pages
                         /\ \A e \in DOMAIN pages : pages'[e].sel = pages[e].sel /\ pages'[e].call = pages[e].call
<1>s. ASSUME AskedNow, Stays, top = "login" => SameLogins PROVE AskedNow'
  BY <1>p, <1>s, AskedStays
<1> HIDE DEF Stays, SameLogins
<1>o. ASSUME win = win' \/ win # "gone", overtaken' = overtaken PROVE AskedNow
  BY <1>o DEF AskedInv
<1>1. CASE Show
  <2>1. AskedNow
    BY <1>1, <1>o DEF Show
  <2>2. pages' = pages \/ pages' = [e \in DOMAIN pages |->
                            IF e \in Find(Head(shows)) THEN [pages[e] EXCEPT !.animate = TRUE] ELSE pages[e]]
    BY <1>1 DEF Show
  <2>3. SameLogins
    <3>1. \A e \in DOMAIN pages : pages[e] \in Page
      BY TypesMean, PagesAre
    <3>2. ASSUME NEW e \in DOMAIN pages, NEW q \in Page, q = pages[e]
          PROVE  [q EXCEPT !.animate = TRUE].sel = q.sel /\ [q EXCEPT !.animate = TRUE].call = q.call
      BY DEF Page
    <3>3. QED
      BY <2>2, <3>1, <3>2 DEF SameLogins
  <2>4. Stays
    <3>1. UNCHANGED <<window, top, calls>> /\ (handlers' = handlers \/ \E h : handlers' = handlers \cup {h} /\ ~h.back)
      <4>1. PICK h : h = [on |-> Find(Head(shows)), back |-> FALSE, current |-> Active \ Find(Head(shows))]
        OBVIOUS
      <4>2. ~h.back
        BY <4>1
      <4>3. handlers' = handlers \/ handlers' = handlers \cup {h}
        BY <1>1, <4>1 DEF Show
      <4>4. QED
        BY <1>1, <4>2, <4>3 DEF Show
    <3>2. GoingBack' => GoingBack
      BY <3>1 DEF GoingBack
    <3>3. QED
      BY <2>3, <3>1, <3>2, TypesMean DEF Stays, SameLogins
  <2>5. QED
    BY <1>s, <2>1, <2>3, <2>4
<1>2. CASE Toggle
  <2>1. /\ toggles # <<>> /\ pages' = Activated(pages, Head(toggles).on, Head(toggles).active)
        /\ UNCHANGED <<win, window, handlers, calls, top, overtaken>>
    BY <1>2 DEF Toggle
  <2>2. AskedNow
    BY <1>o, <2>1
  <2>3. SameLogins
    <3>1. Head(toggles).active \in BOOLEAN
      BY <2>1, TimerFires, TypesMean
    <3>2. QED
      BY <2>1, <3>1, ActivatedFacts, TypesMean DEF SameLogins
  <2>4. Stays
    BY <2>1, <2>3, TypesMean DEF Stays, SameLogins, GoingBack
  <2>5. QED
    BY <1>s, <2>2, <2>3, <2>4
<1>3. ASSUME NEW e \in DOMAIN pages, TransitionEnd(e) PROVE AskedNow'
  <2>1. UNCHANGED <<win, window, calls, top, overtaken>>
    BY <1>3, TransitionIs
  <2>2. AskedNow
    BY <1>o, <2>1
  <2>3. CASE ~(\E h \in Heard(e) : h.back)
    <3>1. pages' = Shown(e) /\ handlers' = Listening(e)
      BY <1>3, <2>3, TransitionIs
    <3>2. SameLogins
      BY <3>1, ShownFacts DEF SameLogins
    <3>3. GoingBack' => GoingBack
      BY <3>1, ListeningFacts DEF GoingBack
    <3>4. Stays
      BY <2>1, <3>2, <3>3, TypesMean DEF Stays, SameLogins
    <3>5. QED
      BY <1>s, <2>2, <3>2, <3>4
  <2>4. CASE \E h \in Heard(e) : h.back
    <3>1. GoingBack
      BY <2>4 DEF Heard, GoingBack
    <3>2. top # "login"
      BY <2>2, <3>1 DEF AskedNow
    <3>3. pages' = BackAtFirst(e)
      BY <1>3, <2>4, TransitionIs
    <3>4. pages'[1].call = pages[1].call
      BY <3>3, BackAtFirstFacts
    <3>5. Stays
      BY <2>1, <3>1, <3>4 DEF Stays
    <3>6. QED
      BY <1>s, <2>2, <3>2, <3>5
  <2>5. QED
    BY <2>3, <2>4
<1>4. ASSUME NEW kind \in {"plusOne", "default"}, React(kind) PROVE AskedNow'
  <2>1. NewCall(kind) /\ Push("confirmation", Len(calls) + 1) /\ window' = window
    BY <1>4 DEF React
  <2>2. Len(calls) + 1 \in 0..MaxCalls
    BY <2>1, NewCallTypes
  <2>3. "confirmation" \in Pushed
    BY DEF Pushed, Selectors
  <2>4. QED
    BY <2>1, <2>2, <2>3, AskedPushed
<1>5. ASSUME NEW c \in 0..MaxCalls, Overlay(c), c \in DOMAIN calls' => calls'[c].result # "accepted" PROVE AskedNow'
  <2>1. pages'[1].call = c
    <3>1. pages[1] \in Page /\ pages \in [DOMAIN pages -> Page] /\ 1 \in DOMAIN pages
      BY TypesMean, PagesAre
    <3>2. PICK p \in Page : p = pages[1]
      BY <3>1
    <3>3. pages' = [pages EXCEPT ![1] = [[[p EXCEPT !.active = TRUE] EXCEPT !.animate = FALSE] EXCEPT !.call = c]]
      BY <1>5, <3>1, <3>2 DEF Overlay, Progress
    <3>4. pages'[1] = [[[p EXCEPT !.active = TRUE] EXCEPT !.animate = FALSE] EXCEPT !.call = c]
      BY <3>1, <3>3
    <3>5. QED
      BY <3>4 DEF Page
  <2>2. QED
    BY <1>5, <1>p, <2>1, AskedOverlay
<1>6. CASE NewCustomReaction
  <2>1. NewCall("custom") /\ Overlay(Len(calls) + 1) /\ window' = window
    BY <1>6 DEF NewCustomReaction
  <2>2. Len(calls) + 1 \in 0..MaxCalls /\ calls'[Len(calls) + 1].result = "none"
    BY <2>1, NewCallTypes
  <2>3. QED
    BY <1>5, <2>1, <2>2
<1>7. ASSUME NEW r \in known, ShowLocations(r) PROVE AskedNow'
  <2>1. window' = window
    BY <1>7 DEF ShowLocations
  <2>2. CASE Overlay(Len(calls) + 1) /\ NewCall("locations")
    <3>1. Len(calls) + 1 \in 0..MaxCalls /\ calls'[Len(calls) + 1].result = "none"
      BY <2>1, <2>2, NewCallTypes
    <3>2. QED
      BY <1>5, <2>2, <3>1
  <2>3. CASE Overlay(0) /\ UNCHANGED <<calls, posts>>
    <3>1. 0 \in 0..MaxCalls /\ 0 \notin DOMAIN calls'
      BY <2>3, TypesMean, ReactionsWindowAssumption
    <3>2. QED
      BY <1>5, <2>3, <3>1
  <2>4. QED
    BY <1>7, <2>2, <2>3, LocationsAre
<1>8. ASSUME NEW e \in DOMAIN pages, GoBack(e) PROVE AskedNow'
  BY <1>8, AskedBack DEF GoBack
<1>9. CASE LoginWindowCloses \/ \E e \in DOMAIN pages : OpenLoginWindow(e) \/ FacebookLogin(e)
  <2>1. SameLook
    BY <1>9, LoginTypes
  <2>2. AskedNow
    BY <1>o, <2>1 DEF SameLook
  <2>3. SameLogins
    BY <2>1 DEF SameLook, SameLogins
  <2>4. Stays
    BY <2>1, <2>3, TypesMean DEF Stays, SameLook, SameLogins, GoingBack
  <2>5. QED
    BY <1>s, <2>2, <2>3, <2>4
<1>10. ASSUME NEW c \in DOMAIN calls, Retry(c), returning' \subseteq returning PROVE AskedNow'
  <2>1. /\ UNCHANGED <<win, window, view>> /\ DOMAIN calls' = DOMAIN calls
        /\ calls'[c].kind = calls[c].kind /\ calls'[c].window = calls[c].window
        /\ calls'[c].result = calls[c].result
        /\ \A d \in DOMAIN calls : d # c => calls'[d] = calls[d]
    BY <1>10, RetryTypes
  <2>2. AskedNow
    BY <1>o, <2>1 DEF view
  <2>3. Stays /\ SameLogins
    BY <2>1 DEF Stays, SameLogins, view, GoingBack
  <2>4. QED
    BY <1>s, <2>2, <2>3
<1>11. ASSUME NEW c \in DOMAIN calls, Answer(c) PROVE AskedNow'
  <2>1. PICK result \in {"accepted", "refused"} :
               /\ Answered(c, result)
               /\ known' \subseteq known \cup {c} /\ known \subseteq known' /\ stuck' \in {stuck, TRUE}
               /\ \/ result = "accepted" /\ calls[c].kind = "custom" /\ \E sel \in {"confirmation", "pending"} : PushFor(c, sel)
                  \/ result = "accepted" /\ calls[c].kind = "locations" /\ PushFor(c, "locations")
                  \/ result = "accepted" /\ calls[c].kind \notin {"custom", "locations"} /\ UNCHANGED view
                  \/ result = "refused" /\ \E sel \in {"login", "blocked", "error"} : PushFor(c, sel)
                  \/ result = "refused" /\ UNCHANGED view
    BY <1>11, AnswerIs
  <2>2. /\ DOMAIN calls' = DOMAIN calls /\ UNCHANGED <<win, window>>
        /\ calls'[c].kind = calls[c].kind /\ calls'[c].window = calls[c].window /\ calls'[c].result = result
        /\ \A d \in DOMAIN calls : d # c => calls'[d] = calls[d]
    BY <2>1, AnsweredTypes
  <2>3. ASSUME NEW sel \in Pushed, Push(sel, c), sel = "login" => result = "refused" PROVE AskedNow'
    <3>1. c \in 0..MaxCalls /\ (sel = "login" => calls'[c].result # "accepted")
      BY <2>2, <2>3, TypesMean, ReactionsWindowAssumption
    <3>2. QED
      BY <2>3, <3>1, AskedPushed
  <2>4. ASSUME UNCHANGED view, result # "accepted" \/ calls[c].kind # "custom" \/ calls[c].window # window
        PROVE  AskedNow'
    <3>1. AskedNow
      BY <1>o, <2>2, <2>4 DEF view
    <3>2. Stays
      BY <2>2, <2>4 DEF Stays, view, GoingBack
    <3>3. SameLogins
      BY <2>4 DEF SameLogins, view
    <3>4. QED
      BY <1>s, <3>1, <3>2, <3>3
  <2>5. ASSUME NEW sel \in Pushed, PushFor(c, sel), sel = "login" => result = "refused" PROVE AskedNow'
    <3>1. CASE Push(sel, c)
      BY <2>3, <2>5, <3>1
    <3>2. CASE UNCHANGED view /\ ~(calls[c].window = window /\ win # "gone")
      BY <2>2, <2>4, <3>2
    <3>3. QED
      BY <2>5, <3>1, <3>2 DEF PushFor
  <2>6. /\ {"confirmation", "pending", "locations", "login", "blocked", "error"} \subseteq Pushed
        /\ "confirmation" # "login" /\ "pending" # "login" /\ "locations" # "login"
    BY DEF Pushed, Selectors
  <2>7. CASE result = "refused" /\ \E sel \in {"login", "blocked", "error"} : PushFor(c, sel)
    BY <2>5, <2>6, <2>7
  <2>8. CASE \E sel \in {"confirmation", "pending", "locations"} : PushFor(c, sel)
    BY <2>5, <2>6, <2>8
  <2>9. QED
    BY <2>1, <2>4, <2>7, <2>8
<1>12. CASE CloseWindow
  <2>1. UNCHANGED <<window, view, calls>> /\ win = "open"
    BY <1>12 DEF CloseWindow
  <2>2. AskedNow
    BY <1>o, <2>1 DEF view
  <2>3. Stays /\ SameLogins
    BY <2>1 DEF Stays, SameLogins, view, GoingBack
  <2>4. QED
    BY <1>s, <2>2, <2>3
<1>13. CASE FadedOut
  BY <1>13 DEF FadedOut
<1>14. CASE OpenWindow
  BY <1>14, AskedBack DEF OpenWindow
<1>15. CASE UNCHANGED vars
  <2>1. UNCHANGED <<win, window, view, calls>>
    BY <1>15 DEF vars
  <2>2. AskedNow
    BY <1>o, <2>1 DEF view
  <2>3. Stays /\ SameLogins
    BY <2>1 DEF Stays, SameLogins, view, GoingBack
  <2>4. QED
    BY <1>s, <2>2, <2>3
<1>16. ASSUME NEW e \in DOMAIN pages, RetryTapped(e) PROVE AskedNow'
  <2>1. pages[e].call \in DOMAIN calls /\ Retry(pages[e].call) /\ returning' \subseteq returning
    BY <1>16 DEF RetryTapped, TypeInv, LoginsOK
  <2>2. PICK c \in DOMAIN calls : c = pages[e].call
    BY <2>1
  <2>3. QED
    BY <1>10, <2>1, <2>2
<1>17. ASSUME NEW c \in DOMAIN calls, LoginReturns(c) PROVE AskedNow'
  BY <1>10, <1>17 DEF LoginReturns
<1>18. QED
  BY <1>1, <1>2, <1>3, <1>4, <1>6, <1>7, <1>8, <1>9, <1>11, <1>12, <1>13, <1>14, <1>15, <1>16, <1>17 DEF Next, Browser

(* Nobody whose own reaction was accepted is left where it is waited for or  *)
(* where a login is asked for it: AcceptedIsShown, for any numbers of pages, *)
(* calls, requests and windows, and for visitors who do not wait as well.    *)
THEOREM AcceptedReactionShown == Spec => []AcceptedIsShown
<1>1. Init => TypeInv /\ AskedInv
  <2> SUFFICES ASSUME Init PROVE AskedNow
    BY TypeStart DEF AskedInv
  <2>1. QED
    BY DEF Init, AskedNow, Asks
<1>2. TypeInv /\ AskedInv /\ [Next]_vars => (TypeInv /\ AskedInv)'
  BY TypeStep, AskedStep
<1>3. AskedInv => AcceptedIsShown
  BY DEF AskedInv, AskedNow, AcceptedIsShown
<1>4. QED
  BY <1>1, <1>2, <1>3, PTL DEF Spec

-----------------------------------------------------------------------------
(* The page that was shown last                                             *)

(* Pages that wait to be shown are of different kinds, and new; a page of    *)
(* the same kind is in sight only if nothing else is on its way.  Each timer *)
(* that toggles a class has its listener, and a page that will move.  Each   *)
(* listener has its timer or waits for a page that moves, and none of the    *)
(* two first pages.                                                          *)
Fresh(e) == ~pages[e].active /\ ~pages[e].moving
Pending(h) == \E i \in DOMAIN toggles : toggles[i].on = h.on
Uppermost(s) == below[s] = Selectors \ {s}
Quiet == shows = <<>> /\ toggles = <<>> /\ handlers = {}

ShowsApart == \A i, j \in DOMAIN shows : shows[i] = shows[j] => i = j
ShowsFresh == \A i \in DOMAIN shows : \E e \in Find(shows[i]) : Fresh(e)
ShowsNew ==
    \A i \in DOMAIN shows : \A e \in Find(shows[i]) :
        /\ ~pages[e].moving
        /\ \A h \in handlers : e \notin h.on
        /\ pages[e].active => i = 1 /\ toggles = <<>> /\ handlers = {}
TogglesApart == \A i, j \in DOMAIN toggles : toggles[i].on \cap toggles[j].on # {} => i = j
TogglesHeard ==
    \A i \in DOMAIN toggles : /\ toggles[i].active
                              /\ \E h \in handlers : h.on = toggles[i].on
                              /\ \E e \in toggles[i].on : Fresh(e) /\ pages[e].animate
TogglesNew ==
    \A i \in DOMAIN toggles : \A e \in toggles[i].on :
        /\ ~pages[e].moving
        /\ pages[e].active => i = 1 /\ \A h \in handlers : Pending(h)
HandlersApart == \A h, g \in handlers : h.on \cap g.on # {} => h = g
HandlersWait ==
    \A h \in handlers : /\ 1 \notin h.on /\ 2 \notin h.on
                        /\ Pending(h) \/ \E e \in h.on : pages[e].moving

(* The progress page lies over the others at rest; going back is over; or    *)
(* the page shown last waits for its timers, or lies over the others, and    *)
(* no listener takes it away.  One takes the reactions away.                 *)
OverlayShown == /\ Quiet /\ (\A e \in DOMAIN pages : ~pages[e].moving)
                /\ pages[1].active /\ Uppermost("progress")
ReactionsShown == Quiet /\ pages[2].active /\ Uppermost("reactions")
PushedShown ==
    /\ \E e \in Find(top) :
           /\ \A h \in handlers : e \notin h.current
           /\ \/ shows # <<>> /\ shows[Len(shows)] = top /\ Fresh(e)
              \/ /\ shows = <<>> /\ Uppermost(top)
                 /\ pages[e].active \/ \E i \in DOMAIN toggles : e \in toggles[i].on
    /\ pages[2].active => shows # <<>> \/ \E h \in handlers : 2 \in h.current
TopShown ==
    /\ top = "progress" => OverlayShown
    /\ top = "reactions" => ReactionsShown
    /\ top \in Pushed => PushedShown
ForwardInv ==
    /\ ShowsApart /\ ShowsFresh /\ ShowsNew
    /\ TogglesApart /\ TogglesHeard /\ TogglesNew
    /\ HandlersApart /\ HandlersWait /\ TopShown

(* While a page goes back there is one listener, for what is in sight; its   *)
(* timer is still to come, or the pages move.                                *)
Leaving(on) ==
    /\ toggles = <<[on |-> on, active |-> FALSE]>>
    /\ \A e \in on : pages[e].active /\ pages[e].animate
    /\ \A e \in DOMAIN pages : ~pages[e].moving
Left(on) ==
    /\ toggles = <<>> /\ Active = {2}
    /\ \A e \in DOMAIN pages : pages[e].moving <=> e \in on
BackInv ==
    /\ top = "reactions" /\ shows = <<>> /\ pages[2].active
    /\ \E on \in SUBSET DOMAIN pages :
           /\ on # {} /\ 2 \notin on /\ Active \subseteq on \cup {2}
           /\ handlers = {[on |-> on, back |-> TRUE, current |-> {}]}
           /\ Leaving(on) \/ Left(on)
ShownNow == (GoingBack /\ BackInv) \/ (~GoingBack /\ ForwardInv)
ShownInv == win # "gone" /\ ~overtaken => ShownNow

(* At rest nothing is on its way, and no listener is left.                   *)
LEMMA AtRest ==
    ASSUME TypeInv, ShownNow, ~Moving
    PROVE  ~GoingBack /\ ForwardInv /\ Quiet /\ \A e \in DOMAIN pages : ~pages[e].moving
<1>1. shows = <<>> /\ toggles = <<>> /\ \A e \in DOMAIN pages : ~pages[e].moving
  BY DEF Moving
<1>2. ~(GoingBack /\ BackInv)
  <2> SUFFICES ASSUME BackInv PROVE FALSE
    OBVIOUS
  <2>1. PICK on \in SUBSET DOMAIN pages : on # {} /\ (Leaving(on) \/ Left(on))
    BY DEF BackInv
  <2>2. ~Leaving(on)
    BY <1>1 DEF Leaving
  <2>3. ~Left(on)
    BY <1>1, <2>1 DEF Left
  <2>4. QED
    BY <2>1, <2>2, <2>3
<1>3. ~GoingBack /\ ForwardInv
  BY <1>2 DEF ShownNow
<1>4. handlers = {}
  <2>1. \A h \in handlers : Pending(h) \/ \E e \in h.on : pages[e].moving
    BY <1>3 DEF ForwardInv, HandlersWait
  <2>2. \A h \in handlers : ~Pending(h)
    BY <1>1 DEF Pending
  <2>3. \A h \in handlers : \A e \in h.on : ~pages[e].moving
    BY <1>1, TypesMean
  <2>4. QED
    BY <2>1, <2>2, <2>3
<1>5. QED
  BY <1>1, <1>3, <1>4 DEF Quiet

(* At rest, the page shown last is in sight and lies over the others.        *)
LEMMA RestShown ==
    ASSUME TypeInv, ForwardInv, ~Moving
    PROVE  /\ \E e \in Active : pages[e].sel = top
           /\ Uppermost(top)
           /\ top = "progress" \/ ~pages[2].active \/ top = "reactions"
<1>1. ~GoingBack /\ Quiet
  <2>1. shows = <<>> /\ toggles = <<>> /\ \A e \in DOMAIN pages : ~pages[e].moving
    BY DEF Moving
  <2>2. \A h \in handlers : ~Pending(h) /\ \A e \in h.on : ~pages[e].moving
    BY <2>1, TypesMean DEF Pending
  <2>3. handlers = {}
    BY <2>2 DEF ForwardInv, HandlersWait
  <2>4. QED
    BY <2>1, <2>3 DEF Quiet, GoingBack
<1>p. /\ PagesOK(pages) /\ 1 \in DOMAIN pages /\ 2 \in DOMAIN pages
      /\ pages[1].sel = "progress" /\ pages[2].sel = "reactions"
  BY TypesMean, PagesAre
<1>2. CASE top = "progress"
  BY <1>2, <1>p DEF ForwardInv, TopShown, OverlayShown, Active
<1>3. CASE top = "reactions"
  BY <1>3, <1>p DEF ForwardInv, TopShown, ReactionsShown, Active
<1>4. CASE top \in Pushed
  <2>1. PushedShown
    BY <1>4 DEF ForwardInv, TopShown
  <2>2. ~pages[2].active
    BY <1>1, <2>1 DEF PushedShown, Quiet
  <2>3. PICK e \in Find(top) : Uppermost(top) /\ pages[e].active
    BY <1>1, <2>1 DEF PushedShown, Quiet
  <2>4. e \in Active /\ pages[e].sel = top
    BY <2>3 DEF Find, Active
  <2>5. QED
    BY <2>2, <2>3, <2>4
<1>5. QED
  BY <1>2, <1>3, <1>4 DEF TypeInv, ViewOK, Pushed

(* PageShown follows.                                                        *)
LEMMA ShownPage ==
    ASSUME TypeInv, ShownInv
    PROVE  PageShown
<1> SUFFICES ASSUME win = "open", ~Moving, ~overtaken
             PROVE  /\ top \in {pages[e].sel : e \in Active}
                    /\ \A e \in Active : pages[e].sel = top \/ pages[e].sel \in below[top]
                    /\ top # "progress" => ~pages[Reactions].active \/ top = "reactions"
  BY DEF PageShown
<1>1. ForwardInv
  BY AtRest DEF ShownInv
<1>2. /\ \E e \in Active : pages[e].sel = top
      /\ Uppermost(top)
      /\ top = "progress" \/ ~pages[2].active \/ top = "reactions"
  BY <1>1, RestShown
<1>3. \A e \in Active : pages[e].sel \in Selectors
  BY TypesMean, PagesAre
<1>4. QED
  BY <1>2, <1>3 DEF Uppermost, Reactions

(* The timer of 1 ms.                                                        *)
LEMMA ShowFacts ==
    ASSUME TypeInv, NEW on,
           pages' = [e \in DOMAIN pages |-> IF e \in on THEN [pages[e] EXCEPT !.animate = TRUE] ELSE pages[e]]
    PROVE  /\ DOMAIN pages' = DOMAIN pages
           /\ \A e \in DOMAIN pages : /\ pages'[e].sel = pages[e].sel
                                      /\ pages'[e].active <=> pages[e].active
                                      /\ pages'[e].moving <=> pages[e].moving
                                      /\ pages'[e].animate <=> pages[e].animate \/ e \in on
<1>1. \A e \in DOMAIN pages : pages[e] \in Page
  BY TypesMean, PagesAre
<1>2. ASSUME NEW e \in DOMAIN pages
      PROVE  /\ pages'[e].sel = pages[e].sel
             /\ pages'[e].active <=> pages[e].active
             /\ pages'[e].moving <=> pages[e].moving
             /\ pages'[e].animate <=> pages[e].animate \/ e \in on
  <2>1. PICK p \in Page : p = pages[e]
    BY <1>1
  <2>2. CASE e \in on
    <3>1. pages'[e] = [p EXCEPT !.animate = TRUE]
      BY <2>1, <2>2
    <3>2. QED
      BY <2>1, <2>2, <3>1 DEF Page
  <2>3. CASE e \notin on
    BY <2>1, <2>3
  <2>4. QED
    BY <2>2, <2>3
<1>3. QED
  BY <1>2

(* It keeps what is shown in order.                                          *)
LEMMA ShowForward ==
    ASSUME TypeInv, Show, ForwardInv, ~GoingBack
    PROVE  ForwardInv' /\ ~GoingBack'
<1>1. shows # <<>> /\ shows' = Tail(shows) /\ UNCHANGED <<win, window, calls, posts, data, top, overtaken, stuck>>
  BY DEF Show
<1>2. /\ Len(shows) \in Nat /\ Len(shows) > 0 /\ DOMAIN shows = 1..Len(shows) /\ 1 \in DOMAIN shows
      /\ Head(shows) = shows[1] /\ Len(Tail(shows)) = Len(shows) - 1 /\ shows[1] \in Pushed
      /\ \A i \in DOMAIN Tail(shows) : /\ i \in Nat /\ i # 0 /\ i + 1 \in DOMAIN shows
                                       /\ Tail(shows)[i] = shows[i + 1]
  BY <1>1, ShowFires
<1>3. PICK on : on = Find(shows[1])
  OBVIOUS
<1>4. on # {} /\ on \subseteq DOMAIN pages
  BY <1>2, <1>3, TypesMean DEF ForwardInv, ShowsFresh
<1>5. PICK g : g = [on |-> on, back |-> FALSE, current |-> Active \ on]
  OBVIOUS
<1>6. g.on = on /\ ~g.back /\ g.current = Active \ on
  BY <1>5
<1>7. /\ pages' = [e \in DOMAIN pages |-> IF e \in on THEN [pages[e] EXCEPT !.animate = TRUE] ELSE pages[e]]
      /\ below' = OnTop(shows[1]) /\ handlers' = handlers \cup {g}
      /\ toggles' = Append(toggles, [on |-> on, active |-> TRUE])
  BY <1>2, <1>3, <1>4, <1>5 DEF Show
<1>8. /\ DOMAIN pages' = DOMAIN pages
      /\ \A e \in DOMAIN pages : /\ pages'[e].sel = pages[e].sel
                                 /\ pages'[e].active <=> pages[e].active
                                 /\ pages'[e].moving <=> pages[e].moving
                                 /\ pages'[e].animate <=> pages[e].animate \/ e \in on
  BY <1>7, ShowFacts
<1>9. PICK n \in Nat :
      /\ n = Len(toggles) /\ DOMAIN toggles = 1..n
      /\ DOMAIN toggles' = DOMAIN toggles \cup {n + 1} /\ n + 1 \notin DOMAIN toggles
      /\ toggles'[n + 1].on = on /\ toggles'[n + 1].active = TRUE
      /\ \A i \in DOMAIN toggles : toggles'[i] = toggles[i]
  BY <1>4, <1>7, TimerSet
<1>a. \A i \in DOMAIN shows' : Find(shows[i])' = Find(shows[i + 1])
  <2>1. \A i \in DOMAIN shows' : shows'[i] = shows[i + 1]
    BY <1>1, <1>2
  <2>2. \A i \in DOMAIN shows' : Find(shows[i])' = {e \in DOMAIN pages : pages[e].sel = shows'[i]}
    BY <1>8 DEF Find
  <2>3. QED
    BY <2>1, <2>2 DEF Find
<1>b. Find(top)' = Find(top)
  BY <1>1, <1>8 DEF Find
<1>11. \A e \in DOMAIN pages : Fresh(e)' <=> Fresh(e)
  BY <1>8 DEF Fresh
<1>12. \A e \in on : /\ ~pages[e].moving /\ \A h \in handlers : e \notin h.on
                     /\ pages[e].active => toggles = <<>> /\ handlers = {}
  BY <1>2, <1>3 DEF ForwardInv, ShowsNew
<1>13. \A h \in handlers : h.on \subseteq DOMAIN pages /\ (Pending(h) => Pending(h)')
  BY <1>9, TypesMean DEF Pending
<1>14. Pending(g)'
  BY <1>6, <1>9 DEF Pending
<1>15. 1 \notin on /\ 2 \notin on
  <2>1. pages[1].sel = "progress" /\ pages[2].sel = "reactions"
    BY TypesMean, PagesAre
  <2>2. QED
    BY <1>2, <1>3, <2>1 DEF Find, Pushed
<1>20. ~GoingBack'
  BY <1>6, <1>7 DEF GoingBack
<1>21. ShowsApart' /\ ShowsFresh'
  <2>1. ShowsApart'
    <3>1. ASSUME NEW i \in DOMAIN shows', NEW j \in DOMAIN shows', shows'[i] = shows'[j] PROVE i = j
      <4>1. i + 1 = j + 1 /\ i \in Nat /\ j \in Nat
        BY <1>1, <1>2, <3>1 DEF ForwardInv, ShowsApart
      <4>2. QED
        BY <4>1
    <3>2. QED
      BY <3>1 DEF ShowsApart
  <2>2. ShowsFresh'
    <3>1. ASSUME NEW i \in DOMAIN shows' PROVE \E e \in Find(shows[i])' : Fresh(e)'
      <4>1. PICK e \in Find(shows[i + 1]) : Fresh(e)
        BY <1>1, <1>2 DEF ForwardInv, ShowsFresh
      <4>2. e \in DOMAIN pages
        BY <4>1, TypesMean
      <4>3. QED
        BY <1>a, <1>11, <4>1, <4>2
    <3>2. QED
      BY <3>1 DEF ShowsFresh
  <2>3. QED
    BY <2>1, <2>2
<1>22. ShowsNew'
  <2>1. ASSUME NEW i \in DOMAIN shows', NEW e \in Find(shows[i])'
        PROVE  ~pages'[e].moving /\ ~pages'[e].active /\ \A h \in handlers' : e \notin h.on
    <3>1. i + 1 \in DOMAIN shows /\ i + 1 # 1 /\ e \in Find(shows[i + 1]) /\ e \in DOMAIN pages
      BY <1>1, <1>2, <1>a, <2>1, TypesMean
    <3>2. ~pages[e].moving /\ ~pages[e].active /\ \A h \in handlers : e \notin h.on
      BY <3>1 DEF ForwardInv, ShowsNew
    <3>3. e \notin on
      <4>1. shows[i + 1] # shows[1]
        BY <1>2, <3>1 DEF ForwardInv, ShowsApart
      <4>2. QED
        BY <1>3, <3>1, <4>1 DEF Find
    <3>4. QED
      BY <1>6, <1>7, <1>8, <3>1, <3>2, <3>3
  <2>2. QED
    BY <2>1 DEF ShowsNew
<1>23. TogglesApart'
  <2>1. \A i \in DOMAIN toggles : toggles[i].on \cap on = {}
    BY <1>12 DEF ForwardInv, TogglesHeard
  <2>2. QED
    BY <1>9, <2>1 DEF ForwardInv, TogglesApart
<1>24. TogglesHeard'
  <2>1. ASSUME NEW i \in DOMAIN toggles'
        PROVE  /\ toggles'[i].active
               /\ \E h \in handlers' : h.on = toggles'[i].on
               /\ \E e \in toggles'[i].on : Fresh(e)' /\ pages'[e].animate
    <3>1. CASE i = n + 1
      <4>1. PICK e \in on : Fresh(e)
        BY <1>2, <1>3 DEF ForwardInv, ShowsFresh
      <4>2. QED
        BY <1>4, <1>6, <1>7, <1>8, <1>9, <1>11, <3>1, <4>1
    <3>2. CASE i \in DOMAIN toggles
      <4>1. /\ toggles[i].active /\ \E h \in handlers : h.on = toggles[i].on
            /\ \E e \in toggles[i].on : Fresh(e) /\ pages[e].animate
        BY <3>2 DEF ForwardInv, TogglesHeard
      <4>2. toggles[i].on \subseteq DOMAIN pages
        BY <3>2, TypesMean
      <4>3. QED
        BY <1>7, <1>8, <1>9, <1>11, <3>2, <4>1, <4>2
    <3>3. QED
      BY <1>9, <3>1, <3>2
  <2>2. QED
    BY <2>1 DEF TogglesHeard
<1>25. TogglesNew'
  <2>1. ASSUME NEW i \in DOMAIN toggles', NEW e \in toggles'[i].on
        PROVE  ~pages'[e].moving /\ (pages'[e].active => i = 1 /\ \A h \in handlers' : Pending(h)')
    <3>1. CASE i = n + 1
      <4>1. e \in on /\ e \in DOMAIN pages
        BY <1>4, <1>9, <2>1, <3>1
      <4>2. ~pages'[e].moving
        BY <1>8, <1>12, <4>1
      <4>3. ASSUME pages'[e].active PROVE i = 1 /\ \A h \in handlers' : Pending(h)'
        <5>1. toggles = <<>> /\ handlers = {}
          BY <1>8, <1>12, <4>1, <4>3
        <5>2. n = 0
          BY <1>9, <5>1
        <5>3. QED
          BY <1>7, <1>14, <3>1, <5>1, <5>2
      <4>4. QED
        BY <4>2, <4>3
    <3>2. CASE i \in DOMAIN toggles
      <4>1. e \in toggles[i].on /\ e \in DOMAIN pages
        BY <1>9, <2>1, <3>2, TypesMean
      <4>2. ~pages[e].moving /\ (pages[e].active => i = 1 /\ \A h \in handlers : Pending(h))
        BY <3>2, <4>1 DEF ForwardInv, TogglesNew
      <4>3. QED
        BY <1>7, <1>8, <1>13, <1>14, <4>1, <4>2
    <3>3. QED
      BY <1>9, <3>1, <3>2
  <2>2. QED
    BY <2>1 DEF TogglesNew
<1>26. HandlersApart'
  <2>1. \A h \in handlers : h.on \cap g.on = {}
    BY <1>6, <1>12
  <2>2. QED
    BY <1>7, <2>1 DEF ForwardInv, HandlersApart
<1>27. HandlersWait'
  <2>1. ASSUME NEW h \in handlers' PROVE 1 \notin h.on /\ 2 \notin h.on /\ (Pending(h)' \/ \E e \in h.on : pages'[e].moving)
    <3>1. CASE h = g
      BY <1>6, <1>14, <1>15, <3>1
    <3>2. CASE h \in handlers
      BY <1>8, <1>13, <3>2 DEF ForwardInv, HandlersWait
    <3>3. QED
      BY <1>7, <3>1, <3>2
  <2>2. QED
    BY <2>1 DEF HandlersWait
<1>28. TopShown'
  <2>1. top' = top /\ top # "progress" /\ top # "reactions"
    BY <1>1 DEF ForwardInv, TopShown, OverlayShown, ReactionsShown, Quiet
  <2>2. ASSUME top \in Pushed PROVE PushedShown'
    <3>1. PushedShown
      BY <2>2 DEF ForwardInv, TopShown
    <3>2. PICK e \in Find(top) : (\A h \in handlers : e \notin h.current) /\ shows[Len(shows)] = top /\ Fresh(e)
      BY <1>1, <3>1 DEF PushedShown
    <3>3. e \in DOMAIN pages /\ e \notin Active
      BY <3>2, TypesMean DEF Fresh, Active
    <3>4. \A h \in handlers' : e \notin h.current
      BY <1>6, <1>7, <3>2, <3>3
    <3>5. 2 \in DOMAIN pages /\ (pages'[2].active => \E h \in handlers' : 2 \in h.current)
      BY <1>6, <1>7, <1>8, <1>15, TypesMean DEF Active
    <3>6. CASE Len(shows) = 1
      <4>1. shows' = <<>>
        <5>1. PICK q \in Seq(Pushed) : q = Tail(shows)
          BY <1>1, ShowFires
        <5>2. Len(q) = 0
          BY <1>2, <3>6, <5>1
        <5>3. QED
          BY <1>1, <5>1, <5>2
      <4>2. shows[1] = top /\ Uppermost(top)'
        BY <1>2, <1>7, <2>1, <2>2, <3>2, <3>6 DEF Uppermost, OnTop, Pushed
      <4>3. e \in toggles'[n + 1].on /\ n + 1 \in DOMAIN toggles'
        BY <1>3, <1>9, <3>2, <4>2
      <4>4. QED
        BY <1>b, <2>1, <3>2, <3>4, <3>5, <4>1, <4>2, <4>3 DEF PushedShown
    <3>7. CASE Len(shows) # 1
      <4>1. PICK q \in Seq(Pushed) : q = Tail(shows)
        BY <1>1, ShowFires
      <4>2. Len(q) \in Nat /\ Len(q) = Len(shows) - 1 /\ Len(q) > 0 /\ DOMAIN q = 1..Len(q)
        BY <1>2, <3>7, <4>1
      <4>3. q # <<>> /\ q[Len(q)] = shows[Len(shows)]
        BY <1>2, <4>1, <4>2
      <4>4. Fresh(e)'
        BY <1>11, <3>2, <3>3
      <4>5. QED
        BY <1>1, <1>b, <2>1, <3>2, <3>4, <3>5, <4>1, <4>3, <4>4 DEF PushedShown
    <3>8. QED
      BY <3>6, <3>7
  <2>3. QED
    BY <2>1, <2>2 DEF TopShown
<1>30. QED
  BY <1>20, <1>21, <1>22, <1>23, <1>24, <1>25, <1>26, <1>27, <1>28 DEF ForwardInv

(* The timer of 20 ms.                                                       *)
LEMMA ToggleForward ==
    ASSUME TypeInv, Toggle, ForwardInv, ~GoingBack
    PROVE  ForwardInv' /\ ~GoingBack'
<1>1. /\ toggles # <<>> /\ toggles' = Tail(toggles)
      /\ pages' = Activated(pages, Head(toggles).on, Head(toggles).active)
      /\ UNCHANGED <<below, shows, handlers, top>>
  BY DEF Toggle
<1>2. /\ Head(toggles) = toggles[1] /\ 1 \in DOMAIN toggles
      /\ \A i \in DOMAIN toggles' : /\ i \in Nat /\ i # 0 /\ i + 1 \in DOMAIN toggles
                                    /\ toggles'[i] = toggles[i + 1]
      /\ \A i \in DOMAIN toggles : i # 1 => i \in Nat /\ i - 1 \in DOMAIN toggles' /\ toggles'[i - 1] = toggles[i]
  <2>1. /\ Len(toggles) \in Nat /\ DOMAIN toggles = 1..Len(toggles) /\ 1 \in DOMAIN toggles
        /\ Head(toggles) = toggles[1]
        /\ \A i \in DOMAIN toggles' : /\ i \in Nat /\ i # 0 /\ i + 1 \in DOMAIN toggles
                                      /\ toggles'[i] = toggles[i + 1]
        /\ \A i \in DOMAIN toggles : i # 1 => i - 1 \in DOMAIN toggles'
    BY <1>1, TimerFires
  <2>2. ASSUME NEW i \in DOMAIN toggles, i # 1 PROVE i \in Nat /\ i - 1 \in DOMAIN toggles' /\ toggles'[i - 1] = toggles[i]
    <3>1. i \in Nat /\ i - 1 \in DOMAIN toggles'
      BY <2>1, <2>2
    <3>2. toggles'[i - 1] = toggles[(i - 1) + 1] /\ (i - 1) + 1 = i
      BY <2>1, <3>1
    <3>3. QED
      BY <3>1, <3>2
  <2>3. QED
    BY <2>1, <2>2
<1>3. PICK on : on = toggles[1].on
  OBVIOUS
<1>4. PICK a \in BOOLEAN : a = toggles[1].active /\ a
  BY <1>2, TypesMean DEF ForwardInv, TogglesHeard
<1>5. /\ DOMAIN pages' = DOMAIN pages
      /\ \A e \in DOMAIN pages :
             /\ pages'[e].sel = pages[e].sel
             /\ pages'[e].animate <=> pages[e].animate
             /\ pages'[e].active <=> pages[e].active \/ e \in on
             /\ pages'[e].moving <=> pages[e].moving \/ (e \in on /\ pages[e].animate /\ ~pages[e].active)
  <2>1. PagesOK(pages)
    BY TypesMean
  <2>2. pages' = Activated(pages, on, a)
    BY <1>1, <1>2, <1>3, <1>4
  <2>3. /\ DOMAIN pages' = DOMAIN pages
        /\ \A e \in DOMAIN pages :
             /\ pages'[e].sel = pages[e].sel
             /\ pages'[e].animate <=> pages[e].animate
             /\ pages'[e].active <=> IF e \in on THEN a ELSE pages[e].active
             /\ pages'[e].moving <=> \/ pages[e].moving
                                     \/ e \in on /\ pages[e].animate /\ ~(pages[e].active <=> a)
    BY <2>1, <2>2, ActivatedFacts
  <2>4. QED
    BY <1>4, <2>3
<1>6. on \subseteq DOMAIN pages
  BY <1>2, <1>3, TypesMean
<1>7. \A s : Find(s)' = Find(s)
  BY <1>5 DEF Find
<1>8. \A e \in DOMAIN pages : e \notin on => (Fresh(e)' <=> Fresh(e))
  BY <1>5 DEF Fresh
<1>9. PICK g \in handlers : g.on = on
  BY <1>2, <1>3 DEF ForwardInv, TogglesHeard
<1>10. 1 \notin on /\ 2 \notin on
  BY <1>9 DEF ForwardInv, HandlersWait
<1>11. \A i \in DOMAIN shows : \A e \in Find(shows[i]) : e \in DOMAIN pages /\ e \notin on /\ ~pages[e].active /\ ~pages[e].moving
  BY <1>1, <1>9, TypesMean DEF ForwardInv, ShowsNew
<1>a. \A i \in DOMAIN shows : Find(shows[i])' = Find(shows[i])
  BY <1>1, <1>5 DEF Find
<1>b. Find(top)' = Find(top)
  BY <1>1, <1>5 DEF Find
<1>12. \A i \in DOMAIN toggles' : toggles'[i].on \cap on = {} /\ toggles'[i].on \subseteq DOMAIN pages
  <2>1. ASSUME NEW i \in DOMAIN toggles' PROVE toggles[i + 1].on \cap on = {} /\ toggles[i + 1].on \subseteq DOMAIN pages
    <3>1. i + 1 \in DOMAIN toggles /\ i + 1 # 1
      BY <1>2
    <3>2. toggles[i + 1].on \subseteq DOMAIN pages
      BY <3>1, TypesMean
    <3>3. QED
      BY <1>2, <1>3, <3>1, <3>2 DEF ForwardInv, TogglesApart
  <2>2. QED
    BY <1>2, <2>1
<1>20. ~GoingBack'
  BY <1>1 DEF GoingBack
<1>21. ShowsApart'
  BY <1>1 DEF ForwardInv, ShowsApart
<1>22. ShowsFresh'
  <2>1. ASSUME NEW i \in DOMAIN shows PROVE \E e \in Find(shows[i]) : Fresh(e)'
    BY <1>8, <1>11 DEF ForwardInv, ShowsFresh
  <2>2. QED
    BY <1>1, <1>a, <2>1 DEF ShowsFresh
<1>23. ShowsNew'
  <2>1. ASSUME NEW i \in DOMAIN shows, NEW e \in Find(shows[i])
        PROVE  ~pages'[e].moving /\ ~pages'[e].active /\ \A h \in handlers : e \notin h.on
    BY <1>5, <1>11 DEF ForwardInv, ShowsNew
  <2>2. QED
    BY <1>1, <1>a, <2>1 DEF ShowsNew
<1>24. TogglesApart'
  <2>1. ASSUME NEW i \in DOMAIN toggles', NEW j \in DOMAIN toggles', toggles'[i].on \cap toggles'[j].on # {} PROVE i = j
    <3>1. i + 1 = j + 1 /\ i \in Nat /\ j \in Nat
      BY <1>2, <2>1 DEF ForwardInv, TogglesApart
    <3>2. QED
      BY <3>1
  <2>2. QED
    BY <2>1 DEF TogglesApart
<1>25. TogglesHeard'
  <2>1. ASSUME NEW i \in DOMAIN toggles'
        PROVE  /\ toggles'[i].active
               /\ \E h \in handlers' : h.on = toggles'[i].on
               /\ \E e \in toggles'[i].on : Fresh(e)' /\ pages'[e].animate
    <3>1. /\ toggles'[i].active /\ \E h \in handlers : h.on = toggles'[i].on
      BY <1>2 DEF ForwardInv, TogglesHeard
    <3>2. PICK e \in toggles'[i].on : Fresh(e) /\ pages[e].animate
      BY <1>2 DEF ForwardInv, TogglesHeard
    <3>3. e \in DOMAIN pages /\ e \notin on
      BY <1>12
    <3>4. QED
      BY <1>1, <1>5, <1>8, <3>1, <3>2, <3>3
  <2>2. QED
    BY <2>1 DEF TogglesHeard
<1>26. TogglesNew'
  <2>1. ASSUME NEW i \in DOMAIN toggles', NEW e \in toggles'[i].on
        PROVE  ~pages'[e].moving /\ ~pages'[e].active
    <3>1. e \in DOMAIN pages /\ e \notin on /\ i + 1 \in DOMAIN toggles /\ i + 1 # 1 /\ e \in toggles[i + 1].on
      BY <1>2, <1>12, <2>1
    <3>2. ~pages[e].moving /\ ~pages[e].active
      BY <3>1 DEF ForwardInv, TogglesNew
    <3>3. QED
      BY <1>5, <3>1, <3>2
  <2>2. QED
    BY <2>1 DEF TogglesNew
<1>27. HandlersApart'
  BY <1>1 DEF ForwardInv, HandlersApart
<1>28. HandlersWait'
  <2>1. ASSUME NEW h \in handlers PROVE 1 \notin h.on /\ 2 \notin h.on /\ (Pending(h)' \/ \E e \in h.on : pages'[e].moving)
    <3>1. h.on \subseteq DOMAIN pages
      BY TypesMean
    <3>2. CASE \E e \in h.on : pages[e].moving
      BY <1>5, <3>1, <3>2 DEF ForwardInv, HandlersWait
    <3>3. CASE h.on = on
      <4>1. PICK e \in on : Fresh(e) /\ pages[e].animate
        BY <1>2, <1>3 DEF ForwardInv, TogglesHeard
      <4>2. pages'[e].moving
        BY <1>5, <1>6, <4>1 DEF Fresh
      <4>3. QED
        BY <1>10, <3>3, <4>2
    <3>4. CASE Pending(h) /\ h.on # on
      <4>1. PICK i \in DOMAIN toggles : toggles[i].on = h.on
        BY <3>4 DEF Pending
      <4>2. i # 1
        BY <1>3, <3>4, <4>1
      <4>3. i - 1 \in DOMAIN toggles' /\ toggles'[i - 1].on = h.on
        BY <1>2, <4>1, <4>2
      <4>4. Pending(h)'
        BY <4>3 DEF Pending
      <4>5. QED
        BY <4>4 DEF ForwardInv, HandlersWait
    <3>5. QED
      BY <3>2, <3>3, <3>4 DEF ForwardInv, HandlersWait
  <2>2. QED
    BY <1>1, <2>1 DEF HandlersWait
<1>29. TopShown'
  <2>1. top' = top /\ top # "progress" /\ top # "reactions"
    BY <1>1 DEF ForwardInv, TopShown, OverlayShown, ReactionsShown, Quiet
  <2>2. ASSUME top \in Pushed PROVE PushedShown'
    <3>1. PushedShown
      BY <2>2 DEF ForwardInv, TopShown
    <3>2. PICK e \in Find(top) :
              /\ \A h \in handlers : e \notin h.current
              /\ \/ shows # <<>> /\ shows[Len(shows)] = top /\ Fresh(e)
                 \/ /\ shows = <<>> /\ Uppermost(top)
                    /\ pages[e].active \/ \E i \in DOMAIN toggles : e \in toggles[i].on
      BY <3>1 DEF PushedShown
    <3>3. e \in DOMAIN pages
      BY TypesMean
    <3>4. 2 \in DOMAIN pages /\ (pages'[2].active => shows' # <<>> \/ \E h \in handlers' : 2 \in h.current)
      BY <1>1, <1>5, <1>10, <3>1, TypesMean DEF PushedShown
    <3>5. CASE shows # <<>>
      <4>1. shows[Len(shows)] = top /\ Fresh(e) /\ Len(shows) \in DOMAIN shows
        <5>1. PICK q \in Seq(Pushed) : q = shows
          BY TypesMean
        <5>2. Len(q) \in DOMAIN q
          BY <3>5, <5>1
        <5>3. QED
          BY <3>2, <3>5, <5>1, <5>2
      <4>2. e \notin on
        BY <1>11, <4>1
      <4>3. QED
        BY <1>1, <1>8, <1>b, <3>2, <3>3, <3>4, <3>5, <4>1, <4>2 DEF PushedShown
    <3>6. CASE shows = <<>>
      <4>1. Uppermost(top)'
        BY <1>1, <3>2, <3>6 DEF Uppermost
      <4>2. pages'[e].active \/ \E i \in DOMAIN toggles' : e \in toggles'[i].on
        <5>1. CASE pages[e].active \/ e \in on
          BY <1>5, <3>3, <5>1
        <5>2. ASSUME NEW i \in DOMAIN toggles, e \in toggles[i].on, e \notin on PROVE \E j \in DOMAIN toggles' : e \in toggles'[j].on
          <6>1. i # 1
            BY <1>3, <5>2
          <6>2. i - 1 \in DOMAIN toggles' /\ e \in toggles'[i - 1].on
            BY <1>2, <5>2, <6>1
          <6>3. QED
            BY <6>2
        <5>3. QED
          BY <3>2, <3>6, <5>1, <5>2
      <4>3. QED
        BY <1>1, <1>b, <3>2, <3>4, <3>6, <4>1, <4>2 DEF PushedShown
    <3>7. QED
      BY <3>5, <3>6
  <2>3. QED
    BY <2>1, <2>2 DEF TopShown
<1>30. QED
  BY <1>20, <1>21, <1>22, <1>23, <1>24, <1>25, <1>26, <1>27, <1>28, <1>29 DEF ForwardInv

(* The end of a transition is heard by one listener at most, which has no    *)
(* timer to come; the others stay as they are.                               *)
LEMMA HeardOne ==
    ASSUME TypeInv, ForwardInv, NEW e \in DOMAIN pages, pages[e].moving
    PROVE  \/ Heard(e) = {} /\ Listening(e) = handlers
           \/ \E g \in handlers : Heard(e) = {g} /\ e \in g.on /\ ~Pending(g) /\ Listening(e) = handlers \ {g}
<1>1. \A h \in handlers : h.on # {}
  <2>1. ASSUME NEW h \in handlers, Pending(h) PROVE h.on # {}
    BY <2>1 DEF Pending, ForwardInv, TogglesHeard
  <2>2. QED
    BY <2>1 DEF ForwardInv, HandlersWait
<1>2. ASSUME NEW h \in handlers, NEW u, h.on \cap u = {} PROVE [h EXCEPT !.on = @ \ u] = h
  <2>1. h \in Handler
    BY TypesMean
  <2>2. h.on \ u = h.on
    BY <1>2
  <2>3. [h EXCEPT !.on = h.on] = h
    BY <2>1 DEF Handler
  <2>4. QED
    BY <2>2, <2>3
<1>3. ASSUME NEW u, \A h \in handlers : h.on \subseteq u \/ h.on \cap u = {}, Unheard(e) = u
      PROVE  Listening(e) = {h \in handlers : ~(h.on \subseteq u)}
  <2>1. Listening(e) = {[h EXCEPT !.on = @ \ u] : h \in {g \in handlers : ~(g.on \subseteq u)}}
    BY <1>3 DEF Listening
  <2>2. \A h \in {g \in handlers : ~(g.on \subseteq u)} : [h EXCEPT !.on = @ \ u] = h
    BY <1>2, <1>3
  <2>3. QED
    BY <2>1, <2>2
<1>4. CASE Heard(e) = {}
  <2>1. Unheard(e) = {}
    BY <1>4 DEF Unheard
  <2>2. \A h \in handlers : h.on \cap {} = {}
    OBVIOUS
  <2>3. Listening(e) = {h \in handlers : ~(h.on \subseteq {})}
    BY <1>3, <2>1, <2>2
  <2>4. QED
    BY <1>1, <1>4, <2>3
<1>5. ASSUME NEW g \in Heard(e) PROVE g \in handlers /\ Heard(e) = {g} /\ e \in g.on /\ ~Pending(g) /\ Listening(e) = handlers \ {g}
  <2>1. g \in handlers /\ e \in g.on
    BY DEF Heard
  <2>2. Heard(e) = {g}
    BY <2>1 DEF Heard, ForwardInv, HandlersApart
  <2>3. ~Pending(g)
    BY <2>1 DEF Pending, ForwardInv, TogglesNew
  <2>4. Unheard(e) = g.on
    BY <2>2 DEF Unheard
  <2>5. \A h \in handlers : h.on \cap g.on # {} => h = g
    BY <2>1 DEF ForwardInv, HandlersApart
  <2>6. Listening(e) = {h \in handlers : ~(h.on \subseteq g.on)}
    <3>1. PICK u : u = g.on
      OBVIOUS
    <3>2. \A h \in handlers : h.on \subseteq u \/ h.on \cap u = {}
      BY <2>5, <3>1
    <3>3. QED
      BY <1>3, <2>4, <3>1, <3>2
  <2>7. \A h \in handlers : h.on \subseteq g.on <=> h = g
    BY <1>1, <2>5
  <2>8. QED
    BY <2>1, <2>2, <2>3, <2>6, <2>7
<1>6. QED
  BY <1>4, <1>5

(* It keeps what is shown in order.                                          *)
LEMMA TransitionForward ==
    ASSUME TypeInv, NEW e \in DOMAIN pages, TransitionEnd(e), ForwardInv, ~GoingBack
    PROVE  ForwardInv' /\ ~GoingBack'
<1>1. pages[e].moving /\ UNCHANGED <<shows, top>>
  BY TransitionIs
<1>2. PICK gs \in SUBSET handlers :
          /\ Heard(e) = gs /\ Listening(e) = handlers \ gs
          /\ \A g \in gs : e \in g.on /\ ~Pending(g)
          /\ \A h \in handlers : e \in h.on => h \in gs
  <2>1. \A h \in handlers : e \in h.on <=> h \in Heard(e)
    BY DEF Heard
  <2>2. CASE Heard(e) = {} /\ Listening(e) = handlers
    BY <2>1, <2>2
  <2>3. ASSUME NEW g \in handlers, Heard(e) = {g}, e \in g.on, ~Pending(g), Listening(e) = handlers \ {g}
        PROVE  \E gs \in SUBSET handlers :
                  /\ Heard(e) = gs /\ Listening(e) = handlers \ gs
                  /\ \A h \in gs : e \in h.on /\ ~Pending(h)
                  /\ \A h \in handlers : e \in h.on => h \in gs
    <3>1. {g} \in SUBSET handlers
      OBVIOUS
    <3>2. QED
      BY <2>1, <2>3, <3>1
  <2>4. QED
    BY <1>1, <2>2, <2>3, HeardOne
<1>3. pages' = Shown(e) /\ handlers' = handlers \ gs /\ UNCHANGED <<toggles, below>>
  <2>1. ~(\E h \in Heard(e) : h.back)
    BY <1>2 DEF GoingBack
  <2>2. QED
    BY <1>2, <2>1, TransitionIs
<1>4. /\ DOMAIN pages' = DOMAIN pages
      /\ \A f \in DOMAIN pages :
             /\ pages'[f].sel = pages[f].sel
             /\ pages'[f].animate <=> pages[f].animate
             /\ pages'[f].active <=> pages[f].active /\ \A h \in gs : f \notin h.current
             /\ ~pages[f].active \/ gs = {} => (pages'[f].moving <=> pages[f].moving /\ f # e)
             /\ pages[f].moving /\ f # e => pages'[f].moving
  <2>1. /\ DOMAIN Shown(e) = DOMAIN pages
        /\ \A f \in DOMAIN pages :
                  /\ Shown(e)[f].sel = pages[f].sel
                  /\ Shown(e)[f].animate <=> pages[f].animate
                  /\ Shown(e)[f].active <=> pages[f].active /\ \A h \in Heard(e) : f \notin h.current
                  /\ Shown(e)[f].moving <=>
                         \/ pages[f].moving /\ f # e
                         \/ pages[f].animate /\ pages[f].active /\ \E h \in Heard(e) : f \in h.current
    BY ShownFacts
  <2>2. QED
    BY <1>2, <1>3, <2>1
<1>5. \A f \in DOMAIN pages : Fresh(f) => Fresh(f)'
  BY <1>4 DEF Fresh
<1>6. /\ \A i \in DOMAIN shows : Find(shows[i])' = Find(shows[i]) /\ Find(shows[i]) \subseteq DOMAIN pages
      /\ Find(top)' = Find(top)
  BY <1>1, <1>4, TypesMean DEF Find
<1>7. \A h : Pending(h)' <=> Pending(h)
  BY <1>3 DEF Pending
<1>20. ~GoingBack'
  BY <1>3 DEF GoingBack
<1>21. ShowsApart' /\ ShowsFresh'
  <2>1. ShowsApart'
    BY <1>1 DEF ForwardInv, ShowsApart
  <2>2. \A i \in DOMAIN shows : \E f \in Find(shows[i]) : Fresh(f)'
    BY <1>5, <1>6 DEF ForwardInv, ShowsFresh
  <2>3. QED
    BY <1>1, <1>6, <2>1, <2>2 DEF ShowsFresh
<1>22. ShowsNew'
  <2>1. ASSUME NEW i \in DOMAIN shows, NEW f \in Find(shows[i])
        PROVE  /\ ~pages'[f].moving /\ \A h \in handlers' : f \notin h.on
               /\ pages'[f].active => i = 1 /\ toggles' = <<>> /\ handlers' = {}
    <3>1. /\ f \in DOMAIN pages /\ ~pages[f].moving /\ \A h \in handlers : f \notin h.on
          /\ pages[f].active => i = 1 /\ toggles = <<>> /\ handlers = {}
      BY <1>6 DEF ForwardInv, ShowsNew
    <3>2. pages[f].active => handlers' = {} /\ gs = {}
      BY <1>3, <3>1
    <3>3. QED
      BY <1>3, <1>4, <3>1, <3>2
  <2>2. QED
    BY <1>1, <1>6, <2>1 DEF ShowsNew
<1>23. TogglesApart'
  BY <1>3 DEF ForwardInv, TogglesApart
<1>24. TogglesHeard'
  <2>1. ASSUME NEW i \in DOMAIN toggles
        PROVE  /\ toggles[i].active
               /\ \E h \in handlers' : h.on = toggles[i].on
               /\ \E f \in toggles[i].on : Fresh(f)' /\ pages'[f].animate
    <3>1. toggles[i].active /\ toggles[i].on \subseteq DOMAIN pages
      BY TypesMean DEF ForwardInv, TogglesHeard
    <3>2. PICK h \in handlers : h.on = toggles[i].on
      BY DEF ForwardInv, TogglesHeard
    <3>3. h \in handlers'
      BY <1>2, <1>3, <3>2 DEF Pending
    <3>4. PICK f \in toggles[i].on : Fresh(f) /\ pages[f].animate
      BY DEF ForwardInv, TogglesHeard
    <3>5. QED
      BY <1>4, <1>5, <3>1, <3>2, <3>3, <3>4
  <2>2. QED
    BY <1>3, <2>1 DEF TogglesHeard
<1>25. TogglesNew'
  <2>1. ASSUME NEW i \in DOMAIN toggles, NEW f \in toggles[i].on
        PROVE  ~pages'[f].moving /\ (pages'[f].active => i = 1 /\ \A h \in handlers' : Pending(h)')
    <3>1. /\ f \in DOMAIN pages /\ ~pages[f].moving
          /\ pages[f].active => i = 1 /\ \A h \in handlers : Pending(h)
      BY TypesMean DEF ForwardInv, TogglesNew
    <3>2. pages[f].active => gs = {}
      BY <1>2, <3>1
    <3>3. QED
      BY <1>3, <1>4, <1>7, <3>1, <3>2
  <2>2. QED
    BY <1>3, <2>1 DEF TogglesNew
<1>26. HandlersApart'
  BY <1>3 DEF ForwardInv, HandlersApart
<1>27. HandlersWait'
  <2>1. ASSUME NEW h \in handlers' PROVE 1 \notin h.on /\ 2 \notin h.on /\ (Pending(h)' \/ \E f \in h.on : pages'[f].moving)
    <3>1. h \in handlers /\ e \notin h.on /\ h.on \subseteq DOMAIN pages
      BY <1>2, <1>3, TypesMean
    <3>2. 1 \notin h.on /\ 2 \notin h.on /\ (Pending(h) \/ \E f \in h.on : pages[f].moving)
      BY <3>1 DEF ForwardInv, HandlersWait
    <3>3. QED
      BY <1>4, <1>7, <3>1, <3>2
  <2>2. QED
    BY <2>1 DEF HandlersWait
<1>28. TopShown'
  <2>1. top' = top /\ top # "progress"
    BY <1>1 DEF ForwardInv, TopShown, OverlayShown
  <2>2. ASSUME top = "reactions" PROVE ReactionsShown'
    <3>1. Quiet /\ pages[2].active /\ Uppermost("reactions")
      BY <2>2 DEF ForwardInv, TopShown, ReactionsShown
    <3>2. gs = {}
      BY <3>1 DEF Quiet
    <3>3. pages'[2].active /\ Quiet'
      BY <1>1, <1>3, <1>4, <3>1, <3>2, TypesMean DEF Quiet
    <3>4. QED
      BY <1>3, <3>1, <3>3 DEF ReactionsShown, Uppermost
  <2>3. ASSUME top \in Pushed PROVE PushedShown'
    <3>1. PushedShown
      BY <2>3 DEF ForwardInv, TopShown
    <3>2. PICK f \in Find(top) :
              /\ \A h \in handlers : f \notin h.current
              /\ \/ shows # <<>> /\ shows[Len(shows)] = top /\ Fresh(f)
                 \/ /\ shows = <<>> /\ Uppermost(top)
                    /\ pages[f].active \/ \E i \in DOMAIN toggles : f \in toggles[i].on
      BY <3>1 DEF PushedShown
    <3>3. f \in DOMAIN pages
      BY TypesMean
    <3>4. pages'[2].active => shows' # <<>> \/ \E h \in handlers' : 2 \in h.current
      <4>1. ASSUME pages'[2].active, shows' = <<>> PROVE \E h \in handlers' : 2 \in h.current
        <5>1. pages[2].active /\ \A h \in gs : 2 \notin h.current
          BY <1>4, <4>1, TypesMean
        <5>2. PICK h \in handlers : 2 \in h.current
          BY <1>1, <3>1, <4>1, <5>1 DEF PushedShown
        <5>3. QED
          BY <1>3, <5>1, <5>2
      <4>2. QED
        BY <4>1
    <3>5. /\ \A h \in handlers' : f \notin h.current
          /\ pages[f].active => pages'[f].active
      BY <1>2, <1>3, <1>4, <3>2, <3>3
    <3>6. \/ shows' # <<>> /\ shows'[Len(shows')] = top' /\ Fresh(f)'
          \/ /\ shows' = <<>> /\ Uppermost(top)'
             /\ pages'[f].active \/ \E i \in DOMAIN toggles' : f \in toggles'[i].on
      <4>1. CASE shows # <<>> /\ shows[Len(shows)] = top /\ Fresh(f)
        BY <1>1, <1>5, <3>3, <4>1
      <4>2. CASE shows = <<>> /\ Uppermost(top) /\ (pages[f].active \/ \E i \in DOMAIN toggles : f \in toggles[i].on)
        BY <1>1, <1>3, <3>5, <4>2 DEF Uppermost
      <4>3. QED
        BY <3>2, <4>1, <4>2
    <3>7. f \in Find(top)'
      BY <1>6
    <3>8. QED
      BY <3>4, <3>5, <3>6, <3>7 DEF PushedShown
  <2>4. QED
    BY <2>1, <2>2, <2>3 DEF TopShown
<1>30. QED
  BY <1>20, <1>21, <1>22, <1>23, <1>24, <1>25, <1>26, <1>27, <1>28 DEF ForwardInv

(* A page is pushed: at rest, or when no other page is like it.              *)
LEMMA PushForward ==
    ASSUME TypeInv, NEW sel \in Pushed, NEW c \in 0..MaxCalls, Push(sel, c), ForwardInv, ~GoingBack,
           Moving => Find(sel) = {}
    PROVE  ForwardInv' /\ ~GoingBack'
<1>1. /\ PagesOK(pages) /\ Len(pages) < MaxPages /\ pages' = Append(pages, NewPage(sel, c))
      /\ shows' = Append(shows, sel) /\ top' = sel /\ UNCHANGED <<below, toggles, handlers>>
  BY TypesMean DEF Push
<1>2. PICK n \in Nat :
          /\ DOMAIN pages' = DOMAIN pages \cup {n} /\ n \notin DOMAIN pages
          /\ pages'[n].sel = sel /\ ~pages'[n].active /\ ~pages'[n].moving
          /\ \A e \in DOMAIN pages : pages'[e] = pages[e]
  <2>1. sel \in Selectors
    BY DEF Pushed
  <2>2. /\ NewPage(sel, c).sel = sel /\ ~NewPage(sel, c).active /\ ~NewPage(sel, c).moving
    BY <2>1, NewPageFacts
  <2>3. /\ DOMAIN pages' = DOMAIN pages \cup {Len(pages) + 1} /\ Len(pages) + 1 \notin DOMAIN pages
        /\ pages'[Len(pages) + 1] = NewPage(sel, c)
        /\ \A e \in DOMAIN pages : pages'[e] = pages[e]
    BY <1>1, AppendPage
  <2>4. Len(pages) + 1 \in Nat
    BY <1>1, PagesAre
  <2>5. PICK n \in Nat : n = Len(pages) + 1
    BY <2>4
  <2>6. /\ DOMAIN pages' = DOMAIN pages \cup {n} /\ n \notin DOMAIN pages
        /\ pages'[n].sel = sel /\ ~pages'[n].active /\ ~pages'[n].moving
    BY <2>2, <2>3, <2>5, SMTT(30)
  <2>7. QED
    BY <2>3, <2>6
<1>3. PICK k \in Nat :
          /\ k = Len(shows) /\ DOMAIN shows = 1..k /\ DOMAIN shows' = DOMAIN shows \cup {k + 1} /\ k + 1 \notin DOMAIN shows
          /\ shows'[k + 1] = sel /\ Len(shows') = k + 1 /\ shows' # <<>> /\ \A i \in DOMAIN shows : shows'[i] = shows[i]
  <2>1. PICK q \in Seq(Pushed) : q = shows
    BY TypesMean
  <2>2. PICK r : r = Append(q, sel)
    OBVIOUS
  <2>3. /\ r \in Seq(Pushed) /\ Len(q) \in Nat /\ DOMAIN q = 1..Len(q) /\ r[Len(q) + 1] = sel /\ Len(r) = Len(q) + 1
        /\ \A i \in DOMAIN q : r[i] = q[i]
    BY <2>2
  <2>4. DOMAIN r = 1..(Len(q) + 1) /\ r # <<>>
    BY <2>3
  <2>5. 1..(Len(q) + 1) = 1..Len(q) \cup {Len(q) + 1} /\ Len(q) + 1 \notin 1..Len(q)
    BY <2>3
  <2>6. QED
    BY <1>1, <2>1, <2>2, <2>3, <2>4, <2>5
<1>4. ~Moving => shows = <<>> /\ toggles = <<>> /\ handlers = {} /\ k = 0 /\ \A e \in DOMAIN pages : ~pages[e].moving
  <2> SUFFICES ASSUME ~Moving
               PROVE  shows = <<>> /\ toggles = <<>> /\ handlers = {} /\ k = 0 /\ \A e \in DOMAIN pages : ~pages[e].moving
    OBVIOUS
  <2>1. Quiet /\ \A e \in DOMAIN pages : ~pages[e].moving
    BY AtRest DEF ShownNow
  <2>2. k = 0
    BY <1>3, <2>1 DEF Quiet
  <2>3. QED
    BY <2>1, <2>2 DEF Quiet
<1>5. \A i \in DOMAIN shows : shows[i] # sel /\ Find(shows[i])' = Find(shows[i]) /\ Find(shows[i]) \subseteq DOMAIN pages
  <2>1. ASSUME NEW i \in DOMAIN shows PROVE shows[i] # sel
    <3>1. Moving
      BY <1>3, <1>4
    <3>2. QED
      BY <3>1 DEF ForwardInv, ShowsFresh
  <2>2. QED
    BY <1>2, <1>3, <2>1, TypesMean DEF Find
<1>6. Find(sel)' = Find(sel) \cup {n} /\ Find(sel) \subseteq DOMAIN pages
  BY <1>2, TypesMean DEF Find
<1>7. Fresh(n)' /\ \A e \in DOMAIN pages : Fresh(e)' <=> Fresh(e)
  BY <1>2 DEF Fresh
<1>8. \A h \in handlers : n \notin h.on /\ n \notin h.current /\ h.on \subseteq DOMAIN pages
  BY <1>2, TypesMean
<1>9. \A i \in DOMAIN toggles : toggles[i].on \subseteq DOMAIN pages
  BY TypesMean
<1>10. \A h : Pending(h)' <=> Pending(h)
  BY <1>1 DEF Pending
<1>m. Find(shows[k + 1])' = Find(sel)'
  BY <1>3 DEF Find
<1>20. ~GoingBack'
  BY <1>1 DEF GoingBack
<1>21. ShowsApart'
  BY <1>3, <1>5 DEF ForwardInv, ShowsApart
<1>22. ShowsFresh'
  <2>1. ASSUME NEW i \in DOMAIN shows' PROVE \E e \in Find(shows[i])' : Fresh(e)'
    <3>1. CASE i = k + 1
      BY <1>6, <1>7, <1>m, <3>1
    <3>2. CASE i \in DOMAIN shows
      BY <1>5, <1>7, <3>2 DEF ForwardInv, ShowsFresh
    <3>3. QED
      BY <1>3, <3>1, <3>2
  <2>2. QED
    BY <2>1 DEF ShowsFresh
<1>23. ShowsNew'
  <2>1. ASSUME NEW i \in DOMAIN shows', NEW e \in Find(shows[i])'
        PROVE  /\ ~pages'[e].moving /\ \A h \in handlers' : e \notin h.on
               /\ pages'[e].active => i = 1 /\ toggles' = <<>> /\ handlers' = {}
    <3>1. CASE i = k + 1
      <4>1. e = n \/ (e \in DOMAIN pages /\ ~Moving)
        BY <1>6, <1>m, <2>1, <3>1
      <4>2. CASE e = n
        BY <1>1, <1>2, <1>8, <4>2
      <4>3. CASE e \in DOMAIN pages /\ ~Moving
        BY <1>1, <1>2, <1>4, <3>1, <4>3
      <4>4. QED
        BY <4>1, <4>2, <4>3
    <3>2. CASE i \in DOMAIN shows
      <4>1. e \in Find(shows[i]) /\ e \in DOMAIN pages
        BY <1>5, <2>1, <3>2
      <4>2. QED
        BY <1>1, <1>2, <3>2, <4>1 DEF ForwardInv, ShowsNew
    <3>3. QED
      BY <1>3, <3>1, <3>2
  <2>2. QED
    BY <2>1 DEF ShowsNew
<1>24. TogglesApart' /\ HandlersApart'
  BY <1>1 DEF ForwardInv, TogglesApart, HandlersApart
<1>25. TogglesHeard'
  <2>1. \A i \in DOMAIN toggles : \E e \in toggles[i].on : Fresh(e)' /\ pages'[e].animate
    BY <1>2, <1>7, <1>9 DEF ForwardInv, TogglesHeard
  <2>2. QED
    BY <1>1, <2>1 DEF ForwardInv, TogglesHeard
<1>26. TogglesNew'
  <2>1. \A i \in DOMAIN toggles : \A e \in toggles[i].on :
            ~pages'[e].moving /\ (pages'[e].active => i = 1 /\ \A h \in handlers : Pending(h)')
    BY <1>2, <1>9, <1>10 DEF ForwardInv, TogglesNew
  <2>2. QED
    BY <1>1, <2>1 DEF TogglesNew
<1>27. HandlersWait'
  <2>1. \A h \in handlers : 1 \notin h.on /\ 2 \notin h.on /\ (Pending(h)' \/ \E e \in h.on : pages'[e].moving)
    BY <1>2, <1>8, <1>10 DEF ForwardInv, HandlersWait
  <2>2. QED
    BY <1>1, <2>1 DEF HandlersWait
<1>28. TopShown'
  <2>1. top' # "progress" /\ top' # "reactions"
    BY <1>1 DEF Pushed
  <2>2. n \in Find(top)'
    BY <1>1, <1>2 DEF Find
  <2>3. PushedShown'
    BY <1>1, <1>3, <1>7, <1>8, <2>2 DEF PushedShown
  <2>4. QED
    BY <2>1, <2>3 DEF TopShown
<1>30. QED
  BY <1>20, <1>21, <1>22, <1>23, <1>24, <1>25, <1>26, <1>27, <1>28 DEF ForwardInv

(* When nothing is on its way, only the page shown last matters.             *)
LEMMA QuietForward ==
    ASSUME Quiet, TopShown
    PROVE  ForwardInv /\ ~GoingBack
<1>1. shows = <<>> /\ toggles = <<>> /\ handlers = {}
  BY DEF Quiet
<1>2. QED
  BY <1>1 DEF ForwardInv, ShowsApart, ShowsFresh, ShowsNew, TogglesApart, TogglesHeard, TogglesNew,
              HandlersApart, HandlersWait, GoingBack

(* The same, of the next state.                                              *)
LEMMA QuietNext ==
    ASSUME shows' = <<>>, toggles' = <<>>, handlers' = {}, TopShown'
    PROVE  ForwardInv' /\ ~GoingBack'
<1>1. Quiet'
  BY DEF Quiet
<1>2. /\ ShowsApart' /\ ShowsFresh' /\ ShowsNew' /\ TogglesApart' /\ TogglesHeard' /\ TogglesNew'
      /\ HandlersApart' /\ HandlersWait' /\ ~GoingBack'
  BY DEF ShowsApart, ShowsFresh, ShowsNew, TogglesApart, TogglesHeard, TogglesNew,
         HandlersApart, HandlersWait, GoingBack
<1>3. QED
  BY <1>2 DEF ForwardInv

(* A window starts with its reactions.                                       *)
LEMMA ShownFirst == FirstPages[2].active /\ FirstBelow["reactions"] = Selectors \ {"reactions"}
<1>1. PICK p \in Page : p = NewPage("reactions", 0)
  BY NewPageFacts, ReactionsWindowAssumption DEF Selectors
<1>2. PICK q : q = [[p EXCEPT !.animate = FALSE] EXCEPT !.active = TRUE]
  OBVIOUS
<1>3. q.active
  BY <1>2 DEF Page
<1>4. FirstPages[2] = q
  BY <1>1, <1>2 DEF FirstPages
<1>5. FirstBelow["reactions"] = Selectors \ {"reactions"}
  BY DEF FirstBelow, Selectors
<1>6. QED
  BY <1>3, <1>4, <1>5

(* The progress page is laid over what is at rest.                           *)
LEMMA OverlayForward ==
    ASSUME TypeInv, NEW c \in 0..MaxCalls, Overlay(c), ShownNow, ~Moving, DOMAIN calls \subseteq DOMAIN calls'
    PROVE  ForwardInv' /\ ~GoingBack'
<1>1. Quiet /\ \A e \in DOMAIN pages : ~pages[e].moving
  BY AtRest
<1>2. /\ DOMAIN pages' = DOMAIN pages /\ pages'[1].active /\ (pages'[1].moving <=> pages[1].moving)
      /\ \A e \in DOMAIN pages : e # 1 => pages'[e] = pages[e]
  BY OverlayTypes
<1>3. /\ top' = "progress" /\ below' = OnTop("progress") /\ UNCHANGED <<shows, toggles, handlers>>
  BY DEF Overlay
<1>4. OverlayShown'
  <2>1. Uppermost("progress")'
    BY <1>3 DEF Uppermost, OnTop, Selectors
  <2>2. QED
    BY <1>1, <1>2, <1>3, <2>1, TypesMean DEF OverlayShown, Quiet
<1>5. TopShown'
  BY <1>3, <1>4 DEF TopShown, Pushed
<1>6. QED
  BY <1>1, <1>3, <1>5, QuietNext DEF Quiet

(* Going back, from what lies over the others at rest.                       *)
LEMMA GoBackStarts ==
    ASSUME TypeInv, NEW e \in DOMAIN pages, GoBack(e), ShownNow, ~Moving
    PROVE  BackInv' /\ GoingBack'
<1>1. ForwardInv /\ Quiet /\ \A f \in DOMAIN pages : ~pages[f].moving
  BY AtRest
<1>2. PICK on \in SUBSET DOMAIN pages : on = Active
  BY TypesMean
<1>3. PICK g : g = [on |-> on, back |-> TRUE, current |-> {}]
  OBVIOUS
<1>4. /\ Tappable(e) /\ pages[e].sel \notin {"progress", "reactions"}
      /\ handlers' = {g} /\ toggles' = <<[on |-> on, active |-> FALSE]>>
      /\ shows' = <<>> /\ top' = "reactions"
  <2>1. /\ Tappable(e) /\ pages[e].sel \notin {"progress", "reactions"}
        /\ shows' = shows /\ top' = "reactions" /\ shows = <<>> /\ toggles = <<>> /\ handlers = {}
    BY <1>1 DEF GoBack, Quiet
  <2>2. handlers' = {g}
    <3>1. handlers' = handlers \cup {g}
      BY <1>2, <1>3 DEF GoBack
    <3>2. QED
      BY <2>1, <3>1
  <2>3. toggles' = <<[on |-> on, active |-> FALSE]>>
    <3>1. PICK t : t = [on |-> on, active |-> FALSE]
      OBVIOUS
    <3>2. toggles' = Append(toggles, t)
      BY <1>2, <3>1 DEF GoBack
    <3>3. toggles' = <<t>>
      BY <2>1, <3>2
    <3>4. QED
      BY <3>1, <3>3
  <2>4. QED
    BY <2>1, <2>2, <2>3
<1>5. /\ DOMAIN pages' = DOMAIN pages
      /\ \A f \in DOMAIN pages :
             /\ pages'[f].moving <=> pages[f].moving
             /\ pages'[f].active <=> pages[f].active \/ f = 2
             /\ f \in Active /\ f # 2 => pages'[f].animate
  BY GoBackFacts
<1>6. PICK f \in Active : pages[f].sel = top /\ Uppermost(top)
                          /\ (top = "progress" \/ ~pages[2].active \/ top = "reactions")
  BY <1>1, RestShown
<1>7. top = pages[e].sel
  <2>1. pages[e].sel \notin below[top]
    BY <1>1, <1>4, <1>6 DEF Tappable, Active
  <2>2. pages[e].sel \in Selectors
    BY TypesMean, PagesAre
  <2>3. QED
    BY <1>6, <2>1, <2>2 DEF Uppermost
<1>8. on # {} /\ 2 \notin on
  BY <1>2, <1>4, <1>6, <1>7 DEF Active
<1>9. Leaving(on)'
  <2>1. \A q \in on : pages'[q].active /\ pages'[q].animate
    BY <1>2, <1>5, <1>8 DEF Active
  <2>2. QED
    BY <1>1, <1>4, <1>5, <2>1 DEF Leaving
<1>10. Active' \subseteq on \cup {2} /\ pages'[2].active
  BY <1>2, <1>5, TypesMean DEF Active
<1>11. on \in SUBSET DOMAIN pages'
  BY <1>5
<1>12. GoingBack'
  <2>1. g.back
    BY <1>3
  <2>2. QED
    BY <1>4, <2>1 DEF GoingBack
<1>13. BackInv'
  BY <1>3, <1>4, <1>8, <1>9, <1>10, <1>11 DEF BackInv
<1>14. QED
  BY <1>12, <1>13

(* The timer of 20 ms, while a page goes back: what was in sight moves.      *)
LEMMA ToggleBack ==
    ASSUME TypeInv, Toggle, BackInv
    PROVE  BackInv' /\ (GoingBack' <=> GoingBack)
<1>1. /\ toggles # <<>> /\ toggles' = Tail(toggles)
      /\ pages' = Activated(pages, Head(toggles).on, Head(toggles).active)
      /\ UNCHANGED <<shows, handlers, top>>
  BY DEF Toggle
<1>2. PICK on \in SUBSET DOMAIN pages :
           /\ on # {} /\ 2 \notin on /\ Active \subseteq on \cup {2}
           /\ handlers = {[on |-> on, back |-> TRUE, current |-> {}]}
           /\ Leaving(on)
  BY <1>1 DEF BackInv, Left
<1>3. PICK t : t = [on |-> on, active |-> FALSE]
  OBVIOUS
<1>4. t.on = on /\ t.active = FALSE /\ toggles = <<t>>
  BY <1>2, <1>3 DEF Leaving
<1>5. Head(toggles).on = on /\ Head(toggles).active = FALSE /\ toggles' = <<>>
  BY <1>1, <1>4
<1>6. PICK a \in BOOLEAN : a = FALSE
  OBVIOUS
<1>7. /\ DOMAIN pages' = DOMAIN pages
      /\ \A e \in DOMAIN pages :
             /\ pages'[e].active <=> IF e \in on THEN a ELSE pages[e].active
             /\ pages'[e].moving <=> \/ pages[e].moving
                                     \/ e \in on /\ pages[e].animate /\ ~(pages[e].active <=> a)
  <2>1. PagesOK(pages) /\ pages' = Activated(pages, on, a)
    BY <1>1, <1>5, <1>6, TypesMean
  <2>2. QED
    BY <2>1, ActivatedFacts
<1>8. \A e \in DOMAIN pages : /\ pages'[e].active <=> pages[e].active /\ e \notin on
                              /\ pages'[e].moving <=> e \in on
  BY <1>2, <1>6, <1>7 DEF Leaving
<1>9. Active' = {2} /\ pages'[2].active
  BY <1>2, <1>7, <1>8, TypesMean DEF Active, BackInv
<1>10. Left(on)'
  BY <1>5, <1>7, <1>8, <1>9 DEF Left
<1>11. on \in SUBSET DOMAIN pages' /\ Active' \subseteq on \cup {2} /\ top' = "reactions" /\ shows' = <<>>
  BY <1>1, <1>7, <1>9 DEF BackInv
<1>12. BackInv'
  BY <1>1, <1>2, <1>9, <1>10, <1>11 DEF BackInv
<1>13. QED
  BY <1>1, <1>12 DEF GoingBack

(* The end of the transition that goes back.                                 *)
LEMMA TransitionBack ==
    ASSUME TypeInv, NEW e \in DOMAIN pages, TransitionEnd(e), BackInv
    PROVE  ForwardInv' /\ ~GoingBack'
<1>1. pages[e].moving /\ UNCHANGED <<shows, top>>
  BY TransitionIs
<1>2. PICK on \in SUBSET DOMAIN pages :
           /\ on # {} /\ 2 \notin on
           /\ handlers = {[on |-> on, back |-> TRUE, current |-> {}]}
           /\ Left(on)
  BY <1>1 DEF BackInv, Leaving
<1>3. PICK g : g = [on |-> on, back |-> TRUE, current |-> {}]
  OBVIOUS
<1>4. g.on = on /\ g.back /\ g.current = {} /\ handlers = {g} /\ e \in on
  BY <1>1, <1>2, <1>3 DEF Left
<1>5. Heard(e) = {g}
  BY <1>4 DEF Heard
<1>6. Unheard(e) = on
  BY <1>4, <1>5 DEF Unheard
<1>7. Listening(e) = {}
  BY <1>4, <1>6 DEF Listening
<1>8. Without(Listening(e)) = {}
  BY <1>7 DEF Without
<1>9. /\ pages' = BackAtFirst(e) /\ handlers' = {} /\ below' = OnTop("reactions")
      /\ toggles' = [i \in DOMAIN toggles |-> [toggles[i] EXCEPT !.on = @ \cap Kept]]
  BY <1>4, <1>5, <1>8, TransitionIs
<1>10. toggles' = <<>> /\ shows' = <<>> /\ top' = "reactions"
  <2>1. toggles = <<>>
    BY <1>2 DEF Left
  <2>2. DOMAIN toggles' = {} /\ toggles' = [i \in {} |-> 0]
    BY <1>9, <2>1
  <2>3. [i \in {} |-> 0] = <<>>
    OBVIOUS
  <2>4. QED
    BY <1>1, <2>2, <2>3 DEF BackInv
<1>11. pages'[2].active
  BY <1>4, <1>5, <1>9, BackAtFirstFacts DEF BackInv
<1>12. Uppermost("reactions")'
  BY <1>9 DEF Uppermost, OnTop, Selectors
<1>13. TopShown'
  BY <1>9, <1>10, <1>11, <1>12 DEF TopShown, ReactionsShown, Quiet, Pushed
<1>14. QED
  BY <1>9, <1>10, <1>13, QuietNext

(* Nothing happens to what pages look like.                                  *)
LEMMA ShownStays ==
    ASSUME TypeInv, ShownNow, UNCHANGED <<below, shows, toggles, handlers, top>>, DOMAIN pages' = DOMAIN pages,
           \A e \in DOMAIN pages : /\ pages'[e].sel = pages[e].sel
                                   /\ pages'[e].active <=> pages[e].active
                                   /\ pages'[e].moving <=> pages[e].moving
                                   /\ pages'[e].animate <=> pages[e].animate
    PROVE  ShownNow'
<1>1. /\ \A e \in DOMAIN pages : Fresh(e)' <=> Fresh(e)
      /\ \A h : Pending(h)' <=> Pending(h)
      /\ GoingBack' <=> GoingBack
  BY DEF Fresh, Pending, GoingBack
<1>2. /\ \A i \in DOMAIN shows : Find(shows[i])' = Find(shows[i]) /\ Find(shows[i]) \subseteq DOMAIN pages
      /\ Find(top)' = Find(top) /\ Find(top) \subseteq DOMAIN pages
      /\ Active' = Active
      /\ \A i \in DOMAIN toggles : toggles[i].on \subseteq DOMAIN pages
      /\ \A h \in handlers : h.on \subseteq DOMAIN pages
      /\ 1 \in DOMAIN pages /\ 2 \in DOMAIN pages
  BY TypesMean DEF Find, Active
<1>3. ASSUME BackInv PROVE BackInv'
  <2>1. PICK on \in SUBSET DOMAIN pages :
           /\ on # {} /\ 2 \notin on /\ Active \subseteq on \cup {2}
           /\ handlers = {[on |-> on, back |-> TRUE, current |-> {}]}
           /\ Leaving(on) \/ Left(on)
    BY <1>3 DEF BackInv
  <2>2. Leaving(on)' \/ Left(on)'
    BY <1>2, <2>1 DEF Leaving, Left
  <2>3. top' = "reactions" /\ shows' = <<>> /\ pages'[2].active /\ on \in SUBSET DOMAIN pages'
    BY <1>2, <1>3 DEF BackInv
  <2>4. QED
    BY <1>2, <2>1, <2>2, <2>3 DEF BackInv
<1>4. ASSUME ForwardInv PROVE ForwardInv'
  <2>1. ShowsApart' /\ TogglesApart' /\ HandlersApart'
    BY <1>4 DEF ForwardInv, ShowsApart, TogglesApart, HandlersApart
  <2>2. ShowsFresh' /\ ShowsNew'
    <3>1. ASSUME NEW i \in DOMAIN shows
          PROVE  /\ \E e \in Find(shows[i]) : Fresh(e)'
                 /\ \A e \in Find(shows[i]) : /\ ~pages'[e].moving
                                              /\ \A h \in handlers : e \notin h.on
                                              /\ pages'[e].active => i = 1 /\ toggles = <<>> /\ handlers = {}
      BY <1>1, <1>2, <1>4 DEF ForwardInv, ShowsFresh, ShowsNew
    <3>2. QED
      BY <1>2, <3>1 DEF ShowsFresh, ShowsNew
  <2>3. TogglesHeard' /\ TogglesNew'
    <3>1. ASSUME NEW i \in DOMAIN toggles
          PROVE  /\ toggles[i].active /\ \E h \in handlers : h.on = toggles[i].on
                 /\ \E e \in toggles[i].on : Fresh(e)' /\ pages'[e].animate
                 /\ \A e \in toggles[i].on : /\ ~pages'[e].moving
                                             /\ pages'[e].active => i = 1 /\ \A h \in handlers : Pending(h)'
      BY <1>1, <1>2, <1>4 DEF ForwardInv, TogglesHeard, TogglesNew
    <3>2. QED
      BY <3>1 DEF TogglesHeard, TogglesNew
  <2>4. HandlersWait'
    BY <1>1, <1>2, <1>4 DEF ForwardInv, HandlersWait
  <2>5. TopShown'
    <3>1. top = "progress" => OverlayShown'
      BY <1>2, <1>4 DEF ForwardInv, TopShown, OverlayShown, Quiet, Uppermost
    <3>2. top = "reactions" => ReactionsShown'
      BY <1>2, <1>4 DEF ForwardInv, TopShown, ReactionsShown, Quiet, Uppermost
    <3>3. ASSUME top \in Pushed PROVE PushedShown'
      <4>1. PushedShown
        BY <1>4, <3>3 DEF ForwardInv, TopShown
      <4>2. PICK e \in Find(top) :
              /\ \A h \in handlers : e \notin h.current
              /\ \/ shows # <<>> /\ shows[Len(shows)] = top /\ Fresh(e)
                 \/ /\ shows = <<>> /\ Uppermost(top)
                    /\ pages[e].active \/ \E i \in DOMAIN toggles : e \in toggles[i].on
        BY <4>1 DEF PushedShown
      <4>3. \/ shows' # <<>> /\ shows'[Len(shows')] = top' /\ Fresh(e)'
            \/ /\ shows' = <<>> /\ Uppermost(top)'
               /\ pages'[e].active \/ \E i \in DOMAIN toggles' : e \in toggles'[i].on
        BY <1>1, <1>2, <4>2 DEF Uppermost
      <4>4. pages'[2].active => shows' # <<>> \/ \E h \in handlers' : 2 \in h.current
        BY <1>2, <4>1 DEF PushedShown
      <4>5. QED
        BY <1>2, <4>2, <4>3, <4>4 DEF PushedShown
    <3>4. QED
      BY <3>1, <3>2, <3>3 DEF TopShown
  <2>6. QED
    BY <2>1, <2>2, <2>3, <2>4, <2>5 DEF ForwardInv
<1>5. QED
  BY <1>1, <1>3, <1>4 DEF ShownNow

(* Each step keeps what is shown in order, or the window is overtaken.       *)
LEMMA ShownStep == TypeInv /\ ShownInv /\ [Next]_vars => ShownInv'
<1> SUFFICES ASSUME TypeInv, ShownInv, [Next]_vars, win' # "gone", ~overtaken' PROVE ShownNow'
  BY DEF ShownInv
<1>o. ASSUME win' = win \/ win # "gone", overtaken' = overtaken PROVE ShownNow
  BY <1>o DEF ShownInv
<1>s. ASSUME UNCHANGED view, win' = win \/ win # "gone" PROVE ShownNow'
  <2>1. UNCHANGED <<below, shows, toggles, handlers, top>> /\ pages' = pages /\ overtaken' = overtaken
    BY <1>s DEF view
  <2>2. ShownNow
    BY <1>o, <1>s, <2>1
  <2>3. /\ DOMAIN pages' = DOMAIN pages
        /\ \A e \in DOMAIN pages : /\ pages'[e].sel = pages[e].sel
                                   /\ pages'[e].active <=> pages[e].active
                                   /\ pages'[e].moving <=> pages[e].moving
                                   /\ pages'[e].animate <=> pages[e].animate
    BY <2>1
  <2>4. QED
    BY <2>1, <2>2, <2>3, ShownStays
<1>p. ASSUME NEW sel \in Pushed, NEW c \in 0..MaxCalls, Push(sel, c), win # "gone" PROVE ShownNow'
  <2>1. ~overtaken /\ ~GoingBack /\ (Moving => Find(sel) = {})
    BY <1>p DEF Push
  <2>2. ForwardInv
    BY <1>p, <2>1 DEF ShownInv, ShownNow
  <2>3. QED
    BY <1>p, <2>1, <2>2, PushForward DEF ShownNow
<1>1. CASE Show
  <2>1. ShownNow /\ shows # <<>>
    BY <1>1, <1>o DEF Show
  <2>2. ForwardInv /\ ~GoingBack
    BY <2>1 DEF ShownNow, BackInv
  <2>3. QED
    BY <1>1, <2>2, ShowForward DEF ShownNow
<1>2. CASE Toggle
  <2>1. ShownNow
    BY <1>2, <1>o DEF Toggle
  <2>2. CASE ForwardInv /\ ~GoingBack
    BY <1>2, <2>2, ToggleForward DEF ShownNow
  <2>3. CASE BackInv /\ GoingBack
    BY <1>2, <2>3, ToggleBack DEF ShownNow
  <2>4. QED
    BY <2>1, <2>2, <2>3 DEF ShownNow
<1>3. ASSUME NEW e \in DOMAIN pages, TransitionEnd(e) PROVE ShownNow'
  <2>1. ShownNow
    BY <1>3, <1>o, TransitionIs
  <2>2. CASE ForwardInv /\ ~GoingBack
    BY <1>3, <2>2, TransitionForward DEF ShownNow
  <2>3. CASE BackInv
    BY <1>3, <2>3, TransitionBack DEF ShownNow
  <2>4. QED
    BY <2>1, <2>2, <2>3 DEF ShownNow
<1>4. ASSUME NEW kind \in {"plusOne", "default"}, React(kind) PROVE ShownNow'
  <2>1. NewCall(kind) /\ Push("confirmation", Len(calls) + 1) /\ window' = window /\ win # "gone"
    BY <1>4 DEF React, Tappable
  <2>2. Len(calls) + 1 \in 0..MaxCalls
    BY <2>1, NewCallTypes
  <2>3. "confirmation" \in Pushed
    BY DEF Pushed, Selectors
  <2>4. QED
    BY <1>p, <2>1, <2>2, <2>3
<1>5. ASSUME NEW c \in 0..MaxCalls, Overlay(c), Tappable(Reactions), DOMAIN calls \subseteq DOMAIN calls', win' = win
      PROVE  ShownNow'
  <2>1. ~Moving /\ ~overtaken
    BY <1>5 DEF Overlay
  <2>2. ShownNow
    BY <1>5, <2>1 DEF Tappable, ShownInv
  <2>3. QED
    BY <1>5, <2>1, <2>2, OverlayForward DEF ShownNow
<1>6. CASE NewCustomReaction
  <2>1. NewCall("custom") /\ Overlay(Len(calls) + 1) /\ window' = window /\ win' = win /\ Tappable(Reactions)
    BY <1>6 DEF NewCustomReaction
  <2>2. Len(calls) + 1 \in 0..MaxCalls /\ DOMAIN calls \subseteq DOMAIN calls'
    BY <2>1, NewCallTypes
  <2>3. QED
    BY <1>5, <2>1, <2>2
<1>7. ASSUME NEW r \in known, ShowLocations(r) PROVE ShownNow'
  <2>1. window' = window /\ win' = win /\ Tappable(Reactions)
    BY <1>7 DEF ShowLocations
  <2>2. CASE Overlay(Len(calls) + 1) /\ NewCall("locations")
    <3>1. Len(calls) + 1 \in 0..MaxCalls /\ DOMAIN calls \subseteq DOMAIN calls'
      BY <2>1, <2>2, NewCallTypes
    <3>2. QED
      BY <1>5, <2>1, <2>2, <3>1
  <2>3. CASE Overlay(0) /\ UNCHANGED <<calls, posts>>
    <3>1. 0 \in 0..MaxCalls
      BY ReactionsWindowAssumption
    <3>2. QED
      BY <1>5, <2>1, <2>3, <3>1
  <2>4. QED
    BY <1>7, <2>2, <2>3, LocationsAre
<1>8. ASSUME NEW e \in DOMAIN pages, GoBack(e) PROVE ShownNow'
  <2>1. ~Moving /\ ~overtaken
    BY <1>8 DEF GoBack
  <2>2. ShownNow
    BY <1>8, <2>1 DEF GoBack, Tappable, ShownInv
  <2>3. QED
    BY <1>8, <2>1, <2>2, GoBackStarts DEF ShownNow
<1>9. CASE LoginWindowCloses \/ \E e \in DOMAIN pages : OpenLoginWindow(e) \/ FacebookLogin(e)
  <2>1. SameLook
    BY <1>9, LoginTypes
  <2>2. ShownNow
    BY <1>o, <2>1 DEF SameLook
  <2>3. QED
    BY <2>1, <2>2, ShownStays DEF SameLook
<1>10. ASSUME NEW e \in DOMAIN pages, RetryTapped(e) PROVE ShownNow'
  BY <1>10, <1>s DEF RetryTapped, Retry
<1>11. ASSUME NEW c \in DOMAIN calls, LoginReturns(c) PROVE ShownNow'
  BY <1>11, <1>s DEF LoginReturns, Retry
<1>12. ASSUME NEW c \in DOMAIN calls, Answer(c) PROVE ShownNow'
  <2>1. PICK result \in {"accepted", "refused"} :
               /\ Answered(c, result)
               /\ known' \subseteq known \cup {c} /\ known \subseteq known' /\ stuck' \in {stuck, TRUE}
               /\ \/ result = "accepted" /\ calls[c].kind = "custom" /\ \E sel \in {"confirmation", "pending"} : PushFor(c, sel)
                  \/ result = "accepted" /\ calls[c].kind = "locations" /\ PushFor(c, "locations")
                  \/ result = "accepted" /\ calls[c].kind \notin {"custom", "locations"} /\ UNCHANGED view
                  \/ result = "refused" /\ \E sel \in {"login", "blocked", "error"} : PushFor(c, sel)
                  \/ result = "refused" /\ UNCHANGED view
    BY <1>12, AnswerIs
  <2>2. win' = win
    BY <2>1 DEF Answered
  <2>3. CASE UNCHANGED view
    BY <1>s, <2>2, <2>3
  <2>4. ASSUME NEW sel \in Pushed, PushFor(c, sel) PROVE ShownNow'
    <3>1. c \in 0..MaxCalls
      BY TypesMean, ReactionsWindowAssumption
    <3>2. (win # "gone" /\ Push(sel, c)) \/ UNCHANGED view
      BY <2>4 DEF PushFor
    <3>3. QED
      BY <1>p, <2>3, <3>1, <3>2
  <2>5. {"confirmation", "pending", "locations", "login", "blocked", "error"} \subseteq Pushed
    BY DEF Pushed, Selectors
  <2>6. CASE \E sel \in {"confirmation", "pending", "locations", "login", "blocked", "error"} : PushFor(c, sel)
    BY <2>4, <2>5, <2>6
  <2>7. QED
    BY <2>1, <2>3, <2>6
<1>13. CASE CloseWindow
  BY <1>13, <1>s DEF CloseWindow
<1>14. CASE FadedOut
  BY <1>14 DEF FadedOut
<1>15. CASE OpenWindow
  <2>1. /\ win = "gone" /\ pages' = FirstPages /\ below' = FirstBelow /\ top' = "reactions"
        /\ UNCHANGED <<shows, toggles, handlers>>
    BY <1>15 DEF OpenWindow
  <2>2. Quiet
    BY <2>1 DEF TypeInv, GoneOK, Quiet
  <2>3. ReactionsShown'
    BY <2>1, <2>2, ShownFirst DEF ReactionsShown, Quiet, Uppermost
  <2>4. TopShown'
    BY <2>1, <2>3 DEF TopShown, Pushed
  <2>5. QED
    BY <2>1, <2>2, <2>4, QuietNext DEF ShownNow, Quiet
<1>16. CASE UNCHANGED vars
  BY <1>16, <1>s DEF vars
<1>17. QED
  BY <1>1, <1>2, <1>3, <1>4, <1>6, <1>7, <1>8, <1>9, <1>10, <1>11, <1>12, <1>13, <1>14, <1>15, <1>16 DEF Next, Browser

(* When nothing moves, a window that was not overtaken shows the page that   *)
(* was shown last, whatever answers came while pages moved: PageShown, for   *)
(* any numbers of pages, calls, requests and windows.  Overtaken is a window *)
(* with an answer that comes while a page goes back, with two pages of one   *)
(* kind while pages move, or whose visitor goes back, or to the progress     *)
(* page, while pages move.                                                   *)
THEOREM LastPageShown == Spec => []PageShown
<1>1. Init => TypeInv /\ ShownInv
  <2> SUFFICES ASSUME Init PROVE ShownNow
    BY TypeStart DEF ShownInv
  <2>1. Quiet /\ pages = FirstPages /\ below = FirstBelow /\ top = "reactions"
    BY DEF Init, Quiet
  <2>2. TopShown
    BY <2>1, ShownFirst DEF TopShown, ReactionsShown, Uppermost, Pushed
  <2>3. QED
    BY <2>1, <2>2, QuietForward DEF ShownNow
<1>2. TypeInv /\ ShownInv /\ [Next]_vars => (TypeInv /\ ShownInv)'
  BY TypeStep, ShownStep
<1>3. TypeInv /\ ShownInv => PageShown
  BY ShownPage
<1>4. QED
  BY <1>1, <1>2, <1>3, PTL DEF Spec
=============================================================================
