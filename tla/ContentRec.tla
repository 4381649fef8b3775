----------------------------- MODULE ContentRec -----------------------------
(***************************************************************************)
(* Recommended content: the widgets of one group's pages on one web page,  *)
(* the pool they are served from, and the requests that fill it.           *)
(*                                                                         *)
(* A widget that asks is put on a list, and the list is served from its    *)
(* front until the pool cannot serve one; that asks for more content, and  *)
(* the answer serves the list once more, in the name of the widget that    *)
(* the request was sent for.  Answers come in any order or not at all.     *)
(*                                                                         *)
(* Abstracted: what a content is, but for its page and its type.  Whether  *)
(* a widget was torn down makes no difference here: the code goes on       *)
(* serving it.                                                             *)
(*                                                                         *)
(* The specification's own names begin with Rec, because CacheProofs has   *)
(* this module and PageCache.                                              *)
(***************************************************************************)
EXTENDS Naturals, Sequences, SequencesExt, FiniteSets, FiniteSetsExt

CONSTANTS
    Widgets,    \* the widgets, one for each page; named by its canonical URL
    Contents,   \* what the server has for the group: records [page, type]
    Count,      \* contents a widget shows
    MaxAnswer,  \* bound: contents in one answer
    Prefetch    \* the request that is sent for no widget

VARIABLES
    pool,       \* freshContentPool
    pending,    \* pendingCallbacks: the widgets that wait, in order
    requests,   \* requests out, each named by the widget it serves
    prefetched, \* prefetchedGroups[groupId]
    state,      \* of each widget: where it is with its content
    entries,    \* contentData.entries, and in whose turn they were served
    poor        \* history: an answer failed, or had too little for its widget

recVars == <<pool, pending, requests, prefetched, state, entries, poor>>

ASSUME ContentRecAssumption ==
    /\ Prefetch \notin Widgets
    /\ Count \in Nat \ {0} /\ MaxAnswer \in Nat
    /\ \A c \in Contents : /\ c = [page |-> c.page, type |-> c.type]
                           /\ c.type \in {"image", "text", "youtube", "video"}

-----------------------------------------------------------------------------
Kept == {c \in Contents : c.type \in {"image", "text"}} \cup
        {[page |-> c.page, type |-> "image"] : c \in {d \in Contents : d.type = "youtube"}}
States == {"absent", "created", "asking", "asked", "served"}
None == [turn |-> Prefetch, shown |-> <<>>]

RecTypeOK ==
    /\ pool \in Seq(Kept)
    /\ pending \in Seq(Widgets) /\ IsInjective(pending)
    /\ requests \subseteq Widgets \cup {Prefetch}
    /\ prefetched \in BOOLEAN
    /\ state \in [Widgets -> States]
    /\ DOMAIN entries = Widgets
    /\ \A w \in Widgets :
         /\ entries[w].turn \in Widgets \cup {Prefetch}
         /\ Len(entries[w].shown) = IF state[w] = "served" THEN Count ELSE 0
         /\ state[w] = "asked" <=> w \in ToSet(pending)
    /\ poor \in BOOLEAN

RecInit ==
    /\ pool = <<>>
    /\ pending = <<>>
    /\ requests = {}
    /\ prefetched = FALSE
    /\ state = [w \in Widgets |-> "absent"]
    /\ entries = [w \in Widgets |-> None]
    /\ poor = FALSE

-----------------------------------------------------------------------------
(* Mutant: avoids only the page of the widget, not those chosen before. *)
ChooseAny(from, own) ==
    LET pick[j \in 1..Count] ==
            LET picked == {pick[k] : k \in 1..(j - 1)}
                allowed == {i \in DOMAIN from \ picked : from[i].page # own}
            IN  IF allowed # {} THEN Max(allowed) ELSE 0
    IN  pick

(* chooseContent, for j from 1 to Count, image and text by turns: the index *)
(* of the last content of the preferred type, of the first of any type if   *)
(* there is none, 0 if all lead to a page that is to be avoided: the        *)
(* widget's own one, or one that was chosen before.                         *)
Choose(from, own) ==
    LET pick[j \in 1..Count] ==
            LET picked == {pick[k] : k \in 1..(j - 1)} \ {0}
                avoid == {own} \cup {from[i].page : i \in picked}
                allowed == {i \in DOMAIN from : from[i].page \notin avoid}
                liked == {i \in allowed : from[i].type = IF j % 2 = 1 THEN "image" ELSE "text"}
            IN  IF liked # {} THEN Max(liked) ELSE IF allowed # {} THEN Min(allowed) ELSE 0
    IN  pick

(* What is left of a sequence when only the indices in kept stay. *)
Only(s, kept) ==
    [i \in 1..Cardinality(kept) |->
        s[CHOOSE k \in kept : Cardinality({m \in kept : m <= k}) = i]]

(* What is left of a pool: what was chosen leaves it, shown or not. *)
Rest(from, pick) == Only(from, DOMAIN from \ {pick[j] : j \in 1..Count})

(* One turn of the list, v's, in which the page of w is avoided: v is served *)
(* if the pool has enough.  The first for whom it has too little ends it:    *)
(* the others have no turn, and stay on the list.                           *)
Turn(w, s, v) ==
    LET pick == Choose(s.pool, w)
        rest == Rest(s.pool, pick)
    IN  IF s.left # <<>> THEN [s EXCEPT !.left = Append(@, v)]
        ELSE IF \E j \in 1..Count : pick[j] = 0 THEN [s EXCEPT !.pool = rest, !.left = <<v>>]
        ELSE [s EXCEPT !.pool = rest,
                       !.entries[v] = [turn |-> w, shown |-> [j \in 1..Count |-> s.pool[pick[j]]]]]

(* What the list and the pool become, and what is shown to those served. *)
Serving(w, from, waiting) ==
    LET turn[i \in 0..Len(waiting)] ==
            IF i = 0 THEN [pool |-> from, left |-> <<>>, entries |-> entries]
            ELSE Turn(w, turn[i - 1], waiting[i])
    IN  turn[Len(waiting)]

(* Mutant: forgets all that waited, served or not. *)
ServeContentForgets(w, from, waiting) ==
    LET after == Serving(w, from, waiting)
    IN  /\ pool' = after.pool
        /\ pending' = <<>>
        /\ entries' = after.entries
        /\ state' = [v \in Widgets |->
                       IF after.entries[v] # None THEN "served"
                       ELSE IF v \in ToSet(after.left) THEN "asked" ELSE state[v]]

(* serveContent in the name of w, but for the request for more. *)
ServeContent(w, from, waiting) ==
    LET after == Serving(w, from, waiting)
    IN  /\ pool' = after.pool
        /\ pending' = after.left
        /\ entries' = after.entries
        /\ state' = [v \in Widgets |->
                       IF after.entries[v] # None THEN "served"
                       ELSE IF v \in ToSet(after.left) THEN "asked" ELSE state[v]]

-----------------------------------------------------------------------------
(* createContentRec: the first one has the pool filled.                     *)
Create(w) ==
    /\ state[w] = "absent"
    /\ state' = [state EXCEPT ![w] = "created"]
    /\ prefetched' = TRUE
    /\ requests' = IF prefetched THEN requests ELSE requests \cup {Prefetch}
    /\ UNCHANGED <<pool, pending, entries, poor>>

(* populateContentEntries: the page's data has come, and a timeout of 0     *)
(* will ask for content.                                                    *)
SummaryLoaded(w) ==
    /\ state[w] = "created"
    /\ state' = [state EXCEPT ![w] = "asking"]
    /\ UNCHANGED <<pool, pending, requests, prefetched, entries, poor>>

(* Mutant: sends no request while another is out. *)
AskOnce(w) ==
    /\ state[w] = "asking"
    /\ ServeContent(w, pool, Append(pending, w))
    /\ requests' = IF pending' = <<>> \/ requests # {} THEN requests ELSE requests \cup {w}
    /\ UNCHANGED <<prefetched, poor>>

(* getRecommendedContent: w joins the list, which is served; if one on it   *)
(* is left, more content is requested.                                      *)
GetRecommendedContent(w) ==
    /\ state[w] = "asking"
    /\ ServeContent(w, pool, Append(pending, w))
    /\ requests' = IF pending' = <<>> THEN requests ELSE requests \cup {w}
    /\ UNCHANGED <<prefetched, poor>>

(* massageContent: a YouTube video becomes an image, no other video is kept. *)
Massage(answer) ==
    LET kept == Only(answer, {i \in DOMAIN answer : answer[i].type # "video"})
    IN  [i \in DOMAIN kept |->
           IF kept[i].type = "youtube" THEN [kept[i] EXCEPT !.type = "image"] ELSE kept[i]]

(* What an answer may be once it is shuffled. *)
Answers == {s \in BoundedSeq(Contents, MaxAnswer) : IsInjective(s)}

Suitable(q, fresh) == {c.page : c \in ToSet(fresh)} \ {q}

(* An answer: it goes to the front of the pool, which is used from its end, *)
(* and the list is served for q.  Nothing more is requested.                *)
Answered(q, answer) ==
    LET fresh == Massage(answer)
    IN  /\ q \in requests
        /\ requests' = requests \ {q}
        /\ IF q = Prefetch
           THEN pool' = fresh \o pool /\ UNCHANGED <<pending, entries, state, poor>>
           ELSE /\ ServeContent(q, fresh \o pool, pending)
                /\ poor' = (poor \/ Cardinality(Suitable(q, fresh)) < Count)
        /\ UNCHANGED prefetched

(* The request fails, or its answer has a video whose id cannot be found,   *)
(* on which massageContent throws.                                          *)
Failed(q) ==
    /\ q \in requests
    /\ requests' = requests \ {q}
    /\ poor' = (poor \/ q # Prefetch)
    /\ UNCHANGED <<pool, pending, prefetched, entries, state>>

-----------------------------------------------------------------------------
RecNext ==
    \/ \E w \in Widgets : Create(w) \/ SummaryLoaded(w) \/ GetRecommendedContent(w)
    \/ \E q \in requests : Failed(q) \/ \E answer \in Answers : Answered(q, answer)

RecSpec == RecInit /\ [][RecNext]_recVars

TimeoutEnds(w) ==
    state[w] = "asking" /\ state' \in {s \in [Widgets -> States] : s[w] # "asking"}
RequestEnds(q) == q \in requests /\ requests' = requests \ {q}

(* A timeout ends, and a request is answered or fails; a page's data may     *)
(* never come.                                                               *)
RecFairSpec ==
    /\ RecSpec
    /\ \A w \in Widgets : WF_state(TimeoutEnds(w))
    /\ \A q \in Widgets \cup {Prefetch} : WF_requests(RequestEnds(q))

-----------------------------------------------------------------------------
(* What a widget shows leads to as many different pages as it shows         *)
(* contents, and, if it was served in its own turn, away from its own page. *)
(* (In the turn of another, it is the page of the other that is avoided.)   *)
LinksElsewhere ==
    \A w \in Widgets :
        LET pages == {c.page : c \in ToSet(entries[w].shown)}
        IN  /\ Cardinality(pages) = Len(entries[w].shown)
            /\ entries[w].turn = w => w \notin pages

(* As long as no answer fails or has too little for the widget it was       *)
(* requested for, each widget that asks is served: although a request may   *)
(* serve another than the one that sent it, and although what is chosen for *)
(* a widget that cannot be served is thrown away.                           *)
WidgetsServed ==
    \A w \in Widgets : state[w] = "asking" ~> (state[w] = "served" \/ poor)
=============================================================================
