----------------------------- MODULE PageRegistry -----------------------------
(***************************************************************************)
(* Which data object belongs to which page.  Widgets are created and bound  *)
(* to a page data object before the server has told the page's hash, so the *)
(* object is kept under the page's URL first and moved to its hash when the *)
(* response comes (page-data.js); the map from hashes to DOM elements moves *)
(* with it (hashed-elements.js).  Page elements and text come and go with   *)
(* the host page's mutations (page-scanner.js), and single page apps make   *)
(* everything start anew (reinitializer.js).                                *)
(*                                                                          *)
(* URLs are 1..NUrls and hashes the numbers that follow; both are keys of   *)
(* the same maps.  Objects are named by rank.  All text is alike, so that   *)
(* computeHash tells texts apart by its increment alone.                    *)
(***************************************************************************)
EXTENDS Naturals, FiniteSets, FiniteSetsExt

CONSTANTS
    NUrls,         \* URLs that the pages can have
    HashOf,        \* the hash the server computes for each URL
    NPages,        \* page elements
    FirstUrl,      \* the URL of each page element at first
    FirstPages,    \* the page elements there are at first
    NTexts,        \* text elements that the host page adds and removes
    Extensions,    \* pairs of URLs of which the second extends the first
    Hosts,         \* the kinds of host page: "pages" (a blog) or "app"
    MaxObjects,    \* bound: page data objects
    MaxLoads       \* bound: requests for one URL in flight

Urls == 1..NUrls
Keys == Urls \cup {HashOf[u] : u \in Urls}
Pages == 1..NPages
Texts == 1..NTexts
Objects == 1..MaxObjects
None == 0

ASSUME ConstantsAssumption ==
    /\ NUrls \in Nat /\ NPages \in Nat \ {0} /\ NTexts \in Nat
    /\ MaxObjects \in Nat /\ MaxLoads \in Nat \ {0}
    /\ HashOf \in [Urls -> Nat \ (Urls \cup {None})]
    /\ FirstUrl \in [Pages -> Urls] /\ FirstPages \subseteq Pages
    /\ Extensions \subseteq Urls \X Urls
    /\ Hosts \subseteq {"pages", "app"}

VARIABLES
    host,         \* rigid: the kind of host page; only an app changes its URL,
                  \* and only the other adds page elements
    pages,        \* page-data.js: the object under each key
    urlHashes,    \* page-data.js: the hash of each URL the server has answered
    pageHash,     \* the pageHash field of each object
    summaryLoaded,\* the objects that have the server's data
    issued,       \* objects created so far
    elements,     \* hashed-elements.js: the text elements under each key
    increment,    \* the hash of each text element: how often computeHash tried again
    owner,        \* the object each text element's widgets are bound to
    bound,        \* the object each page element's widgets are bound to
    present,      \* the page elements in the document
    urlOf,        \* the URL computePageUrl gives for each page element
    notInView,    \* page elements that load when the reader scrolls to them
    loads,        \* requests for page data in flight
    failed,       \* history: URLs a request for which has failed
    couldBeSinglePageApp,
    original      \* the location at the last scan

registry == <<pages, urlHashes, pageHash, summaryLoaded, issued>>
texts == <<elements, increment, owner>>
document == <<present, urlOf>>
network == <<notInView, loads, failed>>
app == <<couldBeSinglePageApp, original>>
vars == <<host, registry, texts, bound, document, network, app>>

TypeOK ==
    /\ host \in Hosts
    /\ pages \in [Keys -> 0..issued]
    /\ urlHashes \in [Urls -> Keys \cup {None}]
    /\ pageHash \in [Objects -> Keys \cup {None}]
    /\ summaryLoaded \subseteq 1..issued
    /\ issued \in 0..MaxObjects
    /\ elements \in [Keys -> SUBSET Texts]
    /\ increment \in [Texts -> 0..NTexts]
    /\ owner \in [Texts -> 0..issued]
    /\ bound \in [Pages -> 0..issued]
    /\ present \subseteq Pages
    /\ urlOf \in [Pages -> Urls]
    /\ notInView \subseteq Pages
    /\ loads \in [Urls -> 0..MaxLoads]
    /\ failed \subseteq Urls
    /\ couldBeSinglePageApp \in BOOLEAN
    /\ original \in Urls

\* The first page element stands for the body, whose URL is the location.
Location == urlOf[1]
InDocument(t) == owner[t] # None

-----------------------------------------------------------------------------
(* Looking up and creating page data                                        *)

\* getPageDataByURL: the server's hash, or the URL for want of it.
KeyOf(hashes, u) == IF hashes[u] = None THEN u ELSE hashes[u]

\* The objects that getPageData creates for the keys that have none.
Created(reg, keys) ==
    LET missing == {k \in keys : reg[k] = None} IN
    [k \in missing |-> issued + Cardinality({j \in missing : j <= k})]

\* getPageDataByURL for a set of URLs, from the given maps.
Register(reg, hashes, us) ==
    LET new == Created(reg, {KeyOf(hashes, u) : u \in us}) IN
    /\ issued + Cardinality(DOMAIN new) <= MaxObjects
    /\ issued' = issued + Cardinality(DOMAIN new)
    /\ pages' = [k \in Keys |-> IF k \in DOMAIN new THEN new[k] ELSE reg[k]]
    /\ pageHash' = [o \in Objects |->
                       IF \E k \in DOMAIN new : new[k] = o
                       THEN CHOOSE k \in DOMAIN new : new[k] = o ELSE pageHash[o]]

\* startLoadingPageData or pagesAdded, for the given page elements: each loads
\* at once or when the reader comes near.  The body of an app is always in view.
Load(ps) ==
    \E later \in SUBSET (IF host = "app" THEN {} ELSE ps) :
        /\ notInView' = notInView \cup later
        /\ LET now == {urlOf[p] : p \in ps \ later} IN
           /\ \A u \in now : loads[u] < MaxLoads
           /\ loads' = [u \in Urls |-> IF u \in now THEN loads[u] + 1 ELSE loads[u]]

-----------------------------------------------------------------------------
(* Scanning                                                                 *)

Init ==
    /\ host \in Hosts
    /\ pages = [k \in Keys |-> None]
    /\ urlHashes = [u \in Urls |-> None]
    /\ pageHash = [o \in Objects |-> None]
    /\ summaryLoaded = {} /\ issued = 0
    /\ elements = [k \in Keys |-> {}]
    /\ increment = [t \in Texts |-> 0]
    /\ owner = [t \in Texts |-> None]
    /\ bound = [p \in Pages |-> None]
    /\ present = FirstPages /\ urlOf = FirstUrl
    /\ notInView = {} /\ loads = [u \in Urls |-> 0] /\ failed = {}
    /\ couldBeSinglePageApp = TRUE
    /\ original = FirstUrl[1]

\* PageScanner.scan over the whole document, from empty maps: pages first,
\* then the text in them, in document order.
ScanDocument(hashes, textsOf) ==
    /\ Register([k \in Keys |-> None], hashes, {urlOf[p] : p \in present})
    /\ bound' = [p \in Pages |->
                    IF p \in present THEN pages'[KeyOf(hashes, urlOf[p])] ELSE None]
    /\ owner' = [t \in Texts |-> IF textsOf[t] = None THEN None ELSE bound'[textsOf[t]]]
    /\ elements' = [k \in Keys |->
                       {t \in Texts : owner'[t] # None /\ pageHash'[owner'[t]] = k}]
    /\ increment' = [t \in Texts |->
                        IF owner'[t] = None THEN 0
                        ELSE Cardinality({s \in Texts : s < t /\ owner'[s] = owner'[t]})]
    /\ couldBeSinglePageApp' = TRUE
    /\ original' = Location

\* antenna-app.js: fetch the page data, then scan the page.
Start ==
    /\ issued = 0
    /\ Load(present)
    /\ ScanDocument(urlHashes, [t \in Texts |-> None])
    /\ UNCHANGED <<host, urlHashes, summaryLoaded, document, failed>>

\* elementsAdded, for an element that contains a whole page.
PageAdded(p) ==
    /\ host = "pages"
    /\ issued > 0
    /\ p \notin present
    /\ present' = present \cup {p}
    /\ Load({p})
    /\ Register(pages, urlHashes, {urlOf[p]})
    /\ bound' = [bound EXCEPT ![p] = pages'[KeyOf(urlHashes, urlOf[p])]]
    /\ couldBeSinglePageApp' = FALSE
    /\ UNCHANGED <<host, urlHashes, summaryLoaded, texts, urlOf, failed, original>>

\* shouldReinitializeForLocationChange
ShouldReinitialize ==
    couldBeSinglePageApp /\ Location # original /\ <<original, Location>> \notin Extensions

\* Reinitializer.reinitialize: everything is torn down, requested and scanned
\* again, the text just added included; requests in flight, and page elements
\* that wait for the reader, are left alone.
Reinitialize(t) ==
    /\ ShouldReinitialize
    /\ Load(present)
    /\ urlHashes' = [u \in Urls |-> None]
    /\ ScanDocument(urlHashes', [s \in Texts |-> IF s = t \/ InDocument(s) THEN 1 ELSE None])
    /\ UNCHANGED <<host, summaryLoaded, document, failed>>

\* Mutant: computeHash does not look for another element with the same hash.
HashTextOnce(key) == 0

\* Mutant: computeHash goes on from the last increment.
HashTextNext(key) ==
    IF elements[key] = {} THEN 0 ELSE 1 + Max({increment[s] : s \in elements[key]})

\* computeHash for text: the first increment that no element has.
HashText(key) == Min({n \in 0..NTexts : \A s \in elements[key] : increment[s] # n})

\* elementsAdded, for an element inside a page, scanned for text.
TextAdded(t, p) ==
    /\ issued > 0
    /\ ~InDocument(t)
    /\ p \in present
    /\ \/ Reinitialize(t)
       \/ /\ ~ShouldReinitialize
          /\ Register(pages, urlHashes, {urlOf[p]})
          /\ LET o == pages'[KeyOf(urlHashes, urlOf[p])] IN
             /\ owner' = [owner EXCEPT ![t] = o]
             /\ increment' = [increment EXCEPT ![t] = HashText(pageHash'[o])]
             /\ elements' = [elements EXCEPT ![pageHash'[o]] = @ \cup {t}]
          /\ UNCHANGED <<host, urlHashes, summaryLoaded, bound, document, network, app>>

\* The removal listener of a text element.
TextRemoved(t) ==
    /\ InDocument(t)
    /\ elements' = [elements EXCEPT ![pageHash[owner[t]]] = @ \ {t}]
    /\ owner' = [owner EXCEPT ![t] = None]
    /\ increment' = [increment EXCEPT ![t] = 0]
    /\ UNCHANGED <<host, registry, bound, document, network, app>>

-----------------------------------------------------------------------------
(* Responses                                                                *)

\* Mutant: the map of elements keeps the old key.
PageHashArrivesAlone(u) ==
    LET h == HashOf[u]
        o == IF pages[u] # None THEN pages[u] ELSE pages[h] IN
    /\ o # None \/ issued < MaxObjects
    /\ urlHashes' = [urlHashes EXCEPT ![u] = h]
    /\ pages' = [pages EXCEPT ![h] = IF o # None THEN o ELSE issued + 1, ![u] = None]
    /\ pageHash' = [pageHash EXCEPT ![pages'[h]] = h]
    /\ issued' = IF o # None THEN issued ELSE issued + 1
    /\ UNCHANGED elements

\* Mutant: an object that is bound already is not moved to the hash.
PageHashArrivesAnew(u) ==
    LET h == HashOf[u] IN
    /\ pages[h] # None \/ issued < MaxObjects
    /\ urlHashes' = [urlHashes EXCEPT ![u] = h]
    /\ pages' = [pages EXCEPT ![h] = IF @ # None THEN @ ELSE issued + 1]
    /\ pageHash' = [pageHash EXCEPT ![pages'[h]] = h]
    /\ issued' = IF pages[h] # None THEN issued ELSE issued + 1
    /\ UNCHANGED elements

\* getPageDataForJsonResponse: an object under the requested URL moves to the
\* hash, whatever is there, and the elements under the URL move with it.
PageHashArrives(u) ==
    LET h == HashOf[u] IN
    /\ urlHashes' = [urlHashes EXCEPT ![u] = h]
    /\ \/ /\ pages[u] # None
          /\ pages' = [pages EXCEPT ![h] = pages[u], ![u] = None]
          /\ pageHash' = [pageHash EXCEPT ![pages[u]] = h]
          /\ elements' = [elements EXCEPT ![h] = elements[u], ![u] = {}]
          /\ UNCHANGED issued
       \/ /\ pages[u] = None /\ pages[h] # None
          /\ UNCHANGED <<pages, pageHash, issued, elements>>
       \/ /\ pages[u] = None /\ pages[h] = None
          /\ issued < MaxObjects
          /\ issued' = issued + 1
          /\ pages' = [pages EXCEPT ![h] = issued']
          /\ pageHash' = [pageHash EXCEPT ![issued'] = h]
          /\ UNCHANGED elements

\* updatePageData
ResponseArrives(u) ==
    /\ loads[u] > 0
    /\ loads' = [loads EXCEPT ![u] = @ - 1]
    /\ PageHashArrives(u)
    /\ summaryLoaded' = summaryLoaded \cup {pages'[HashOf[u]]}
    /\ UNCHANGED <<host, increment, owner, bound, document, notInView, failed, app>>

LoadFails(u) ==
    /\ loads[u] > 0
    /\ loads' = [loads EXCEPT ![u] = @ - 1]
    /\ failed' = failed \cup {u}
    /\ UNCHANGED <<host, registry, texts, bound, document, notInView, app>>

\* Mutant: the reader's scrolling stops the listening, and nothing else.
ComesIntoViewUnheard(p) ==
    /\ p \in notInView
    /\ notInView' = notInView \ {p}
    /\ UNCHANGED <<host, registry, texts, bound, document, loads, failed, app>>

\* loadWhenVisible: the URL is computed when the page element comes into view.
ComesIntoView(p) ==
    /\ p \in notInView
    /\ loads[urlOf[p]] < MaxLoads
    /\ notInView' = notInView \ {p}
    /\ loads' = [loads EXCEPT ![urlOf[p]] = @ + 1]
    /\ UNCHANGED <<host, registry, texts, bound, document, failed, app>>

\* A single page app goes to another URL; nobody is told.
HostNavigates(u) ==
    /\ host = "app"
    /\ u # Location
    /\ urlOf' = [urlOf EXCEPT ![1] = u]
    /\ UNCHANGED <<host, registry, texts, bound, present, network, app>>

Next ==
    \/ Start
    \/ \E p \in Pages : PageAdded(p) \/ ComesIntoView(p)
    \/ \E t \in Texts, p \in Pages : TextAdded(t, p)
    \/ \E t \in Texts : TextRemoved(t)
    \/ \E u \in Urls : ResponseArrives(u) \/ LoadFails(u) \/ HostNavigates(u)

Spec == Init /\ [][Next]_vars

-----------------------------------------------------------------------------
(* Properties                                                               *)

\* A look-up of a page element's URL finds the object its widgets show.
Bound(p) ==
    bound[p] # None /\ host = "pages" => pages[KeyOf(urlHashes, urlOf[p])] = bound[p]
Alone(p) == \A u \in Urls : urlHashes[u] = KeyOf(urlHashes, urlOf[p]) => u = urlOf[p]

\* The binding is not broken before or after the server has told the URL's
\* hash, as long as it has told that hash of no other URL (page-data.js:109-
\* 110, 314-322).
BindingKept == \A p \in present : Alone(p) => Bound(p)

\* Every text element in the document is found under the hash of the page
\* data it is bound to, and a removed one is not (hashed-elements.js:54-59).
ElementsFound ==
    \A o \in Objects :
        pageHash[o] # None /\ pages[pageHash[o]] = o
            => elements[pageHash[o]] = {t \in Texts : owner[t] = o}

\* Two texts of one page never share a hash, and so never share reactions
\* (page-scanner.js:442-447).
TextHashesDiffer ==
    \A s, t \in Texts :
        s # t /\ InDocument(s) /\ owner[s] = owner[t] => increment[s] # increment[t]

\* Whatever a text element is bound to has the server's data, or will have it
\* when a request is answered or the reader scrolls (page-data-loader.js:32-
\* 91), unless a request failed.
DataOnItsWay(u) ==
    loads[u] > 0 \/ u \in failed \/ \E p \in notInView : urlOf[p] = u
WidgetsGetData ==
    \A t \in Texts :
        InDocument(t) => \/ owner[t] \in summaryLoaded
                         \/ \E u \in Urls : /\ pages[KeyOf(urlHashes, u)] = owner[t]
                                            /\ DataOnItsWay(u)
=============================================================================
