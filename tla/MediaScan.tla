----------------------------- MODULE MediaScan -----------------------------
(***************************************************************************)
(* The images and videos of a page that changes: how the scanner gives     *)
(* them indicators, and how it hears that one was added, removed or given  *)
(* another source.                                                         *)
(*                                                                         *)
(* Scripts of the page change the document; when one is done, the browser  *)
(* delivers what it recorded to the observers, in the order in which they  *)
(* were made, and no other script runs meanwhile.  An observer hears of a  *)
(* change in one call, however many records there are.  A call to          *)
(* scanMedia is a closure that later calls may use: it is known here by    *)
(* its number, and everything that it registers has the same number.       *)
(*                                                                         *)
(* Abstracted: pages, selectors and the active section (every element is   *)
(* media, and inside one while it is in the document); where an indicator  *)
(* is put; what the widget itself adds to the document, which is filtered. *)
(***************************************************************************)
EXTENDS ThrottledEvents, Sequences, SequencesExt

CONSTANTS
    Elements,   \* images and videos
    Sized,      \* those with a width and a height attribute
    Sources,    \* what src may be; an element's hash is that of its source
    Other,      \* a callback on scrolling that is not an indicator's
    MaxScans,   \* bound: no script changes anything once there were as many scans
    MaxRecords  \* bound: records of one kind and one script

ASSUME MediaScanAssumption ==
    /\ IsFiniteSet(Elements) /\ Sized \subseteq Elements /\ Other \notin Nat
    /\ MaxScans \in Nat /\ MaxRecords \in Nat /\ MaxLists \in Nat /\ MaxLists > 1

VARIABLES
    inDocument, \* elements that are in the document
    src,        \* their sources
    added,      \* records of the observer of additions
    removed,    \* records of the observer of removals
    changes,    \* records of each observer of attributes, by number
    removalsFirst, \* the observer of removals is the older one
    delivering, \* the browser is delivering records
    scans,      \* the calls to scanMedia: the element, its hash, whether there is an indicator
    live,       \* indicators that were not torn down
    watching,   \* attribute observers that are connected
    removers,   \* one-time removal listeners
    found,      \* HashedElements
    throttle,   \* ThrottledEvents
    unheard,    \* history: callbacks registered at a scroll and not called since
    scanned,    \* history: elements scanned in this delivery
    astray      \* history: elements that the code has lost track of, see OneIndicator

document == <<inDocument, src>>
records == <<added, removed, changes>>
indicators == <<scans, live, watching, removers, found>>
vars == <<document, records, removalsFirst, delivering, indicators, throttle, unheard,
          scanned, astray>>

-----------------------------------------------------------------------------
Scan == [el : Elements, hash : Sources, shown : BOOLEAN]

TypeOK ==
    /\ inDocument \subseteq Elements
    /\ src \in [Elements -> Sources]
    /\ added \in Seq(Elements) /\ removed \in Seq(Elements)
    /\ removalsFirst \in BOOLEAN /\ delivering \in BOOLEAN
    /\ scans \in Seq(Scan)
    /\ DOMAIN changes = DOMAIN scans
    /\ \A n \in DOMAIN scans : changes[n] \in 0..MaxRecords
    /\ live \subseteq removers
    /\ removers \subseteq {n \in DOMAIN scans : scans[n].shown}
    /\ watching \subseteq DOMAIN scans
    /\ found \subseteq Sources \X Elements
    /\ IsThrottle(throttle, live \cup {Other})
    /\ live \subseteq Registered(throttle)
    /\ unheard \subseteq Registered(throttle)
    /\ scanned \subseteq Elements /\ astray \subseteq Elements

(* The first scan of the page delivers, as it were, all that is there. *)
Init ==
    /\ inDocument \in SUBSET Elements
    /\ src \in [Elements -> Sources]
    /\ added = SetToSeq(inDocument)
    /\ removed = <<>>
    /\ changes = <<>>
    /\ removalsFirst \in BOOLEAN
    /\ delivering = TRUE
    /\ scans = <<>>
    /\ live = {} /\ watching = {} /\ removers = {} /\ found = {}
    /\ throttle = NoThrottle
    /\ unheard = {}
    /\ scanned = {} /\ astray = {}

-----------------------------------------------------------------------------
(* removeElement and teardown for the closures ns of element e. *)
Without(map, e, ns) == map \ {<<scans[n].hash, e>> : n \in ns}

(* scanMedia: if e is big enough there is an indicator, with a callback on  *)
(* scrolling and a listener for its removal; e's attributes are observed in *)
(* any case.  rest is what is left of the former closures.                  *)
ScanMedia(e, big, rest) ==
    LET n == Len(scans) + 1
        new == IF big THEN {n} ELSE {}
    IN  /\ big \in (IF e \in Sized THEN {TRUE} ELSE IF e \in inDocument THEN BOOLEAN ELSE {FALSE})
        /\ scans' = Append(scans, [el |-> e, hash |-> src[e], shown |-> big])
        /\ live' = rest.live \cup new
        /\ watching' = rest.watching \cup {n}
        /\ removers' = removers \cup new
        /\ found' = rest.found \cup (IF big THEN {<<src[e], e>>} ELSE {})
        /\ throttle' = IF big THEN On(Off(throttle, live \ rest.live), n)
                       ELSE Off(throttle, live \ rest.live)
        /\ unheard' = unheard \ (live \ rest.live)
        /\ scanned' = scanned \cup {e}

Kept == [live |-> live, watching |-> watching, found |-> found]

(* elementsAdded: an added element that is still there is scanned. *)
DeliverAddition ==
    /\ delivering /\ added # <<>>
    /\ removalsFirst => removed = <<>>
    /\ added' = Tail(added)
    /\ LET e == Head(added)
       IN  IF e \in inDocument
           THEN /\ \E big \in BOOLEAN : ScanMedia(e, big, Kept)
                /\ changes' = Append(changes, 0)
                /\ astray' = IF e \in scanned \cup ToSet(removed) THEN astray \cup {e} ELSE astray
           ELSE UNCHANGED <<indicators, changes, throttle, unheard, scanned, astray>>
    /\ UNCHANGED <<document, removed, removalsFirst, delivering>>

(* Mutant: the callbacks of what is torn down stay on the list. *)
DeliverRemovalHeard ==
    /\ delivering /\ removed # <<>>
    /\ ~removalsFirst => added = <<>>
    /\ removed' = Tail(removed)
    /\ LET e == Head(removed)
           called == {n \in removers : scans[n].el = e}
       IN  /\ removers' = removers \ called
           /\ found' = Without(found, e, called)
           /\ live' = live \ called
    /\ UNCHANGED <<document, added, changes, removalsFirst, delivering, scans, watching, throttle,
                   unheard, scanned, astray>>

(* The one-time removal listeners of an element that was removed: its       *)
(* indicators are torn down.  Its attributes are observed as before.        *)
DeliverRemoval ==
    /\ delivering /\ removed # <<>>
    /\ ~removalsFirst => added = <<>>
    /\ removed' = Tail(removed)
    /\ LET e == Head(removed)
           called == {n \in removers : scans[n].el = e}
       IN  /\ removers' = removers \ called
           /\ found' = Without(found, e, called)
           /\ live' = live \ called
           /\ throttle' = Off(throttle, called)
           /\ unheard' = unheard \ called
    /\ UNCHANGED <<document, added, changes, removalsFirst, delivering, scans, watching,
                   scanned, astray>>

(* Mutant: scans again, and the former indicator stays. *)
DeliverChangeKeeps ==
    /\ delivering /\ added = <<>> /\ removed = <<>>
    /\ LET told == {m \in DOMAIN changes : changes[m] > 0}
           n == Min(told)
           e == scans[n].el
       IN  /\ told # {}
           /\ \E big \in BOOLEAN :
                ScanMedia(e, big, [live |-> live, watching |-> watching \ {n}, found |-> found])
           /\ changes' = Append([changes EXCEPT ![n] = @ - 1], 0)
           /\ astray' = IF e \in scanned \/ e \notin inDocument THEN astray \cup {e} ELSE astray
    /\ UNCHANGED <<document, added, removed, removalsFirst, delivering>>

(* One call of a one-time attribute listener: what its closure knows of is  *)
(* removed, and the element is scanned again.  The observer is disconnected *)
(* after the call, but is called again for each record that it was given.   *)
DeliverChange ==
    /\ delivering /\ added = <<>> /\ removed = <<>>
    /\ LET told == {m \in DOMAIN changes : changes[m] > 0}
           n == Min(told)
           e == scans[n].el
       IN  /\ told # {}
           /\ \E big \in BOOLEAN :
                ScanMedia(e, big, [live |-> live \ {n},
                                   watching |-> watching \ {n},
                                   found |-> IF scans[n].shown THEN Without(found, e, {n}) ELSE found])
           /\ changes' = Append([changes EXCEPT ![n] = @ - 1], 0)
           /\ astray' = IF e \in scanned \/ e \notin inDocument THEN astray \cup {e} ELSE astray
    /\ UNCHANGED <<document, added, removed, removalsFirst, delivering>>

(* Everything is delivered: timers and scripts may run. *)
Delivered ==
    /\ delivering /\ added = <<>> /\ removed = <<>>
    /\ \A n \in DOMAIN changes : changes[n] = 0
    /\ delivering' = FALSE
    /\ scanned' = {}
    /\ UNCHANGED <<document, records, removalsFirst, indicators, throttle, unheard, astray>>

-----------------------------------------------------------------------------
ScriptRuns == ~delivering /\ Len(scans) < MaxScans

(* A script of the page puts an element into the document. *)
InsertElement(e) ==
    /\ ScriptRuns /\ e \notin inDocument /\ Len(added) < MaxRecords
    /\ inDocument' = inDocument \cup {e}
    /\ added' = Append(added, e)
    /\ UNCHANGED <<src, removed, changes, removalsFirst, delivering, indicators, throttle, unheard,
                   scanned, astray>>

RemoveElement(e) ==
    /\ ScriptRuns /\ e \in inDocument /\ Len(removed) < MaxRecords
    /\ inDocument' = inDocument \ {e}
    /\ removed' = Append(removed, e)
    /\ UNCHANGED <<src, added, changes, removalsFirst, delivering, indicators, throttle, unheard,
                   scanned, astray>>

(* It sets an attribute that is observed; the source may change with it. *)
SetAttribute(e, source) ==
    LET told == {n \in watching : scans[n].el = e}
    IN  /\ ScriptRuns
        /\ \A n \in told : changes[n] < MaxRecords
        /\ src' = [src EXCEPT ![e] = source]
        /\ changes' = [n \in DOMAIN changes |-> IF n \in told THEN changes[n] + 1 ELSE changes[n]]
        /\ UNCHANGED <<inDocument, added, removed, removalsFirst, delivering, indicators, throttle,
                       unheard, scanned, astray>>

(* The script is done. *)
Deliver ==
    /\ ~delivering
    /\ added # <<>> \/ removed # <<>> \/ \E n \in DOMAIN changes : changes[n] > 0
    /\ delivering' = TRUE
    /\ UNCHANGED <<document, records, removalsFirst, indicators, throttle, unheard, scanned, astray>>

(* antenna.reinitialize, or a page of another location: all widgets are     *)
(* torn down, the map emptied and the observers disconnected with what they *)
(* were to be told, and the page is scanned again.  Which observer is made  *)
(* first depends on whether the page has media.                             *)
Reinitialize ==
    /\ ScriptRuns
    /\ live' = {} /\ found' = {} /\ removers' = {} /\ watching' = {}
    /\ changes' = [n \in DOMAIN changes |-> 0]
    /\ throttle' = Off(throttle, live)
    /\ unheard' = unheard \ live
    /\ added' = SetToSeq(inDocument)
    /\ removed' = <<>>
    /\ removalsFirst' \in BOOLEAN
    /\ delivering' = TRUE
    /\ scanned' = {} /\ astray' = {}
    /\ UNCHANGED <<document, scans>>

-----------------------------------------------------------------------------
Resting == ~delivering /\ UNCHANGED <<document, records, removalsFirst, delivering, indicators,
                                      scanned, astray>>

(* The visitor scrolls.  (Bound: a list is left for indicators to come.) *)
Scroll ==
    /\ Resting
    /\ Idle(throttle) # {}
    /\ throttle' = HandleEvent(throttle)
    /\ unheard' = unheard \cup Registered(throttle)

(* The 66 ms of a list are over: positionIfNeeded of each indicator, while  *)
(* a handler that has seen what it waited for takes itself off.             *)
Throttled(l) ==
    /\ Resting
    /\ throttle.lists[l].timer
    /\ unheard' = unheard \ throttle.lists[l].callbacks
    /\ \E leaving \in SUBSET (throttle.lists[l].callbacks \cap {Other}) :
         throttle' = TimerEnded(throttle, l, leaving)

(* loadWhenVisible, or the content recommendations' handler. *)
OtherComes ==
    /\ Resting
    /\ Other \notin Registered(throttle)
    /\ throttle' = On(throttle, Other)
    /\ UNCHANGED unheard

-----------------------------------------------------------------------------
Delivery == DeliverAddition \/ DeliverRemoval \/ DeliverChange \/ Delivered

Next ==
    \/ Delivery
    \/ \E e \in Elements : InsertElement(e) \/ RemoveElement(e) \/ \E s \in Sources : SetAttribute(e, s)
    \/ Deliver
    \/ Reinitialize
    \/ Scroll
    \/ \E l \in 1..MaxLists : Throttled(l)
    \/ OtherComes

Spec == Init /\ [][Next]_vars

(* Scripts end and records are delivered.  A timer that is due is not       *)
(* starved by scripts, though it has to wait for each delivery: the browser *)
(* takes tasks in turn.                                                     *)
FairSpec ==
    /\ Spec
    /\ WF_<<records, delivering>>(Delivery)
    /\ WF_delivering(Deliver)
    /\ \A l \in 1..MaxLists : SF_throttle(Throttled(l))

-----------------------------------------------------------------------------
(* Between scripts, an element has one indicator if it is in the document   *)
(* and was big enough when it was scanned last, and none otherwise; the map *)
(* from hashes to elements agrees, with the hash of the source that the     *)
(* element has now; and one observer waits for its next change.  What goes  *)
(* astray until the page is initialised again is what is scanned twice in   *)
(* one delivery (a listener that is called for each of several records, two *)
(* listeners of an element that was taken out and put back), what is        *)
(* scanned and then removed by a record of the same delivery (it was moved),*)
(* and what changes while it is out of the document.                        *)
OneIndicator ==
    ~delivering /\ added = <<>> /\ removed = <<>> /\ (\A n \in DOMAIN changes : changes[n] = 0) =>
        \A e \in Elements \ astray :
            LET mine == {n \in DOMAIN scans : scans[n].el = e}
                due == IF e \in inDocument /\ mine # {} /\ scans[Max(mine)].shown
                       THEN {Max(mine)} ELSE {}
            IN  /\ live \cap mine = due
                /\ {h \in Sources : <<h, e>> \in found} = {scans[n].hash : n \in due}
                /\ due # {} => src[e] = scans[Max(mine)].hash
                /\ e \in inDocument => mine \cap watching # {}

(* An indicator that is there when the visitor scrolls is positioned anew,  *)
(* or torn down: although the list it is on may be dropped and another one  *)
(* be made while the timer of the first is running.                         *)
ScrollHeard ==
    \A n \in 1..(MaxScans + 1) \cup {Other} : n \in unheard ~> n \notin unheard
=============================================================================
