-------------------------- MODULE ReactionsWindow --------------------------
(***************************************************************************)
(* A reactions window: the pages that slide over one another in it, the    *)
(* requests that decide which page is shown, logging in and trying again,  *)
(* going back, and the closing of the window with answers still to come.   *)
(*                                                                         *)
(* A page is shown in three steps that belong to the browser: a timer of   *)
(* 1 ms, a timer of 20 ms that toggles a class, and the end of the CSS     *)
(* transition, whose callback clears away what was there before.  Timers   *)
(* of one length fire in the order they were set.  Taps and answers come   *)
(* between any two steps.                                                  *)
(*                                                                         *)
(* Abstracted: one window at a time (opening one closes the others, and    *)
(* does so before it shows anything); z-indexes, sizes and titles; what a  *)
(* login does (UserSession) and what a request does to counts (PageCounts).*)
(***************************************************************************)
EXTENDS Naturals, Sequences, SequencesExt

CONSTANTS
    MaxPages,       \* bound: pages that a window is given
    MaxCalls,       \* bound: reactions made and locations asked for
    MaxPosts,       \* bound: requests that are sent, retries included
    MaxWindows      \* bound: windows that are opened

ASSUME ReactionsWindowAssumption ==
    /\ MaxPages \in Nat /\ MaxPages > 1
    /\ MaxCalls \in Nat /\ MaxPosts \in Nat
    /\ MaxWindows \in Nat /\ MaxWindows > 0

VARIABLES
    win,        \* "open", "fading" or "gone"
    window,     \* which window it is, by number
    pages,      \* the pages it has, in order of creation
    below,      \* the z-order: which selectors are below a selector
    shows,      \* selectors of the 1 ms timers
    toggles,    \* the 20 ms timers
    handlers,   \* listeners for the end of a transition
    calls,      \* what the visitor has asked for
    posts,      \* requests sent so far
    returning,  \* calls whose login is over, but for its callback
    known,      \* the page's reactions: 0 is an old one, the others are calls
    located,    \* those that pageData.locationData was computed for, {} if it was not
    top,        \* history: the page that was shown last
    overtaken,  \* history: a page was pushed while one went back, or moved that it is like,
                \* or the visitor went back, or to the progress page, while pages moved
    stuck       \* history: a request for which the code shows nothing more

view == <<pages, below, shows, toggles, handlers, top, overtaken>>
data == <<returning, known, located>>
vars == <<win, window, view, calls, posts, data, stuck>>

-----------------------------------------------------------------------------
Progress == 1
Reactions == 2
Selectors == {"progress", "reactions", "confirmation", "pending", "locations",
              "login", "blocked", "error"}
Page == [sel : Selectors, active : BOOLEAN, animate : BOOLEAN, moving : BOOLEAN,
         login : {"no", "asking", "window", "left"}, call : 0..MaxCalls]
Handler == [on : SUBSET (1..MaxPages), back : BOOLEAN, current : SUBSET (1..MaxPages)]
Call == [kind : {"plusOne", "default", "custom", "locations"}, window : 1..MaxWindows,
         out : 0..MaxPosts, result : {"none", "accepted", "refused"}]

TypeOK ==
    /\ win \in {"open", "fading", "gone"}
    /\ window \in 1..MaxWindows
    /\ pages \in Seq(Page) /\ Len(pages) \in 2..MaxPages
    /\ win = "gone" => Len(pages) = 2
    /\ \A e \in DOMAIN pages : pages[e].login # "no" <=> pages[e].sel = "login"
    /\ below \in [Selectors -> SUBSET Selectors] /\ shows \in Seq(Selectors)
    /\ toggles \in Seq([on : SUBSET (1..MaxPages), active : BOOLEAN])
    /\ handlers \subseteq Handler
    /\ calls \in Seq(Call) /\ Len(calls) <= MaxCalls
    /\ posts \in 0..MaxPosts
    /\ returning \subseteq DOMAIN calls
    /\ known \subseteq 0..MaxCalls /\ located \subseteq known
    /\ top \in Selectors
    /\ overtaken \in BOOLEAN /\ stuck \in BOOLEAN

NewPage(sel, c) ==
    [sel |-> sel, active |-> FALSE, animate |-> TRUE, moving |-> FALSE,
     login |-> IF sel = "login" THEN "asking" ELSE "no", call |-> c]
FirstPages ==
    <<[NewPage("progress", 0) EXCEPT !.animate = FALSE],
      [NewPage("reactions", 0) EXCEPT !.animate = FALSE, !.active = TRUE]>>
FirstBelow ==
    [s \in Selectors |-> IF s = "reactions" THEN Selectors \ {s}
                         ELSE IF s = "progress" THEN Selectors \ {s, "reactions"} ELSE {}]

Init ==
    /\ win = "open" /\ window = 1
    /\ pages = FirstPages /\ below = FirstBelow
    /\ shows = <<>> /\ toggles = <<>> /\ handlers = {}
    /\ calls = <<>> /\ posts = 0
    /\ returning = {} /\ known = {0} /\ located = {}
    /\ top = "reactions" /\ overtaken = FALSE /\ stuck = FALSE

Active == {e \in DOMAIN pages : pages[e].active}
Find(sel) == {e \in DOMAIN pages : pages[e].sel = sel}
Moving == shows # <<>> \/ toggles # <<>> \/ \E e \in DOMAIN pages : pages[e].moving
OnTop(sel) == [s \in Selectors |-> IF s = sel THEN Selectors \ {sel} ELSE below[s] \ {sel}]
ReactionsUnder(sel) ==
    IF sel = "reactions" THEN below
    ELSE [s \in Selectors |->
             IF s = "reactions" THEN below[sel] \ {s}
             ELSE IF s = sel \/ sel \in below[s] THEN below[s] \cup {"reactions"}
             ELSE below[s] \ {"reactions"}]
GoingBack == \E h \in handlers : h.back

(* addClass and removeClass: where the page animates, a transition begins. *)
Activated(p, on, active) ==
    [e \in DOMAIN p |->
        IF e \in on /\ p[e].active # active
        THEN [p[e] EXCEPT !.active = active, !.moving = @ \/ p[e].animate]
        ELSE p[e]]

-----------------------------------------------------------------------------
(* Showing pages                                                            *)

(* The show...Page functions: the page is created, and shown 1 ms later. *)
Push(sel, c) ==
    /\ Len(pages) < MaxPages
    /\ pages' = Append(pages, NewPage(sel, c))
    /\ shows' = Append(shows, sel)
    /\ top' = sel
    /\ overtaken' = (overtaken \/ GoingBack \/ (Moving /\ Find(sel) # {}))
    /\ UNCHANGED <<below, toggles, handlers>>

(* An answer to a window that has gone is shown on what was torn down. *)
PushFor(c, sel) ==
    IF calls[c].window = window /\ win # "gone" THEN Push(sel, c) ELSE UNCHANGED view

(* showPage, with animate.  A page that was torn down meanwhile is not found. *)
Show ==
    /\ shows # <<>>
    /\ shows' = Tail(shows)
    /\ LET on == Find(Head(shows)) IN
       IF on = {} THEN UNCHANGED <<pages, below, handlers, toggles>>
       ELSE /\ pages' = [e \in DOMAIN pages |->
                            IF e \in on THEN [pages[e] EXCEPT !.animate = TRUE] ELSE pages[e]]
            /\ below' = OnTop(Head(shows))
            /\ handlers' = handlers \cup {[on |-> on, back |-> FALSE, current |-> Active \ on]}
            /\ toggles' = Append(toggles, [on |-> on, active |-> TRUE])
    /\ UNCHANGED <<win, window, calls, posts, data, top, overtaken, stuck>>

(* showPage of the progress page: an overlay.  It waits for call c, 0 if the *)
(* call was not made.                                                       *)
Overlay(c) ==
    /\ pages' = [pages EXCEPT ![Progress].active = TRUE, ![Progress].animate = FALSE,
                             ![Progress].call = c]
    /\ top' = "progress"
    /\ below' = OnTop("progress")
    /\ overtaken' = (overtaken \/ Moving)
    /\ UNCHANGED <<shows, toggles, handlers>>

Toggle ==
    /\ toggles # <<>>
    /\ pages' = Activated(pages, Head(toggles).on, Head(toggles).active)
    /\ toggles' = Tail(toggles)
    /\ UNCHANGED <<win, window, below, shows, handlers, calls, posts, data, top, overtaken, stuck>>

(* Teardown of the pages that were pushed.  It closes a page's login        *)
(* window; another page that had the same window finds it closed, as if the *)
(* visitor had done so.                                                     *)
Kept == {Progress, Reactions}
Windowed == {e \in DOMAIN pages : pages[e].login = "window"}
NotCancelled == {pages[e].call : e \in {f \in Windowed : f # Min(Windowed)}}
Without(hs) == {h \in {[g EXCEPT !.on = @ \cap Kept, !.current = @ \cap Kept] : g \in hs} : h.on # {}}

(* The end of a page's transition: the callbacks of showPage and            *)
(* goBackToPage, which tears down the pages but does not take them off the  *)
(* window's list; they are torn down once more on closing, to no effect.    *)
TransitionEnd(e) ==
    /\ pages[e].moving
    /\ LET heard == {h \in handlers : e \in h.on}
           off   == UNION {h.on : h \in heard}
           left  == {[h EXCEPT !.on = @ \ off] : h \in {g \in handlers : ~(g.on \subseteq off)}}
           still == [pages EXCEPT ![e].moving = FALSE]
           shown == Activated(still, UNION {h.current : h \in heard}, FALSE)
       IN  IF \E h \in heard : h.back
           THEN /\ pages' = SubSeq(Activated(shown, {Progress}, FALSE), 1, 2)
                /\ handlers' = Without(left)
                /\ toggles' = [i \in DOMAIN toggles |-> [toggles[i] EXCEPT !.on = @ \cap Kept]]
                /\ returning' = returning \cup NotCancelled
                /\ below' = OnTop("reactions")
           ELSE /\ pages' = shown
                /\ handlers' = left
                /\ UNCHANGED <<toggles, returning, below>>
    /\ UNCHANGED <<win, window, shows, calls, posts, known, located, top, overtaken, stuck>>

-----------------------------------------------------------------------------
(* The visitor                                                              *)

(* A page can be tapped while it is in sight, at rest or moving. *)
Tappable(e) ==
    /\ win # "gone"
    /\ (pages[e].active \/ pages[e].moving)
    /\ \A f \in Active : pages[f].moving \/ pages[e].sel \notin below[pages[f].sel]

NewCall(kind) ==
    /\ Len(calls) < MaxCalls /\ posts < MaxPosts
    /\ calls' = Append(calls, [kind |-> kind, window |-> window, out |-> 1, result |-> "none"])
    /\ posts' = posts + 1

(* plusOne and newDefaultReaction: the confirmation does not wait. *)
React(kind) ==
    /\ Tappable(Reactions)
    /\ NewCall(kind)
    /\ Push("confirmation", Len(calls) + 1)
    /\ UNCHANGED <<win, window, data, stuck>>

NewCustomReaction ==
    /\ Tappable(Reactions)
    /\ NewCall("custom")
    /\ Overlay(Len(calls) + 1)
    /\ UNCHANGED <<win, window, data, stuck>>

(* showLocations, of a reaction the window was opened with.  Locations are  *)
(* computed once; asking for those of a later reaction throws.              *)
ShowLocations(r) ==
    /\ Tappable(Reactions)
    /\ r \in known /\ (r # 0 => calls[r].window < window)
    /\ located' = IF located = {} THEN known ELSE located
    /\ IF r \in located' THEN Overlay(Len(calls) + 1) /\ NewCall("locations") /\ UNCHANGED stuck
       ELSE Overlay(0) /\ stuck' = TRUE /\ UNCHANGED <<calls, posts>>
    /\ UNCHANGED <<win, window, returning, known>>

(* Mutant: the target is not moved into place. *)
GoBackAway(e) ==
    /\ Tappable(e)
    /\ pages[e].sel \in {"login", "blocked", "error", "locations"}
    /\ pages' = [f \in DOMAIN pages |->
                    IF f \in Active THEN [pages[f] EXCEPT !.animate = TRUE] ELSE pages[f]]
    /\ handlers' = handlers \cup {[on |-> Active, back |-> TRUE, current |-> {}]}
    /\ toggles' = Append(toggles, [on |-> Active, active |-> FALSE])
    /\ top' = "reactions"
    /\ overtaken' = (overtaken \/ Moving)
    /\ UNCHANGED <<win, window, below, shows, calls, posts, data, stuck>>

(* goBackToPage, from a page that has a way back. *)
GoBack(e) ==
    /\ Tappable(e)
    /\ pages[e].sel \in {"login", "blocked", "error", "locations"}
    /\ pages' = [f \in DOMAIN pages |->
                    CASE f \in Active /\ f # Reactions -> [pages[f] EXCEPT !.animate = TRUE]
                      [] f = Reactions -> [pages[f] EXCEPT !.active = TRUE, !.animate = f \in Active]
                      [] OTHER -> pages[f]]
    /\ handlers' = handlers \cup {[on |-> Active, back |-> TRUE, current |-> {}]}
    /\ toggles' = Append(toggles, [on |-> Active, active |-> FALSE])
    /\ below' = IF Active = {} THEN below ELSE ReactionsUnder(pages[Min(Active)].sel)
    /\ top' = "reactions"
    /\ overtaken' = (overtaken \/ Moving)
    /\ UNCHANGED <<win, window, shows, calls, posts, data, stuck>>

-----------------------------------------------------------------------------
(* Logging in                                                               *)

LoginAt(e, from) == Tappable(e) /\ pages[e].login = from

OpenLoginWindow(e) ==
    /\ LoginAt(e, "asking")
    /\ pages' = [pages EXCEPT ![e].login = "window"]
    /\ UNCHANGED <<win, window, below, shows, toggles, handlers, calls, posts, data, top, overtaken, stuck>>

FacebookLogin(e) ==
    /\ LoginAt(e, "asking")
    /\ pages' = [pages EXCEPT ![e].login = "left"]
    /\ returning' = returning \cup {pages[e].call}
    /\ UNCHANGED <<win, window, below, shows, toggles, handlers, calls, posts, known, located, top, overtaken,
                   stuck>>

LoginWindowCloses ==
    /\ Windowed # {}
    /\ returning' = returning \cup {pages[e].call : e \in Windowed}
    /\ pages' = [e \in DOMAIN pages |->
                    IF e \in Windowed THEN [pages[e] EXCEPT !.login = "left"] ELSE pages[e]]
    /\ UNCHANGED <<win, window, below, shows, toggles, handlers, calls, posts, known, located, top, overtaken,
                   stuck>>

Retry(c) ==
    /\ posts < MaxPosts
    /\ posts' = posts + 1
    /\ calls' = [calls EXCEPT ![c].out = @ + 1]
    /\ UNCHANGED <<win, window, view, known, located, stuck>>

LoginReturns(c) == c \in returning /\ returning' = returning \ {c} /\ Retry(c)

RetryTapped(e) ==
    /\ Tappable(e) /\ pages[e].login \in {"window", "left"}
    /\ Retry(pages[e].call) /\ UNCHANGED returning

-----------------------------------------------------------------------------
(* Answers                                                                  *)

Answered(c, result) ==
    /\ calls[c].out > 0
    /\ calls' = [calls EXCEPT ![c].out = @ - 1, ![c].result = result]
    /\ UNCHANGED <<win, window, posts, returning, located>>

(* Mutant: what was tried again is only registered. *)
AcceptedOnce(c) ==
    /\ Answered(c, "accepted")
    /\ CASE calls[c].kind = "custom" /\ calls[c].result = "none" -> PushFor(c, "confirmation")
         [] calls[c].kind = "locations" -> PushFor(c, "locations")
         [] OTHER                       -> UNCHANGED view
    /\ known' = IF calls[c].kind \in {"default", "custom"} THEN known \cup {c} ELSE known
    /\ UNCHANGED stuck

Accepted(c) ==
    /\ Answered(c, "accepted")
    /\ CASE calls[c].kind = "custom"    -> PushFor(c, "confirmation")
         [] calls[c].kind = "locations" -> PushFor(c, "locations")
         [] OTHER                       -> UNCHANGED view
    /\ known' = IF calls[c].kind \in {"default", "custom"} THEN known \cup {c} ELSE known
    /\ UNCHANGED stuck

PendingApproval(c) ==
    /\ calls[c].kind = "custom"
    /\ Answered(c, "accepted")
    /\ PushFor(c, "pending")
    /\ UNCHANGED <<known, stuck>>

(* handleReactionError *)
SignInRequired(c) ==
    /\ calls[c].kind \in {"plusOne", "custom"}
    /\ Answered(c, "refused")
    /\ PushFor(c, "login")
    /\ UNCHANGED <<known, stuck>>

Blocked(c) ==
    /\ calls[c].kind # "locations"
    /\ Answered(c, "refused")
    /\ PushFor(c, "blocked")
    /\ UNCHANGED <<known, stuck>>

(* Mutant: a failure to fetch locations is only logged. *)
OtherErrorLogged(c) ==
    /\ Answered(c, "refused")
    /\ IF calls[c].kind = "locations" THEN UNCHANGED view ELSE PushFor(c, "error")
    /\ UNCHANGED <<known, stuck>>

OtherError(c) ==
    /\ Answered(c, "refused")
    /\ PushFor(c, "error")
    /\ UNCHANGED <<known, stuck>>

(* The callback of reAuthorizeUser never comes. *)
TokenError(c) ==
    /\ calls[c].kind # "locations"
    /\ Answered(c, "refused")
    /\ stuck' = TRUE
    /\ UNCHANGED <<view, known>>

-----------------------------------------------------------------------------
(* The window                                                               *)

CloseWindow ==
    /\ win = "open"
    /\ win' = "fading"
    /\ UNCHANGED <<window, view, calls, posts, data, stuck>>

(* Mutant: only the window itself is torn down. *)
FadedOutAlone ==
    /\ win = "fading"
    /\ win' = "gone"
    /\ shows' = <<>> /\ toggles' = <<>> /\ handlers' = {}
    /\ UNCHANGED <<window, pages, below, calls, posts, data, top, overtaken, stuck>>

FadedOut ==
    /\ win = "fading"
    /\ win' = "gone"
    /\ returning' = returning \cup NotCancelled
    /\ pages' = SubSeq(pages, 1, 2)
    /\ shows' = <<>> /\ toggles' = <<>> /\ handlers' = {}
    /\ UNCHANGED <<window, below, calls, posts, known, located, top, overtaken, stuck>>

OpenWindow ==
    /\ win = "gone" /\ window < MaxWindows
    /\ win' = "open" /\ window' = window + 1
    /\ pages' = FirstPages /\ below' = FirstBelow
    /\ top' = "reactions" /\ overtaken' = FALSE /\ stuck' = FALSE
    /\ UNCHANGED <<shows, toggles, handlers, calls, posts, data>>

Browser == Show \/ Toggle \/ \E e \in DOMAIN pages : TransitionEnd(e)
Answer(c) ==
    \/ Accepted(c)
    \/ PendingApproval(c)
    \/ SignInRequired(c)
    \/ Blocked(c)
    \/ OtherError(c)
    \/ TokenError(c)

Next ==
    \/ Browser
    \/ React("plusOne") \/ React("default") \/ NewCustomReaction
    \/ \E r \in known : ShowLocations(r)
    \/ \E e \in DOMAIN pages :
           \/ GoBack(e)
           \/ OpenLoginWindow(e)
           \/ FacebookLogin(e)
           \/ RetryTapped(e)
    \/ LoginWindowCloses
    \/ \E c \in DOMAIN calls : LoginReturns(c) \/ Answer(c)
    \/ CloseWindow \/ FadedOut \/ OpenWindow

Spec == Init /\ [][Next]_vars
FairSpec ==
    /\ Spec
    /\ WF_vars(Browser) /\ WF_vars(FadedOut)
    /\ \A c \in 1..MaxCalls : WF_vars(c \in DOMAIN calls /\ Answer(c))

-----------------------------------------------------------------------------
(* Properties                                                               *)

(* When nothing moves, the window shows the page that was shown last,       *)
(* whatever came while pages moved, the visitor's own reactions among it;   *)
(* the progress page lies on the one it came from.  It may be another page, *)
(* or none, if it was overtaken: by an answer that came while a page went   *)
(* back, by a second page of one kind (they share a selector), or by the    *)
(* visitor who went back, or to the progress page, while pages moved.       *)
PageShown ==
    win = "open" /\ ~Moving /\ ~overtaken =>
        /\ top \in {pages[e].sel : e \in Active}
        /\ \A e \in Active : pages[e].sel = top \/ pages[e].sel \in below[top]
        /\ top # "progress" => ~pages[Reactions].active \/ top = "reactions"

(* Nobody whose own reaction was accepted, at once or after logging in, is  *)
(* left at the progress page or at a page that asks to log in for it.  (For *)
(* other reactions that is so: only newCustomReaction shows the outcome.)   *)
Asks(c) == top \in {"progress", "login"} /\ c = pages[Max(Find(top))].call
AcceptedIsShown ==
    win = "open" /\ ~Moving /\ ~overtaken =>
        \A c \in DOMAIN calls :
            calls[c].kind = "custom" /\ calls[c].window = window /\ Asks(c) =>
                calls[c].result # "accepted"

(* The progress page does not stay, unless the server's answer was about    *)
(* the token, or the reaction's locations were never computed.              *)
ProgressEnds ==
    win # "gone" /\ pages[Progress].active ~>
        win = "gone" \/ ~pages[Progress].active \/ stuck \/ overtaken
=============================================================================
