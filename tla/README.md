# Antenna reactions widget: a TLA+ verification project

Antenna (`src/`) puts reactions under the paragraphs, images and videos of other
people's web pages.  A JavaScript widget (`src/rb/static/widget-new/src/js`, `W/`
below) is loaded into the publisher's page.  It finds the content, shows how often
readers reacted to it, and lets them react.  A hidden frame of the Antenna domain
(`src/rb/static/widget-new/xdm-new.env.html`) holds the reader's cookies and the
Facebook SDK.  A Django application (`src/api`, `src/rb`) stores the reactions, caches
what it knows of each page in two memcached servers, and refreshes the caches from a
Celery worker (`src/analytics/tasks.py`).

None of the three parts has threads of its own to speak of.  What is hard in them is
that everything is asynchronous: answers come late, twice, in another order or from an
older cache, the host page moves things about meanwhile, and several callers share one
piece of state.  The models are about that.

## 1. Inventory

### The components, their state and their operations

| component | source | state | operations |
|---|---|---|---|
| XDM channel | `W/utils/xdm-client.js`, `xdm-new.env.html` | the ready flag, the queue (never emptied), the table of response handlers; in the frame, Facebook calls under way | sendMessage, receiveMessage, xdmLoaded, postMessage; dispatch, fbAsyncInit |
| User session | `W/utils/user.js`, `W/login-page.js`, `W/reactions-widget.js:236-265`, `src/api/auth_handlers.py`, `src/authentication/token.py` | cachedUserInfo, the cookie jar, the server's users and stored access tokens | fetchUser, createTempUser, facebookLogin, reAuthorizeUser, deAuthorizeUser, refreshUserFromCookies; the login page; TempUserHandler, FBHandler, Deauthorize, ANTHandler, checkToken |
| Page cache | `src/api/util_functions.py`, `src/analytics/tasks.py`, `src/api/handlers.py`, `src/api/utils.py`, `src/routers.py` | a key in two caches, its LOCKED_ key, the queue of refreshes, master and replica | PageDataHandlerNewer.read, CrossPageContainerHandler.read, check_and_get_locked_cache, update_page_newer_cache, update_crosspage_container_cache, createInteraction, deleteInteraction, clear_caches |
| Page registry and scanner | `W/page-data.js`, `W/hashed-elements.js`, `W/page-data-loader.js`, `W/page-scanner.js`, `W/reinitializer.js` | page data objects by URL and by hash, elements by hash, what waits to come into view, what was requested | scan, elementsAdded, removal listeners, getPageDataByURL, updatePageData, loadWhenVisible, reinitialize |
| Page counts | `W/page-data.js`, `W/utils/ajax-client.js`, `src/api/util_functions.py` | reactions and totals of containers, summary, indicator limit | updatePageData, mergeCrosspageContainerData, registerReaction, plusOneSuccess, newReactionSuccess, applyTextIndicatorLimit |
| Interaction store | `src/api/utils.py`, `src/api/userutils.py`, `src/api/handlers.py`, `src/rb/models.py` | the rows of Interaction, BlockedTag and AllTag, and which temporary users exist | createInteraction, deleteInteraction, convertUser, BlockedTagHandler, ApprovedTagHandler, ModerationHandler |
| Reactions window | `W/reactions-widget.js` and its pages, `W/utils/transition-util.js` | the pages of the open window, their classes and z-order, pending timers and transitions, requests out | open, react, show locations, log in, retry, go back, close, answers |
| DOM observation | `W/utils/mutation-observer.js`, media part of `W/page-scanner.js`, `W/media-indicator-widget.js` | observers with their batches of records, one-time listeners, indicators, elements by hash | scanMedia, elementsAdded, attribute and removal listeners, reinitialize |
| Throttled events | `W/utils/throttled-events.js`, `W/utils/callback-support.js` | listener lists and timers | on, off, handleEvent, the timer's end |
| Content recommendations | `W/content-rec-loader.js`, `W/content-rec-widget.js` | the pool, the widgets that wait, requests out | prefetch, getRecommendedContent, answers |
| Popup, selection, indicators | `W/popup-widget.js`, `W/text-reactions.js`, ... | one popup and its handler | show, hide |
| Start-up | `W/antenna-app.js` and the loaders | which script has loaded | callbacks in sequence |

`PROJECT.json` lists these and the rest: browser analytics, JSONP, calls to action, pure
helpers, the site and its administration, chronos, reporting, the legacy widget
(`engage_full.js`) and deployment, each with the reason it is modelled, partly modelled
or left out.

### How they interact

* The widget calls the **frame** by `sendMessage`; answers come to `receiveMessage`.
  The user session is the channel's only client with state of its own, and relies on
  the channel's order: *store the cookies* is sent just before *get the cookies*.
* The widget calls the **server** by JSONP.  Reactions carry the user and the token
  that the user session hands out; the server answers with errors that lead to the
  login page or to a reauthorization.
* The server answers page data from the **page cache**; what comes to the page is data
  of some version of the database, not always newer than what came before.
* Page data comes to the **registry**, which decides to which object it belongs, and
  then to the **counts** of that object.  The visitor's own reactions reach the counts
  by another way and know nothing of page data under way.
* The **scanner** is called by the host page's mutations; the **reinitializer** tears
  everything down from inside such a call.  Media elements have **observers** of their
  own, and their indicators share one list of **throttled** scroll callbacks with the
  page loader and the recommendations.
* The **window** calls the server and the user session, and is closed by a click
  anywhere else, whatever it waits for.  The login page in it opens a browser window and
  polls it.
* Reactions, logins and moderators change the **interaction store**, each in several
  statements of their own, from several web processes.

### What makes each part correct

* XDM channel: requests are performed once and in order, callbacks run once at most and
  only after that, nothing is sent before anybody listens, the table of handlers does
  not leak, and requests get answers.
* User session: parallel reactions are posted as one user; cache and cookies mean one
  user; a login takes effect; no attempt to react is left
  hanging.
* Page cache: a refresh that nothing got in the way of makes it fresh, whatever went wrong
  before; meanwhile it does not go back; every request is answered; a change of approval
  takes effect.
* Registry: widgets stay bound to the object that answers reach; elements are found
  under the hash of their page; two texts never share a hash; what is shown gets data.
* Counts: numbers add up; no count is wrong by more than what the code accepts; what was
  known does not disappear.
* Interaction store: a reaction appears when it is made and goes only when it is deleted,
  whatever a login does with its rows; rows agree with the moderator's decisions.
* Window: what was shown last is what is seen once nothing moves; an accepted reaction
  is confirmed; the progress page goes away.
* DOM observation: an element has one indicator, for the source it has now.
* Throttled events: whoever is on a list when the visitor scrolls is called.
* Content recommendations: widgets that ask are served, and do not link to themselves.

`PROJECT.json`'s `hazards` are the places where these can go wrong, at their lines.

## 2. Modules

| module | models | abstracts |
|---|---|---|
| `RequestReply` | what the widget expects of the channel | the channel |
| `XdmChannel` | both ends of the channel, with a host page that reloads or removes the frame | payloads, random keys (a request's rank), cookie contents |
| `XdmChannelProofs` | theorems about `XdmChannel` | |
| `UserSession` | the user in widget, cookies and server, over the channel's FIFO | ids and tokens (ranks), reactions, timing of polls |
| `UserSessionProofs` | theorems about `UserSession` | |
| `PageCache`, `MCPageCache` | one key of the cache, its readers and its worker | data (the version of the database it was computed from) |
| `PageRegistry`, `MCPageRegistry` | page data objects and text elements under URLs and hashes | texts (all alike, so that only the increment tells hashes apart), DOM structure, media |
| `PageRegistryProofs` | theorems about `PageRegistry` | |
| `PageCounts` | the lists and totals of one page, fed from three sides | bodies, locations, one content per container |
| `PageCountsProofs` | theorems about `PageCounts` | |
| `ReactionLedger` | what a visitor may expect of the stored reactions | accounts, rows, statements |
| `InteractionStore`, `MCInteractionStore` | the tables of interactions and tags under concurrent requests | one page, one reaction, one other group that has it, one temporary user and one person per visitor |
| `InteractionStoreProofs` | theorems about `InteractionStore`: its types, requests that come one at a time, and that it implements `ReactionLedger` | |
| `ReactionsWindow`, `MCReactionsWindow` | one reactions window after another, with its timers, transitions and answers | wording, sizes, what a login or a request does elsewhere |
| `ReactionsWindowProofs` | theorems about `ReactionsWindow` | |
| `ContentRec`, `MCContentRec` | the pool of recommended content and who waits for it | a content's body; rendering |
| `CacheProofs` | theorems about `PageCache` and `ContentRec`, the two stores that hand out what was gathered before | they share no state |
| `ThrottledEvents` | lists of throttled callbacks, as functions of their state | the kind of event (scrolling) |
| `MediaScan` | media elements, mutation records, indicators, over `ThrottledEvents` | pages and sections, positions |
| `MediaScanProofs` | theorems about `MediaScan` and the lists of `ThrottledEvents` | |

Every action stands for one run of an event handler, a callback or a server request
between two points where others may act; what a handler does to the end, every call
included, is one action.  Definitions have the names of the code where they can.
`PROJECT.json`'s `map` gives the lines of each.

### XdmChannel

`SendMessage(kind, op)` is `sendMessage`: it queues before the frame has loaded, and
posts and keeps a handler afterwards.  `kind` is what callers pass as callback: a
function, nothing, or an object (`discardUserInfo`, `user.js:165`).  `ReceiveMessage` is
`receiveMessage`: it deletes the handler only after the call, so that one that throws
stays.  The `xdm_loaded` message is key 0 of the same table, and `XdmLoaded` its handler:
it flushes a queue that is never emptied.  `FbAsyncInit` and `Dispatch` are the frame,
whose cookie operations answer at once and whose Facebook operations answer later
(`FacebookAnswers`) or never.  `HostReloadsFrame` and `HostRemovesFrame` are the host
page: a moved iframe loads anew and announces itself again.  History variables
`performed` and `called` count how often each request was carried out and its callback
entered; `thrown` are those whose callback threw.

`RequestReply` has no channel: requests are issued, performed in order and once at most,
and called back once at most.  It counts as well, so that a repetition is a step that it
does not allow.  `ImplementsPromise` is the refinement, with the three variables of the
same names.

### UserSession

A *flow* is one attempt to react, with its retries; its `pc` is the callback it waits
for.  `cachedUserInfo` and `cookies` are the two copies of the user; the messages between
widget and frame keep the order that `XdmChannel` has once the frame has loaded.
`FetchUser` .. `TempUserArrives` are `fetchUser` and `createTempUser`;
`ServerAnswersReaction` with `TokenValid` is `checkToken` in `createInteraction`;
`ShowLoginPage` and `ReAuthorizeUser` are the two branches of `handleReactionError`;
`RetryClicked`, `FacebookClicked`, `AntennaClicked` the login page.  Users are records;
their `temp` field is `temp_user`, a boolean from a response and a *string* from a
cookie, because `AsCookie` does what the cookie jar does.  `converted` are temporary
users that a login has turned into people.  A login on the Antenna site is two steps, the
cookies that the site writes (`AntennaSiteLogsIn`) and the window that the widget finds
closed (`AntennaWindowCloses`).  A refusal for a reason of its own, a blocked tag say, ends an
attempt as an acceptance does (`ReactionAnswered`).  A flow that ends where no code continues is
at `stuck`.  `newcomer` (fixed from the start) says that the reader came without cookies.

### PageCache

A value is the version of the database it was computed from; 0 is a miss.
`AskForPage` .. `AnswerPage` are a web process in `check_and_get_locked_cache` and its
caller, one memcached call per action.  `WorkerTakesTask` .. `WorkerSetsRedundant` are the
worker's task, likewise; its first action drops the task if the key is locked.
`SaveInteraction` then `QueueRefresh` are `createInteraction`, whose two halves may be
separated by anything; `BlockTag` then `ClearCaches` are the administrator's handlers.
`crosspage` (fixed from the start) says which of the two kinds of key it is: that of a
cross-page container is refreshed only if it is in the default cache, and not by deletions.

Every write to memcached may fail.  The worker and the readers catch that, log it and go
on, or skip what is left of a `try` block; where nothing catches it, the request fails
(`RequestFails`).  memcached's client raises or returns quietly, depending on the backend
and the error, and the model has both.

`troubled` is history.  It is cleared when the worker begins a refresh, and set by what can
leave a cache behind from then on: a write that fails, a change that gets no refresh, or
something `InTheWay`: a reader with a value in its hands that it is about to write while a
refresh is on its way, a refresh about to meet a lock, a replica that is behind.  Misses,
locks, polls, promotions, evictions and expiring locks are no trouble by themselves.

### PageRegistry

`pages`, `urlHashes` and `elements` are the maps of `page-data.js` and
`hashed-elements.js`.  URLs and hashes are keys of the same maps, as in the code.
`Start` is the first request and scan; `PageAdded`, `TextAdded` and `TextRemoved` are what
mutations do; `ResponseArrives` with `PageHashArrives` is `updatePageData` with
`getPageDataForJsonResponse`, which moves an object from its URL to its hash;
`ComesIntoView` is the lazy load; `HostNavigates` changes the location silently, and the
next `TextAdded` may find `ShouldReinitialize` and become `Reinitialize`.  `host` (fixed
from the start) is a blog, which adds page elements, or an app, which navigates.

### PageCounts

`rows` is the database of reactions.  `ContainerData` and `SummaryData` compute from any
prefix of it what the server answers: a cache or replica may have kept that prefix.
`PageDataArrives` and `CrosspageDataArrives` merge it (`Merge` keeps the larger count of
two entries with one parentID; the summary is replaced).  `Send` .. `NewReactionSuccess`
are the visitor's reactions and +1s with `createInteraction` in the middle, and
`RegisterReaction`, `PlusOneSuccess`, `SummaryPlusOneSuccess` what their answers do.
`OthersReact` is everybody else.  `known` is what the browser has been told.

### InteractionStore

In production a request reads from the replica, in one snapshot, and writes to the
master with every statement committed by itself (`routers.py`, Django 1.5 without
transaction middleware).  So `Begin...` actions decide on one state and each write is an
action: `BeginCreate`, `Save`, `CreateTag` are `createInteraction`; `BeginLogin`,
`DropDuplicate`, `MoveRows`, `DropUser` are `convertUser`; `Block`, `Unblock` and
`Approve` change the tag and `Decide` then its interactions; `BeginToggle` and
`SaveToggle` are the moderator's link in a mail.  `Allowed` is what the database refuses:
the unique constraint and the foreign keys.  `Cascade` is what Django deletes along with a
row.  `scene` (fixed from the start) says what the requests are about: plain readers;
pictures, whose content is taken from another interaction; readers who agree (+1s); or
moderation; whether requests come one at a time, with the replica caught up before the next
(`serial`); whether the group approves reactions, and whether it offers this one itself
(`vouched`), as a default or a blessed one; and whether another group has it too (`shared`).
`Screened` says whether a reaction is checked against the blocked ones, and `ApproveOnCreate`
what is decided about one that is made: by any group's row of it in AllTag, because
`createInteraction` takes the first of all groups' rows.  `foreign` is the other group's row and
`OtherGroup` its readers and moderator.  `withdrawn`, `moved`, `late` and `verdict` are
history.

`ReactionLedger` has one entry for a visitor and a content, under whatever account.  It
appears with `React`, and disappears only in or after a `Withdraw` that named it (which need
not take it: another row may have the entry).  A login is no step of it.

### ReactionsWindow

A page is shown in three steps of the browser: `Show` (a timer of 1 ms), `Toggle` (one of
20 ms that toggles the class) and `TransitionEnd`, whose callback clears the former page
away.  `Push` creates a page and sets the first timer.  `below` is the z-order, as the
set of selectors below each selector; `handlers` are the listeners for the end of a
transition, for a set of elements as jQuery keeps them.  The progress page is an overlay
(`Overlay`); its `call` is the one it waits for.  `React`, `NewCustomReaction`, `ShowLocations`, `GoBack` and the four actions of the
login page are the visitor's; `Accepted` .. `TokenError` are the answers, which may come
when the window is fading, gone, or another one (`PushFor`).  `overtaken` and `stuck` are
history and name what the code does not handle: see section 6.  A window is overtaken by an
answer that comes while a page goes back, by a second page of one kind while pages move,
and by a visitor who goes back, or to the progress page, while pages move.
`TransitionEnd` takes pages that were torn down off `pages`; in the code they stay on the
window's list, so that closing tears them down a second time, to no effect.  A call's
`result` is that of its last answer.

### ContentRec

`GetRecommendedContent` puts a widget on the list and serves the list from its front;
`Answered` adds to the pool and serves again, in the name of the widget that the request
was sent for; both by `ServeContent`, whose `Turn` is one pass of the loop in
`serveContent` and whose `Serving` is the loop.  `Choose` is `chooseContent` as a recursive
function: it alternates images and text, takes from the end of the pool (`Rest` is what
`splice` leaves), and what it has chosen for a widget that cannot be served is thrown away.  `Failed` is an answer with an error, or with a YouTube
address without an id, on which `massageContent` throws.

### ThrottledEvents and MediaScan

`On`, `Off`, `HandleEvent` and `TimerEnded` map the state of all lists of callbacks to the
next; lists that were dropped stay while their timer runs.

In `MediaScan` scripts of the page (`InsertElement`, `RemoveElement`, `SetAttribute`)
change the document while nothing is delivered; `Deliver` begins a delivery, in which
`DeliverAddition`, `DeliverRemoval` and `DeliverChange` handle one record each, in the
order in which the observers were made (`removalsFirst`), until `Delivered`.  Each call to
`scanMedia` has a number: its indicator, its listeners and its observer have the same.
`Other` is any other client of the scroll events, which takes itself off when called.

## 3. The runs

| run | bounds | states | shows |
|---|---|---|---|
| `xdm_channel` | 3 requests of any kind, 1 reload | 340,470 | types, `NothingSentEarly`, `HandlersAwaitAnswers`, the refinement `ImplementsPromise`, `CookieRequestsAnswered` |
| `user_session` | 2 flows, 5 temporary users, 2 access tokens, 1 return from the login page per flow, all four kinds of cookies | 94,927 | types, `VisitorsPostAsOne`, `CacheMatchesCookies`, `LoginTakesEffect`, `FlowSettles` |
| `page_cache` | 2 readers, 3 versions, 1 poll of a locked key, both kinds of key | 767,795 | types, `QuietCachesFresh`, `CachesAdvance`, `RequestsAnswered` |
| `page_registry` | 3 URLs of which two have one hash, 4 page elements of which two share a URL, 3 texts, 4 objects, 2 requests per URL, both kinds of host | 725,769 | types, `BindingKept`, `ElementsFound`, `TextHashesDiffer`, `WidgetsGetData` |
| `page_counts` | 2 containers, one of them cross-page, 2 reactions, summary and indicators cut to one, 2 rows, 2 own actions, 3 answers | 476,485 | types, `TotalsAddUp`, `SummaryCoversItsList`, `OverByOne`, `KnownReactionsShown` |
| `interaction_store` | 1 visitor with two accounts, 2 contents, 2 requests at once, 3 rows, every scene, those with another group or a reaction the group offers itself with one request at a time | 700,264 | types, `ModerationHolds`, `PictureHasOneContent`, the refinement `ImplementsLedger` |
| `reactions_window` | 2 calls of any kind, 3 requests with their retries, 2 windows, 6 pages | 409,716 | types, `PageShown`, `AcceptedIsShown`, `ProgressEnds` |
| `content_rec` | 2 widgets with 2 contents each, 5 contents of 4 pages, 3 contents in an answer | 23,871 | types, `LinksElsewhere`, `WidgetsServed` |
| `media_scan` | 1 element, 2 sources, 3 scans, 2 records of a kind in a script, 3 lists | 108,584 | types, `OneIndicator`, `ScrollHeard` |
| `user_reauthorize`, `page_cache_approval`, `store_duplicates` | small | | the deviations of section 6 |

Deadlock is not checked in any of them: the reader may stop, requests are bounded, and
every one of these systems may rightly come to rest.  Bounds are guards of the actions that
count, with two state constraints beside them.  `MCPageCache` bounds how far the replica is
behind, the changes of a cross-page container, and the readers that are still there after
the last change.  `MCReactionsWindow` does not go on from a window that was overtaken: the
properties excuse it, and taps on what moves can be repeated without end there.

### Why the bounds are enough to be interesting

* *XDM*: three requests suffice for one that is queued, one sent after the flush and one
  between a reload and the second announcement; the reload exercises the queue that is
  never emptied.
* *User*: two flows are what a race needs.  With one return from the login page each, one
  flow can log in (either way) while the other waits for a temporary user, for its
  cookies, or for the server; two access tokens let a login be overtaken by an expiry.
  Five temporary users are more than two flows can ask for, so that `FlowSettles` never
  fails for want of one.
* *Cache*: two readers and the worker are the writers.  Three versions are a change that goes
  wrong in any way, and one whose refresh makes it good, or two refreshes one behind the
  other.  One poll more or less changes nothing but the length of the wait.
* *Registry*: two URLs are what moving, mixing up and going back need, and a third shares
  the hash of one of them; three texts let
  the middle one of three equal texts be removed and another be added, which is where an
  increment could be used twice; two requests for a URL in flight give late answers after
  a reinitialization.
* *Counts*: two containers tell the page's own container from others; a row by somebody
  else and one by the visitor are the pair that is counted twice; three answers give an
  old one between two newer.
* *Store*: one visitor has two accounts, which is where rows move; two requests are what
  a race needs (a login with a reaction, a deletion, another login); three rows give a
  duplicate and one that is posted between two statements.  The theorem has no bounds.
* *Window*: two calls give an answer for each page while the other page moves; the third
  request is the retry after a login, in the same window or in one that has gone; the
  second window sees the answers of the first, and its locations.  Six pages are the two
  of every window and four more, one more than two calls and a retry push.
* *Content*: two widgets are one that is served in the turn of the other; five contents
  have every type, both widgets' own pages and two others; answers of three and a rest in
  the pool let the same content come twice.
* *Media*: everything is about one element and its former closures; with two elements the
  state only multiplies.  Two records are a batch; three scans are a first one and two of a
  batch.  Three lists are one in use, one dropped with a timer, and one to come.

### What the properties mean

* `ImplementsPromise`: the detailed channel refines `RequestReply`.  It would fail if the
  flush could be overtaken, if a request were sent twice, or if its callback were entered
  again.
* `HandlersAwaitAnswers`: only a handler that threw outlives its answer.
* `CookieRequestsAnswered`: once the frame has announced itself, a cookie request with a
  callback is answered, unless the host page disturbs the frame.  The code has no
  acknowledgement and no time-out, so nothing more can hold.
* `VisitorsPostAsOne`: the comment "Whichever one comes back first wins"
  (`user.js:49-50`) holds for visitors who never log in and lose no token.
* `CacheMatchesCookies`: in the same circumstances, with the channel quiet, the widget's
  cache and the cookie jar mean the same user.  With a login in another flow they need
  not: see section 6.
* `LoginTakesEffect`: what a reader posts after a login is posted as the person, whatever
  temporary users his other flows are given meanwhile.  It rests on the order of *store*
  and *get* in the channel: the cookies of a login with Facebook are stored right ahead of
  the retry's own request for them.  A login on the Antenna site has no such pair, so a
  temporary user stored over it takes it away (`loggedIn` drops it): section 6.
* `FlowSettles`: an attempt to react ends, or waits for the reader, or learns that its
  token is no good; `TokenErrorAnswered` is what should follow, and does not.
* `QuietCachesFresh`: when nothing is under way, each cache has the database's version or
  none, unless it is `troubled`.  So a refresh makes good all that went wrong before it,
  lost refreshes, failed writes and old values alike, in both caches; and readers that miss,
  with the locks, polls, promotions and writes that follow, do no harm where no refresh is
  under way, however they interleave, what the caches lose meanwhile included.  It does not
  say that the code is fresh where a miss meets a refresh: there it may stay stale until the
  next one (section 6).
* `CachesAdvance`: nor does a step, under the same condition, put an older value in the
  place of a newer one, not even for a while.
* `RequestsAnswered`: whoever dies with the lock, every other request ends.
* `BindingKept`: the object a page element is bound to is the one that its URL leads to,
  before, at and after the arrival of the hash, until the server has answered another URL
  with the same hash.
* `WidgetsGetData`: what text is bound to has data, or a request or a listener for it
  exists, or a request has failed (the code only logs that).
* `TotalsAddUp`, `SummaryCoversItsList`: sums equal their lists, or run ahead by +1s made
  on reactions of the summary, which the code adds to totals but not to entries.
* `OverByOne`: the visitor's own +1 can be counted twice and nobody else's can.
* `KnownReactionsShown`: an older answer takes nothing back.
* `ImplementsLedger`: where nobody agrees with anybody else, a login changes no entry,
  though it deletes duplicates, may fail on rows that came meanwhile, and be repeated.  That
  an entry has two rows for a while is not seen.
  What a temporary user posts after his rows have moved is not counted (`late`): it is
  deleted with him.  Where others agree, a duplicate takes their rows along: section 6.
* `ModerationHolds`: with one request at a time, rows made before and after a decision agree
  with it: none is shown after a block, if new reactions are checked at all, and all are after
  an approval, if no other group has the reaction.  Where these conditions fail the code does
  not do it: section 6.  Between two moderators the last write wins.
* `PictureHasOneContent`: with one request at a time, the rule "grab it from an existing
  interaction" keeps one content, whichever interaction is deleted or moved.
* `PageShown`: at rest, in a window that was not overtaken, the active page is the one shown last, over nothing but what it
  was to cover.  `AcceptedIsShown`: the visitor's own reaction, once accepted, leaves him
  neither at the progress page nor at the login page it came from.  `ProgressEnds`: the
  progress page is left, but for the two cases that `stuck` names.
* `WidgetsServed`: though the list is served in the name of others, from its front, and
  though chosen content is thrown away, every widget that asks is served, unless an answer
  fails or has too few pages for its widget.  `LinksElsewhere`: a widget served in its own
  turn does not link to its own page, and none links to one page twice.
* `OneIndicator`: between scripts, an element has the indicator of its last scan and no
  other, the map of hashes agrees with its present source, and its attributes are
  observed.  `astray` names the elements for which the code cannot know better.
* `ScrollHeard`: being on a list when the visitor scrolls is being called, or being torn
  down, although lists come and go under running timers.

### Fairness

* `XdmChannel`: weak fairness of `ReceiveMessage` and `Dispatch`.  Both are event loops
  that run what was posted.  None for `FbAsyncInit` (the SDK may be blocked, and the frame
  waits for it) and none for Facebook.
* `UserSession`: weak fairness of the frame, of the widget's callbacks, of the server's
  answers and of Facebook's SDK.  None for the reader, who may leave the login page open.
  An unanswered JSONP request is left out by this: `createTempUser` has no error handler,
  and a lost answer ends the attempt (a hazard without property).
* `PageCache`: weak fairness of each reader's own steps, since a web process runs a
  request to its end.  None for the worker, the expiry of locks and the replica: requests
  are answered without them.
* `ReactionsWindow`: weak fairness of the browser's timers and transitions, of the fading
  window, and of the answer to each request (jQuery calls success or error).  None for
  the visitor, nor for the login window.
* `ContentRec`: weak fairness of a timeout of 0 and of the end of each request, answered
  or failed.  None for page data, which may never come.
* `MediaScan`: weak fairness of the delivery of records; strong fairness of each timer,
  since scripts and their deliveries come between again and again, and the browser takes
  tasks in turn.
* `PageRegistry`, `PageCounts` and `InteractionStore` have safety properties only.

Each property of a passing run has a mutant, a plausible bug put into one mapped
definition (the definitions commented *Mutant*), under which the run reports it violated.

## 4. The proofs

TLAPS checks them for every value of the constants.

`XdmChannelProofs`, for any number of requests and reloads:

* `TypeCorrect`, `NeverSentEarly`, `HandlersAreShed`: the three invariants of the run.
* `ChannelImplementsPromise`: the refinement of `RequestReply`.

None of these facts is inductive by itself.  The inductive invariant `Inv` adds to
the types: *Silence*, that before the flag is raised the frame's queue is empty,
nothing has been performed, and the queue of the page is exactly the requests made so
far; *Outward*, that what is on its way to the frame is in increasing order and later
than all that was performed, so that nothing is performed twice; *Inward*, that an answer on its way, or one that Facebook
still owes, is of a performed request, is there once, and has not been called back.  With
that every step is a step of `RequestReply` or a stutter: `Dispatch` is `Perform`,
`ReceiveMessage` of an answer with a handler is `Call`, `SendMessage` is `Issue`.

`CacheProofs`, first part, for any number of web processes, polls and versions:

* `CacheTypeCorrect`: no cache, process or replica ever has a version that the database
  has not had.
* `UntroubledCachesFresh` and `UntroubledCachesAdvance`: the invariant is `Untroubled`, of
  states that are neither troubled nor have anything in the way.  What a reader is about to
  write is then of the database's version (`FillsAreFresh`); what the worker has computed is
  not older than what either cache has (`ComputedIsNewer`); and when no further refresh is
  on its way, the one under way is the last: it has computed, or will compute, the database's
  version, and each cache it has passed has that version or none (`LastRefresh`).  `Afresh`
  is what makes it inductive: when the worker takes a task, nothing is asked of the caches
  any more, since both are still to be written.

`CacheProofs`, second part, for any widgets, contents, answers and number of contents that
a widget shows (the specification is `RecSpec`, so named because the module extends
`PageCache` as well):

* `RecTypeCorrect` and `LinksLeadElsewhere`, from one invariant, `RecInv`: who is asked is
  on the list once, and what is shown to a widget that was served are `Count` contents of
  as many pages, none of them its own if it was served in its own turn (`EntryOK`).  The
  invariant is near; what is behind it is what two loops compute.
* The choice is a recursive function whose value at `j` rests on all those before it, and
  `CollectionExists` shows that there is a function which does as the recursion says.
  From then on a choice is *some* function of that kind (`ChooseUnfolds`), and one that went
  wrong would have a first place where it does: `LeastNumber` replaces induction.
  `ChooseAvoids` is what follows for a whole choice.  That what is left of the pool is again
  a sequence of what was in it rests on `RanksAreTaken`: among the indices that stay, each
  rank is somebody's.
* The turns of the list are a recursive function too (`IterationExists`,
  `ServingUnfolds`).  After each turn those that were served and those left over are all
  that have had a turn, each once, and no entry that was made before changes
  (`TurnServesOrLeaves`); again a first turn at which this fails cannot be.

`InteractionStoreProofs`, for any visitors, contents, requests at once and rows:

* `StoreImplementsLedger`: the refinement of `ReactionLedger`.  A login deletes rows, and
  the ledger must not see it.  The inductive invariant is about every row that some login
  is about to delete as a duplicate: the person still has the reaction in a row that no
  login is about to delete (`HasTwin`), or a deletion has named the entry, or the row is
  `late`.  It needs that nobody agrees (no row has a parent, so nothing is deleted along),
  that whoever has moved has only `late` rows under the temporary user (`MovedInv`), and
  that a login moves rows only when no duplicate is left.  With that `Save` is
  `React` or a stutter, `Delete` is `Withdraw`, and `DropDuplicate`, `MoveRows` and
  `DropUser` are stutters, or a `Withdraw` of nothing that carries out what an earlier
  deletion has named.

* `StoreTypeCorrect`: types.  Toggling needs more than `TypeOK`: the row that a moderator
  looks at was saved before (its id is not above the counter), and stays so although it
  may be deleted between the read and the save.
* `DecisionsStand`: `ModerationHolds`, in the scenes where requests come one at a time
  (`OneAtATime`).  A decision is two writes, the tag and then the rows, so the invariant
  `VerdictInv` says what must agree with the last decision while one is under way: the
  rows with the decision as it was, the tag with it unless the next decision is being
  carried out, and a row about to be saved with the tag it was computed from.
* `PicturesHaveOneContent`: `PictureHasOneContent` in the same scenes.  `PictureInv` adds
  that the row about to be saved has the content of those that are there.

`UserSessionProofs`, for any number of flows, users and tokens:

* `SessionTypeCorrect`: types, and with them *PlaceInv* (what a flow's place in the code
  says of the user it has) and *ChannelInv*: the channel and the frame hold one request
  or answer of a flow at most, and only while the flow waits for it, so that an answer
  meets the callback it was meant for.  Every step of a flow is a `Turn`: it leaves its
  place, posts messages of which only the last asks for anything, and has nothing else on
  its way.  The three other proofs start from these.
* `LoginsTakeEffect`, of what an attempt posts after its own login: `LoginInv` says that while a flow that has logged in waits for the
  cookies they are a person's, or will be by the message just ahead of its request.
* `FirstTemporaryUserWins`: `NewcomerInv` extends "one temporary user" from what is posted
  to caches, cookies and all that is on its way.
* `CacheAgreesWithCookies`: from that and `ReturningInv`, its counterpart for readers
  that came with cookies.  Both are of sessions where nobody has left the login page and no
  token was refused; afterwards cache and cookies may disagree (section 6).

`PageRegistryProofs`, for any URLs, texts, page elements, objects and hash function:

* `RegistryTypeCorrect`, `ElementsAreFound` and `TextsHaveTheirOwnHash`.  The invariant
  `Safe` keeps the three maps in step: an object is under the key that it names, a URL
  with a hash has no entry of its own, and the elements under a key are those of its
  object.
* `BindingsAreKept`: `BindingKept`, for any hashes.  `Alone(p)` says that no other URL has been
  answered with the hash of `p`'s.  A page that is alone now was alone before (`AloneBefore`),
  so its binding held; and the answer to another URL takes another place.
* `TextsGetData`: `WidgetsGetData`, under the hypothesis `NoAppExtends` that no location
  of an app extends another page's; false otherwise, for the reason in section 6.
  `LoadsInv` says that data under a URL is on its way and data under a hash has come,
  `OwnersInv` that every text is bound to one of the two.

`PageCountsProofs`, for any containers, reactions, posts, rows and answers:

* `PageCountsTypeCorrect`: with `ListsInv` and `PostsInv`, that whatever is listed, posted
  or answered names an interaction of the database.
* `IndicatorsAddUp` and `SummaryIsCovered`, proved together (`Totals`).  Sums are folds
  over functions; what holds of them is proved for every finite domain by taking a
  smallest subset where it does not (`SmallestSet`), since the induction theorems of the
  library take operators.
* `KnownStaysShown`: inductive as it stands, because merging is monotone.
* `CountsAreOverByOne`: the bound "one more than the database" is not inductive.  It is
  while nothing is due: `CountsInv` allows the one more only where the visitor has made the
  reaction and no answer that will count it is still to come; `MadeOnce`, that one answer
  at most is due for a reaction.

`MediaScanProofs`, for any elements, sources, scans, records and lists of callbacks:

* Lemmas about `On`, `Off`, `HandleEvent` and `TimerEnded`: one list at a time has
  callbacks, so that taking a callback off the current one takes it off all.
* `MediaScanTypeCorrect`: types.  That an indicator's callback is registered needs that
  there is always a list without a timer for the first callback (`ThrottleInv`).
* `IndicatorsAreOne`: `OneIndicator` speaks of quiet moments.  `ScansInv` says what is
  known of an element at any moment of a delivery: one that was not scanned in it is
  *Waiting*, with records to come that account for all that is not up to date; one that
  was is *Fresh*, as the property wants it, or *Doomed*, to be scanned again and go
  astray.  The observers of former scans of an element, which are never disconnected when
  it is removed, have the same number of records each; that is why a call of an older
  one always dooms it.

`ReactionsWindowProofs`, for any numbers of pages, calls, requests and windows:

* `WindowTypeCorrect`: types.  Beside `TypeOK` they need that the progress page and the
  reactions are the first two pages and the only ones of their kinds, that a page which
  asks to log in does so for a call that was made, and that a window which has gone has no
  timers and no listeners left.
* `AcceptedReactionShown`: `AcceptedIsShown`, of windows that were not overtaken.  `AskedInv` says that while
  a page goes back nothing has been pushed, so that the login page whose call counts is
  the newest one; every outcome of an own reaction pushes a page, so that neither of the
  two pages that wait is the last one any more.
* `LastPageShown`: `PageShown`, of windows that were not overtaken (for the others it is
  false: section 6).  `PageShown` speaks of moments of rest; the invariant `ShownInv` of all others.
  Going forward (`ForwardInv`), the pages that wait for their first timer are of different
  kinds and new; a toggle has its listener and a page that will move; a listener has its
  toggle still to come or waits for a page that moves, and no page has two; and the page
  shown last waits for a timer or lies over the others, with no listener that takes it
  away.  So a listener whose transition ends (`HeardOne`) is the only one to hear it and
  takes away nothing that is still to be shown.  A page of a kind that is already in sight
  is shown only from rest, before any other: that is why `overtaken` names what it names.
  Going back (`BackInv`), there is one listener, for all that is in sight but the
  reactions, and it leaves the reactions alone on top.

All rest on the named assumptions about the constants (bounds are naturals, sets of
elements are finite, the channel's and the page's parts are among the wholes) and on the
hypothesis of `TextsGetData`, and on nothing else.

Only model-checked: liveness (`CookieRequestsAnswered`, `FlowSettles`,
`RequestsAnswered`, `ProgressEnds`, `WidgetsServed`, `ScrollHeard`), which is outside
what the prover does.  Every invariant, action property and refinement that a passing run
checks is a theorem too, `WidgetsGetData` under the hypothesis named above.

## 5. Abstractions worth knowing

* Random keys and hashes never collide; MD5 is a name.
* `PageCache` is one key.  Keys do not interact in the code.  The two clusters' second
  refresh over HTTP and the older keys (`page_data`, `page_containers`) are left out.
  There is one worker process (`gke/antenna-celery.yml`).
* `PageCounts` has one content per container, no comments, no deletions, and all rows
  approved.  The order of a summary is by count and id.  Where several containers tie for
  the last indicator, any of them may be suppressed.
* `PageRegistry` has no media, no removal of page elements, and adds one element per
  mutation.
* `UserSession` leaves out the pages behind the Antenna login window: the window closes
  with the cookies changed, and the temporary user converted, or not.  A reaction that is
  refused for a reason of its own ends the attempt like an accepted one.
* `InteractionStore` has one page and one reaction, and kind "tag".  Its reads are one step
  because a request's connection keeps its snapshot; how old the snapshot is, is the
  distance between that step and the writes.  Auto-approval decides by the tag alone.
* `ReactionsWindow` has one window at a time: opening one closes the others first.  Timers
  of one length fire in the order they were set.  The pages a window starts with are never
  torn down before it is; `pages` lists them first.  Sharing and comments on the
  confirmation page are left out.
* `ContentRec`: whether a widget was torn down makes no difference to the code, and has no
  action.
* `MediaScan` has no page elements: an element that is in the document is in an active
  section.  An indicator's own listeners for additions and removals only reposition it.

## 6. Where the code departs from what it says

Each of these is a run that finds the property violated; `PROJECT.json`'s findings quote
both sides.

1. `user_reauthorize` (`reactions-widget.js:242`): `reAuthorizeUser(groupSettings,
   callback)` is called with the callback as its first argument.  After a token error
   nothing follows.
2. `page_cache_approval` (`handlers.py:1283`): `clear_caches` empties the default cache,
   and the next reader fills it again from the redundant one, with the blocked reaction.
3. `store_duplicates` (`userutils.py:28`): deleting a duplicate deletes what has it as its
   parent.  A visitor who agreed, as a person, with his own temporary reaction loses both
   at the next login; so do others who agreed with it.

Others were met while modelling and have no run of their own:

* A temporary user that comes back after a login replaces the person who has logged in
  (`user.js:48`): `createTempUser` keeps a cached user only if it is itself temporary,
  against the comment below it, "Whichever one comes back first wins".  With three flows
  it can even take a login on the Antenna site away before it is used: one whose Facebook
  login was refused, or that still waits for its user, stores a temporary user over the
  cookies of the site.
* When an app extends its path (`page-scanner.js:606`) the code decides not to
  reinitialize, and binds new text to page data that nobody requests.
* Registered by node (`page-data.js:267`) and merged by parent, the visitor's reaction and
  an older root of the same reaction are listed twice, against the comment at line 234.
* `createTempUser` has no error handler (`user.js:47`): a request that fails ends the
  reaction silently.
* What a temporary user posts while a login converts him, after his rows were moved, is
  deleted with him (`userutils.py:31`), against the comment "convert temporary user's
  interactions to social user interactions" (`auth_handlers.py:76-77`).
* Whether a reaction is approved when it is made is read from the first of all groups' rows
  of it (`utils.py:207-210`).  Another group's pending row leaves a reaction unapproved
  after this group's moderator has approved it, although "<strong>Approving</strong> a
  reaction will allow this reaction to appear on your site"
  (`rb/templates/group_unapproved_tags.html:29`); its approved row shows one that this
  group's moderator has not looked at.  This is why `Shown` is claimed of reactions of one
  group only.
* Default reactions, and the blessed ones of a group that approves reactions, are not checked
  against the blocked ones (`utils.py:64-69`), though they are on the list whose page says
  "Blocking a reaction will remove all current instances of it on your site, and prevent any
  more from being made." (`rb/templates/group_allowed_tags.html:29`, `rb/views.py:1216-1222`).
  `Hidden` fails of them.
* A reaction that was checked before its block and is saved after the update of the existing
  rows stays approved (`handlers.py:1261-1262`).  `Hidden` fails of requests that interleave.
* Between two moderators, or a moderator and one who toggles a single interaction, the last
  save wins (`handlers.py:284`).
* With a visitor who taps what moves, tapping Back twice empties the window: the target page
  is active by then, and is moved away with the page above it (`reactions-widget.js:312`).  An
  answer's page that is pushed while a page goes back is torn down with the others, and so is
  the listener of a second page of one kind.  `overtaken` names these.
* Locations are computed once (`page-data.js:195`); asking for those of a reaction made
  later throws under the progress page (`stuck`).  A token error leaves it there as well.
* A +1 or a default reaction that is tried again after a login is sent, and the login page
  stays: only `newCustomReaction` shows the outcome of a retry.
* Closing a login page that shares its browser window with another one makes the other
  retry, as if the visitor had closed it (`login-page.js:98`).
* An attribute listener is called for every record of its batch, though it is meant for
  one time (`mutation-observer.js:137`); an element taken out and put back has two
  observers.  Both give it two indicators.  A moved element may lose its indicator, when
  the observer of additions is the older one; one that changes while it is out of the
  document gets one that no removal takes away.  Reinitialization heals all of these.
* Mutation listeners of indicators that were torn down stay
  (`media-indicator-widget.js:110`).
* A scroll callback that throws leaves its list's timer set for good
  (`throttled-events.js:38`): nobody on the list is called again.
* A widget served in the turn of another may show a link to its own page
  (`content-rec-loader.js:73`); what was chosen for one that cannot be served is lost, and
  an answer that still has too little asks for no more.
* A refresh is dropped while a reader holds the lock (`tasks.py:23`), and the reader may
  have read the database before the change: the cache stays old until the next one.  A
  reader that meets the worker may write last what it read before the change, with the same
  effect; so have a failed write to memcached, which is only logged (`tasks.py:29-30`,
  `handlers.py:799-806`), a replica that is behind, and a refresh that was never queued
  (`utils.py:258`, `291`).  `troubled` names these; nothing in the code notices them.
* Two URLs with one server-side hash (the server strips query strings): the second answer
  (`page-data.js:318-320`) replaces the object the first one's widgets are bound to, and
  `updatePageHash` (`hashed-elements.js:57`) overwrites its elements, against "we don't want to
  break the data binding" (`page-data.js:109-110`).  `Bound(p)` without `Alone(p)` fails in the
  run's bounds after four steps.
* Cross-page data names the oldest root of all pages, page data that of this one
  (`page-data.js:123`): with two roots the reaction is listed twice.
* A +1 on a reaction of another page stores a row without a root on this one
  (`handlers.py:437`), and the page's own data leaves it out (`util_functions.py:451`).
* `suppress` is never reset by new data (`page-data.js:85`), so that the top containers
  of the newest answer may stay hidden.
* `discardUserInfo` passes an object as callback (`user.js:165`): the answer throws and
  its continuation never runs.
* `temp_user` read from a cookie is a non-empty string (`user.js:79`), hence true, also
  for people: they are never deauthorized at the server.
* `goBackToPage` assigns the shortened list to its own parameter
  (`reactions-widget.js:334`), so that closing tears pages down twice, to no effect.

## 7. The plan

Done: the channel with its abstraction, the user session, the page cache, the registry, the counts, the interaction store with its abstraction, the
reactions window, media and throttled events, and the recommendations, all with their
proofs.

Left to model, in this order:

1. `Popup`: one popup for all text of a page, whose click handler is set once.
2. `StartUp`: scripts and settings that load side by side, and callbacks in sequence.
3. A composition of `PageCache` with `PageCounts`' answers, in place of "any prefix".

An abstract specification still worth stating and proving: a registry without URLs, where
an object is its page.
