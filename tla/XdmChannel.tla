----------------------------- MODULE XdmChannel -----------------------------
(***************************************************************************)
(* The cross-domain messaging between the widget on the publisher's page    *)
(* (utils/xdm-client.js) and the hidden frame of the Antenna domain         *)
(* (xdm-new.env.html) that owns the user's cookies and the Facebook SDK.    *)
(*                                                                          *)
(* A request is one call of sendMessage; it is named by its rank, and its   *)
(* rank stands for the random callbackKey the code draws for it.            *)
(***************************************************************************)
EXTENDS Naturals, Sequences

CONSTANTS
    MaxRequests,   \* bound: calls of sendMessage
    MaxReloads     \* bound: times the host page makes the frame load again

ASSUME BoundsAssumption == MaxRequests \in Nat /\ MaxReloads \in Nat

Requests == 1..MaxRequests

\* What the third argument of sendMessage was: a function, nothing, or (as
\* discardUserInfo does) an object that cannot be called.
Callbacks == {"function", "absent", "object"}

\* Cookie operations answer before the frame's listener returns; Facebook
\* operations answer when Facebook does.
Operations == {"cookies", "facebook"}

\* The key of the message the frame sends unasked when it is ready.
xdm_loaded == 0

VARIABLES
    isXDMLoaded,       \* the flag of xdm-client.js
    queuedMessages,    \* messages waiting for the flag (never emptied)
    responseHandlers,  \* the keys that have a handler
    issued,            \* rank of the last request
    callback,          \* the kind of callback of each request
    operation,         \* what each request asks for
    toFrame,           \* messages posted to the frame
    toParent,          \* keys of the messages posted to the page
    frame,             \* the life of the iframe's document
    working,           \* requests Facebook has yet to answer
    reloads,
    performed,         \* history: how often the frame has dispatched each request
    called,            \* history: how often each request's callback was entered
    thrown             \* history: requests whose callback threw

client == <<isXDMLoaded, queuedMessages, responseHandlers, issued, callback, operation>>
history == <<performed, called, thrown>>
vars == <<client, toFrame, toParent, frame, working, reloads, history>>

TypeOK ==
    /\ isXDMLoaded \in BOOLEAN
    /\ queuedMessages \in Seq(Requests)
    /\ responseHandlers \subseteq Requests \cup {xdm_loaded}
    /\ issued \in 0..MaxRequests
    /\ callback \in [Requests -> Callbacks]
    /\ operation \in [Requests -> Operations]
    /\ toFrame \in Seq(Requests)
    /\ toParent \in Seq(Requests \cup {xdm_loaded})
    /\ frame \in {"loading", "listening", "removed"}
    /\ working \subseteq Requests
    /\ reloads \in 0..MaxReloads
    /\ performed \in [Requests -> Nat]
    /\ called \in [Requests -> Nat]
    /\ thrown \subseteq Requests

Init ==
    /\ isXDMLoaded = FALSE
    /\ queuedMessages = <<>>
    /\ responseHandlers = {xdm_loaded}
    /\ issued = 0
    /\ callback = [r \in Requests |-> "absent"]
    /\ operation = [r \in Requests |-> "cookies"]
    /\ toFrame = <<>>
    /\ toParent = <<>>
    /\ frame = "loading"
    /\ working = {}
    /\ reloads = 0
    /\ performed = [r \in Requests |-> 0]
    /\ called = [r \in Requests |-> 0]
    /\ thrown = {}

-----------------------------------------------------------------------------
(* The widget's side                                                        *)

\* postMessage: without a frame in the page the message is dropped.
Posted(messages) == IF frame = "removed" THEN toFrame ELSE toFrame \o messages

\* Mutant: sendMessage does not wait for the frame.
SendMessageUnqueued(kind, op) ==
    /\ issued < MaxRequests
    /\ LET r == issued + 1 IN
       /\ issued' = r
       /\ callback' = [callback EXCEPT ![r] = kind]
       /\ operation' = [operation EXCEPT ![r] = op]
       /\ responseHandlers' = responseHandlers
                                 \cup (IF kind = "absent" THEN {} ELSE {r})
       /\ toFrame' = Posted(<<r>>)
    /\ UNCHANGED <<isXDMLoaded, queuedMessages, toParent, frame, working, reloads, history>>

\* Mutant: the queue gets the rank of the request before.
SendMessageStaleKey(kind, op) ==
    /\ ~isXDMLoaded
    /\ issued < MaxRequests
    /\ issued' = issued + 1
    /\ callback' = [callback EXCEPT ![issued + 1] = kind]
    /\ operation' = [operation EXCEPT ![issued + 1] = op]
    /\ queuedMessages' = Append(queuedMessages, issued)
    /\ UNCHANGED <<isXDMLoaded, responseHandlers, toFrame, toParent, frame,
                   working, reloads, history>>

\* sendMessage, called by any part of the widget at any time.
SendMessage(kind, op) ==
    /\ issued < MaxRequests
    /\ LET r == issued + 1 IN
       /\ issued' = r
       /\ callback' = [callback EXCEPT ![r] = kind]
       /\ operation' = [operation EXCEPT ![r] = op]
       /\ \/ /\ isXDMLoaded
             /\ responseHandlers' = responseHandlers
                                       \cup (IF kind = "absent" THEN {} ELSE {r})
             /\ toFrame' = Posted(<<r>>)
             /\ UNCHANGED queuedMessages
          \/ /\ ~isXDMLoaded
             /\ queuedMessages' = Append(queuedMessages, r)
             /\ UNCHANGED <<responseHandlers, toFrame>>
    /\ UNCHANGED <<isXDMLoaded, toParent, frame, working, reloads, history>>

\* Mutants: the flush forgets the last message of the queue; the handler of
\* xdm_loaded is kept, so that a frame that loads again gets the queue again.
XdmLoadedDropsLast ==
    /\ isXDMLoaded' = TRUE
    /\ toFrame' = Posted(SubSeq(queuedMessages, 1, Len(queuedMessages) - 1))
    /\ responseHandlers' =
          (responseHandlers \ {xdm_loaded})
             \cup {r \in 1..issued : callback[r] # "absent"}
    /\ UNCHANGED history

XdmLoadedKeepsHandler ==
    /\ isXDMLoaded' = TRUE
    /\ toFrame' = Posted(queuedMessages)
    /\ responseHandlers' =
          responseHandlers \cup {r \in 1..issued : callback[r] # "absent"}
    /\ UNCHANGED history

\* xdmLoaded, as the handler of the message of the same name: raise the flag
\* and send every queued message, in order.  receiveMessage then deletes the
\* handler, so that no later message of that name has one.
XdmLoaded ==
    /\ isXDMLoaded' = TRUE
    /\ toFrame' = Posted(queuedMessages)
    /\ responseHandlers' =
          (responseHandlers \ {xdm_loaded})
             \cup {r \in 1..issued : callback[r] # "absent"}
    /\ UNCHANGED history

\* Mutant: the handlers of answered requests are never deleted.
AnsweredKeepsHandler(r) ==
    /\ called' = [called EXCEPT ![r] = @ + 1]
    /\ \/ callback[r] = "function" /\ UNCHANGED thrown
       \/ thrown' = thrown \cup {r}
    /\ UNCHANGED <<isXDMLoaded, responseHandlers, toFrame, performed>>

\* receiveMessage for the answer to r: the handler is deleted only when the
\* call of it returns; a function may throw, and an object always does.
Answered(r) ==
    /\ called' = [called EXCEPT ![r] = @ + 1]
    /\ \/ /\ callback[r] = "function"
          /\ responseHandlers' = responseHandlers \ {r}
          /\ UNCHANGED thrown
       \/ /\ thrown' = thrown \cup {r}
          /\ UNCHANGED responseHandlers
    /\ UNCHANGED <<isXDMLoaded, toFrame, performed>>

\* receiveMessage
ReceiveMessage ==
    /\ toParent # <<>>
    /\ LET key == Head(toParent) IN
       \/ key \in responseHandlers /\ key = xdm_loaded /\ XdmLoaded
       \/ key \in responseHandlers /\ key # xdm_loaded /\ Answered(key)
       \/ /\ key \notin responseHandlers
          /\ UNCHANGED <<isXDMLoaded, responseHandlers, toFrame, history>>
    /\ toParent' = Tail(toParent)
    /\ UNCHANGED <<queuedMessages, issued, callback, operation, frame, working, reloads>>

-----------------------------------------------------------------------------
(* The frame's side                                                         *)

\* window.fbAsyncInit: listen first, then say so.
FbAsyncInit ==
    /\ frame = "loading"
    /\ frame' = "listening"
    /\ toParent' = Append(toParent, xdm_loaded)
    /\ UNCHANGED <<client, toFrame, working, reloads, history>>

\* MessageHandler.receiveMessage and dispatch.  A document with no listener
\* yet lets the message pass unheard.
Dispatch ==
    /\ frame # "removed"
    /\ toFrame # <<>>
    /\ toFrame' = Tail(toFrame)
    /\ LET r == Head(toFrame) IN
       IF frame = "loading"
       THEN UNCHANGED <<toParent, working, performed>>
       ELSE /\ performed' = [performed EXCEPT ![r] = @ + 1]
            /\ IF operation[r] = "cookies"
               THEN toParent' = Append(toParent, r) /\ UNCHANGED working
               ELSE working' = working \cup {r} /\ UNCHANGED toParent
    /\ UNCHANGED <<client, frame, reloads, called, thrown>>

\* Facebook answers one of the calls made of it; it may also never do so.
FacebookAnswers(r) ==
    /\ r \in working
    /\ working' = working \ {r}
    /\ toParent' = Append(toParent, r)
    /\ UNCHANGED <<client, toFrame, frame, reloads, history>>

\* The host page moves the widget's bucket in its DOM, and the browser loads
\* the frame's document anew: what the old document was doing is gone.
HostReloadsFrame ==
    /\ frame # "removed"
    /\ reloads < MaxReloads
    /\ reloads' = reloads + 1
    /\ frame' = "loading"
    /\ working' = {}
    /\ UNCHANGED <<client, toFrame, toParent, history>>

\* The host page replaces its body, and the frame with it.
HostRemovesFrame ==
    /\ frame # "removed"
    /\ frame' = "removed"
    /\ working' = {}
    /\ toFrame' = <<>>
    /\ UNCHANGED <<client, toParent, reloads, history>>

Next ==
    \/ \E kind \in Callbacks, op \in Operations : SendMessage(kind, op)
    \/ ReceiveMessage
    \/ FbAsyncInit
    \/ Dispatch
    \/ \E r \in Requests : FacebookAnswers(r)
    \/ HostReloadsFrame
    \/ HostRemovesFrame

Spec == Init /\ [][Next]_vars

\* Both event loops run what was posted to them.  Nothing makes the frame load
\* (the Facebook SDK may be blocked) or Facebook answer.
FairSpec == Spec /\ WF_vars(ReceiveMessage) /\ WF_vars(Dispatch)

-----------------------------------------------------------------------------
(* Properties                                                               *)

\* The channel keeps its promise: requests are performed in the order in which
\* they were made, whether they waited for the frame or not, none is performed
\* twice and no callback is entered twice, although the queue is never emptied
\* and the frame may announce itself again (xdm-client.js:11-18 and 46-48).
Promise ==
    INSTANCE RequestReply
    WITH Requests <- Requests, issued <- issued, performed <- performed, called <- called
ImplementsPromise == Promise!Spec

\* The page posts nothing to the frame before the frame has said that it
\* listens (xdm-client.js:21; xdm-new.env.html:224-225).
Performed == {r \in Requests : performed[r] > 0}
NothingSentEarly == (~isXDMLoaded) => (toFrame = <<>> /\ Performed = {})

\* A request whose callback has returned keeps no handler, whether it was sent
\* at once or waited in the queue, so that the table does not grow with the
\* answered requests (xdm-client.js:46-48); one whose callback threw does.
Called == {r \in Requests : called[r] > 0}
Settled == Called \ thrown
HandlersAwaitAnswers == responseHandlers \cap Settled = {}

\* Once the frame has announced itself, every cookie request with a callback
\* is answered: those that were queued as well as those sent later, as long as
\* the host page leaves the frame alone (xdm-client.js:14-17).
Disturbed == reloads > 0 \/ frame = "removed"
CookieRequestsAnswered ==
    \A r \in Requests :
        (/\ isXDMLoaded /\ r <= issued
         /\ callback[r] = "function" /\ operation[r] = "cookies")
            ~> (r \in Called \/ Disturbed)
=============================================================================
