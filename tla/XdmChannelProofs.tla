-------------------------- MODULE XdmChannelProofs --------------------------
(***************************************************************************)
(* Proofs about XdmChannel, for every number of requests and reloads: its   *)
(* type invariant, that nothing is sent early, that answered requests leave *)
(* no handler behind, and that it implements RequestReply.                  *)
(***************************************************************************)
EXTENDS XdmChannel, SequenceTheorems, TLAPS

\* Until the frame announces itself the channel is silent and the queue holds
\* every request in order; its handler is present exactly that long.
Silence ==
    /\ isXDMLoaded <=> xdm_loaded \notin responseHandlers
    /\ ~isXDMLoaded =>
          /\ toFrame = <<>> /\ Performed = {} /\ Called = {} /\ working = {}
          /\ Len(queuedMessages) = issued
          /\ \A i \in 1..Len(queuedMessages) : queuedMessages[i] = i
          /\ \A i \in 1..Len(toParent) : toParent[i] = xdm_loaded

\* Messages on the way to the frame are in order and later than all it has seen.
Outward ==
    /\ \A i \in 1..Len(toFrame) : toFrame[i] <= issued
    /\ \A i, j \in 1..Len(toFrame) : i < j => toFrame[i] < toFrame[j]
    /\ \A i \in 1..Len(toFrame) : \A q \in Performed : q < toFrame[i]
    /\ \A q \in Performed : q <= issued

\* A performed request is owed at most one answer: by Facebook, or under way.
Inward ==
    /\ working \cup Called \subseteq Performed
    /\ working \cap Called = {}
    /\ \A i \in 1..Len(toParent) :
          toParent[i] # xdm_loaded =>
             /\ toParent[i] \in Performed
             /\ toParent[i] \notin working \cup Called
    /\ \A i, j \in 1..Len(toParent) :
          i # j => (toParent[i] = xdm_loaded \/ toParent[i] # toParent[j])

Inv == TypeOK /\ Silence /\ Outward /\ Inward /\ HandlersAwaitAnswers

-----------------------------------------------------------------------------
(* Sequences: taking the first message, adding one at the end.              *)

LEMMA TakeFirst ==
    ASSUME NEW S, NEW s \in Seq(S), s # <<>>
    PROVE  /\ Len(s) \in Nat \ {0}
           /\ Head(s) = s[1]
           /\ Head(s) \in S
           /\ Tail(s) \in Seq(S)
           /\ Len(Tail(s)) = Len(s) - 1
           /\ \A i \in 1..Len(Tail(s)) : i + 1 \in 1..Len(s) /\ Tail(s)[i] = s[i + 1]
  OBVIOUS

LEMMA AddLast ==
    ASSUME NEW S, NEW s \in Seq(S), NEW e \in S
    PROVE  /\ Append(s, e) \in Seq(S)
           /\ Len(Append(s, e)) = Len(s) + 1
           /\ Len(s) \in Nat
           /\ \A i \in 1..Len(Append(s, e)) :
                 \/ i = Len(s) + 1 /\ Append(s, e)[i] = e
                 \/ i \in 1..Len(s) /\ Append(s, e)[i] = s[i]
  OBVIOUS

\* Counts: one more of r.
LEMMA OneMore ==
    ASSUME NEW f \in [Requests -> Nat], NEW r \in Requests
    PROVE  LET g == [f EXCEPT ![r] = @ + 1]
           IN  /\ g \in [Requests -> Nat]
               /\ {q \in Requests : g[q] > 0} = {q \in Requests : f[q] > 0} \cup {r}
  OBVIOUS

-----------------------------------------------------------------------------
(* Types                                                                    *)

LEMMA TypePreserved == TypeOK /\ [Next]_vars => TypeOK'
  <1> SUFFICES ASSUME TypeOK, [Next]_vars PROVE TypeOK'
      OBVIOUS
  <1> USE BoundsAssumption DEF Requests, xdm_loaded
  <1> USE DEF TypeOK
  <1>1. ASSUME NEW kind \in Callbacks, NEW op \in Operations, SendMessage(kind, op)
        PROVE  TypeOK'
      <2> DEFINE r == issued + 1
      <2>1. r \in Requests
            BY <1>1 DEF SendMessage
      <2>2. Append(queuedMessages, r) \in Seq(Requests)
            BY <2>1, AddLast
      <2>3. Posted(<<r>>) \in Seq(Requests)
        <3>1. Append(toFrame, r) = toFrame \o <<r>>
              BY <2>1, AppendIsConcat
        <3>2. Append(toFrame, r) \in Seq(Requests)
              BY <2>1, AddLast
        <3> QED BY <3>1, <3>2 DEF Posted
      <2>4. UNCHANGED <<isXDMLoaded, toParent, frame, working, reloads, history>>
            BY <1>1 DEF SendMessage
      <2>5. /\ issued' = r
            /\ callback' = [callback EXCEPT ![r] = kind]
            /\ operation' = [operation EXCEPT ![r] = op]
            BY <1>1 DEF SendMessage
      <2>6. responseHandlers' \subseteq responseHandlers \cup {r}
            BY <1>1 DEF SendMessage
      <2>7. queuedMessages' \in Seq(Requests) /\ toFrame' \in Seq(Requests)
            BY <1>1, <2>2, <2>3 DEF SendMessage
      <2>8. r \in 0..MaxRequests
            BY <2>1
      <2> HIDE DEF r
      <2> QED BY <2>1, <2>4, <2>5, <2>6, <2>7, <2>8 DEF history
  <1>2. CASE ReceiveMessage
      <2>1. /\ Head(toParent) \in Requests \cup {xdm_loaded}
            /\ Tail(toParent) \in Seq(Requests \cup {xdm_loaded})
            BY <1>2, TakeFirst DEF ReceiveMessage
      <2>2. Posted(queuedMessages) \in Seq(Requests)
            BY ConcatProperties DEF Posted
      <2>3. CASE Head(toParent) = xdm_loaded /\ XdmLoaded
        <3>1. /\ isXDMLoaded' \in BOOLEAN
              /\ responseHandlers' \subseteq Requests \cup {xdm_loaded}
              /\ toFrame' \in Seq(Requests)
          <4>1. {r \in 1..issued : callback[r] # "absent"} \subseteq Requests
                OBVIOUS
          <4> QED BY <2>2, <2>3, <4>1 DEF XdmLoaded
        <3> QED BY <1>2, <2>1, <2>3, <3>1 DEF ReceiveMessage, XdmLoaded, history
      <2>4. CASE Head(toParent) # xdm_loaded /\ Answered(Head(toParent))
        <3>1. called' \in [Requests -> Nat]
              BY <2>1, <2>4 DEF Answered
        <3> QED BY <1>2, <2>1, <2>4, <3>1 DEF ReceiveMessage, Answered
      <2>5. CASE UNCHANGED <<isXDMLoaded, responseHandlers, toFrame, history>>
            BY <1>2, <2>1, <2>5 DEF ReceiveMessage, history
      <2> QED BY <1>2, <2>3, <2>4, <2>5 DEF ReceiveMessage
  <1>3. CASE FbAsyncInit
      BY <1>3, AddLast DEF FbAsyncInit, client, history
  <1>4. CASE Dispatch
      <2>1. Head(toFrame) \in Requests /\ Tail(toFrame) \in Seq(Requests)
            BY <1>4, TakeFirst DEF Dispatch
      <2>2. Append(toParent, Head(toFrame)) \in Seq(Requests \cup {xdm_loaded})
            BY <2>1, AddLast
      <2>3. performed' \in [Requests -> Nat] /\ working' \subseteq Requests
        <3>1. CASE UNCHANGED <<toParent, working, performed>>
              BY <3>1
        <3>2. CASE performed' = [performed EXCEPT ![Head(toFrame)] = @ + 1]
          <4>1. performed' \in [Requests -> Nat]
                BY <2>1, <3>2, OneMore
          <4>2. working' \subseteq Requests
                BY <1>4, <2>1 DEF Dispatch
          <4> QED BY <4>1, <4>2
        <3> QED BY <1>4, <3>1, <3>2 DEF Dispatch
      <2>4. toFrame' \in Seq(Requests) /\ toParent' \in Seq(Requests \cup {xdm_loaded})
            BY <1>4, <2>1, <2>2 DEF Dispatch
      <2> QED BY <1>4, <2>3, <2>4 DEF Dispatch, client
  <1>5. ASSUME NEW r \in Requests, FacebookAnswers(r) PROVE TypeOK'
      BY <1>5, AddLast DEF FacebookAnswers, client, history
  <1>6. CASE HostReloadsFrame
      BY <1>6 DEF HostReloadsFrame, client, history
  <1>7. CASE HostRemovesFrame
      BY <1>7, EmptySeq DEF HostRemovesFrame, client, history
  <1>8. CASE UNCHANGED vars
      BY <1>8 DEF vars, client, history
  <1> QED BY <1>1, <1>2, <1>3, <1>4, <1>5, <1>6, <1>7, <1>8 DEF Next

LEMMA InitTyped == Init => TypeOK
  <1> SUFFICES ASSUME Init PROVE TypeOK
      OBVIOUS
  <1>1. <<>> \in Seq(Requests) /\ <<>> \in Seq(Requests \cup {xdm_loaded})
      BY EmptySeq
  <1>2. /\ callback \in [Requests -> Callbacks]
        /\ operation \in [Requests -> Operations]
      BY DEF Init, Callbacks, Operations
  <1>3. issued \in 0..MaxRequests /\ reloads \in 0..MaxReloads
      BY BoundsAssumption DEF Init
  <1> QED BY <1>1, <1>2, <1>3 DEF Init, TypeOK

\* The state of the channel always has its type (xdm-client.js:6-9).
THEOREM TypeCorrect == Spec => []TypeOK
  BY InitTyped, TypePreserved, PTL DEF Spec

-----------------------------------------------------------------------------
(* The invariant                                                            *)

\* What has been performed and called back, as sets, follows the counts.
LEMMA HistoryKept == /\ UNCHANGED performed => UNCHANGED Performed
                     /\ UNCHANGED called => UNCHANGED Called
  BY DEF Performed, Called

LEMMA InvPreserved == Inv /\ [Next]_vars => Inv'
  <1> SUFFICES ASSUME Inv, [Next]_vars PROVE Inv'
      OBVIOUS
  <1> USE BoundsAssumption DEF Requests, xdm_loaded
  <1>0. TypeOK /\ TypeOK'
      BY TypePreserved DEF Inv
  <1>t. /\ toFrame \in Seq(Requests) /\ toFrame' \in Seq(Requests)
        /\ toParent \in Seq(Requests \cup {xdm_loaded})
        /\ queuedMessages \in Seq(Requests)
        /\ issued \in 0..MaxRequests
        /\ responseHandlers \subseteq Requests \cup {xdm_loaded}
        /\ Performed \subseteq Requests /\ Called \subseteq Requests
      BY <1>0 DEF TypeOK, Performed, Called
  <1>1. ASSUME NEW kind \in Callbacks, NEW op \in Operations, SendMessage(kind, op)
        PROVE  Inv'
      <2> DEFINE r == issued + 1
      <2>1. /\ r \in Requests /\ issued' = r /\ issued \in Nat
            /\ UNCHANGED <<isXDMLoaded, toParent, working, Performed, Called, thrown>>
            BY <1>t, <1>1, HistoryKept DEF SendMessage, history
      <2>2. /\ responseHandlers' \subseteq responseHandlers \cup {r}
            /\ responseHandlers \subseteq responseHandlers'
            BY <1>1 DEF SendMessage
      <2>3. isXDMLoaded => toFrame' = toFrame \/ toFrame' = Append(toFrame, r)
            BY <1>t, <1>1, <2>1, AppendIsConcat, SMTT(30) DEF SendMessage, Posted
      <2>4. ~isXDMLoaded => /\ queuedMessages' = Append(queuedMessages, r)
                            /\ UNCHANGED <<toFrame, responseHandlers>>
            BY <1>1 DEF SendMessage
      <2>5. r \notin Performed /\ r \notin Called
            BY <2>1 DEF Inv, Outward, Inward
      <2> HIDE DEF r
      <2>6. Silence'
        <3>1. isXDMLoaded' <=> xdm_loaded \notin responseHandlers'
              BY <2>1, <2>2 DEF Inv, Silence
        <3>2. ASSUME ~isXDMLoaded
              PROVE  /\ Len(queuedMessages') = issued'
                     /\ \A i \in 1..Len(queuedMessages') : queuedMessages'[i] = i
          <4>0. queuedMessages' = Append(queuedMessages, r)
                BY <2>4, <3>2
          <4>1. /\ Len(queuedMessages') = Len(queuedMessages) + 1
                /\ \A i \in 1..Len(queuedMessages') :
                      \/ i = Len(queuedMessages) + 1 /\ queuedMessages'[i] = r
                      \/ i \in 1..Len(queuedMessages) /\ queuedMessages'[i] = queuedMessages[i]
                BY <1>t, <2>1, <4>0, AddLast
          <4>2. Len(queuedMessages) = issued
                BY <3>2 DEF Inv, Silence
          <4> QED BY <2>1, <3>2, <4>1, <4>2 DEF Inv, Silence, r
        <3> QED BY <2>1, <2>4, <3>1, <3>2 DEF Inv, Silence
      <2>7. Outward'
        <3>1. CASE toFrame' = toFrame
          <4>1. \A i \in 1..Len(toFrame) : toFrame[i] \in Nat
                BY <1>t, ElementOfSeq
          <4> QED BY <1>t, <2>1, <3>1, <4>1 DEF Inv, Outward, r
        <3>2. CASE toFrame' = Append(toFrame, r)
          <4>1. \A i \in 1..Len(toFrame') :
                   \/ i = Len(toFrame) + 1 /\ toFrame'[i] = r
                   \/ i \in 1..Len(toFrame) /\ toFrame'[i] = toFrame[i]
                BY <1>t, <2>1, <3>2, AddLast
          <4>2. \A i \in 1..Len(toFrame) : toFrame[i] \in Nat /\ toFrame[i] < r
                BY <1>t, <2>1, ElementOfSeq DEF Inv, Outward, r
          <4>3. \A q \in Performed : q \in Nat /\ q < r
                BY <1>t, <2>1 DEF Inv, Outward, r
          <4>4. r \in Nat /\ issued' = r /\ Performed' = Performed /\ Len(toFrame) \in Nat
                BY <1>t, <2>1, LenProperties
          <4>5. \A i \in 1..Len(toFrame') : toFrame'[i] <= issued'
                BY <4>1, <4>2, <4>4
          <4>6. \A i, j \in 1..Len(toFrame') : i < j => toFrame'[i] < toFrame'[j]
                BY <4>1, <4>2, <4>4 DEF Inv, Outward
          <4>7. \A i \in 1..Len(toFrame') : \A q \in Performed' : q < toFrame'[i]
                BY <4>1, <4>3, <4>4 DEF Inv, Outward
          <4> QED BY <4>3, <4>4, <4>5, <4>6, <4>7 DEF Outward
        <3> QED BY <2>3, <2>4, <3>1, <3>2
      <2>8. Inward' /\ HandlersAwaitAnswers'
            BY <2>1, <2>2, <2>5 DEF Inv, Inward, HandlersAwaitAnswers, Settled
      <2> QED BY <1>0, <2>6, <2>7, <2>8 DEF Inv
  <1>2. CASE ReceiveMessage
      <2> DEFINE key == Head(toParent)
      <2>1. /\ toParent' = Tail(toParent)
            /\ UNCHANGED <<queuedMessages, issued, working>>
            /\ key = toParent[1] /\ 1 \in 1..Len(toParent)
            /\ \A i \in 1..Len(toParent') :
                  i + 1 \in 1..Len(toParent) /\ toParent'[i] = toParent[i + 1] /\ i + 1 # 1
            BY <1>t, <1>2, TakeFirst DEF ReceiveMessage
      <2>2. \A i, j \in 1..Len(toParent') : i # j => i + 1 # j + 1
            OBVIOUS
      <2> HIDE DEF key
      <2>3. CASE key \in responseHandlers /\ key = xdm_loaded /\ XdmLoaded
        <3>1. ~isXDMLoaded /\ Performed = {} /\ Called = {} /\ working = {}
              BY <2>3 DEF Inv, Silence
        <3>2. UNCHANGED <<Performed, Called, thrown>>
              BY <2>3, HistoryKept DEF XdmLoaded, history
        <3>3. Silence'
              BY <1>t, <2>3 DEF XdmLoaded, Silence
        <3>4. Outward'
          <4>1. toFrame' = <<>> \/ toFrame' = queuedMessages
                BY <1>t, <2>3, <3>1, ConcatEmptySeq DEF XdmLoaded, Posted, Inv, Silence
          <4>2. \A i \in 1..Len(toFrame') : toFrame'[i] = i /\ i <= issued
                BY <1>t, <3>1, <4>1, LenProperties DEF Inv, Silence
          <4> QED BY <2>1, <3>1, <3>2, <4>2 DEF Outward
        <3>5. Inward'
              BY <2>1, <2>2, <3>1, <3>2 DEF Inv, Inward, Silence
        <3>6. HandlersAwaitAnswers'
              BY <3>1, <3>2 DEF HandlersAwaitAnswers, Settled
        <3> QED BY <1>0, <3>3, <3>4, <3>5, <3>6 DEF Inv
      <2>4. CASE key \in responseHandlers /\ key # xdm_loaded /\ Answered(key)
        <3>1. /\ Called' = Called \cup {key}
              /\ UNCHANGED <<isXDMLoaded, toFrame, Performed>>
          <4>1. key \in Requests /\ called \in [Requests -> Nat]
                BY <1>0, <1>t, <2>1, <2>4 DEF TypeOK
          <4>2. /\ called' = [called EXCEPT ![key] = @ + 1]
                /\ UNCHANGED <<isXDMLoaded, toFrame, performed>>
                BY <2>4 DEF Answered
          <4>3. Called' = Called \cup {key}
                BY <4>1, <4>2, OneMore DEF Called
          <4> QED BY <4>2, <4>3, HistoryKept
        <3>2. /\ isXDMLoaded
              /\ key \in Performed /\ key \notin working \cup Called
              BY <2>1, <2>4 DEF Inv, Silence, Inward
        <3>3. \/ responseHandlers' = responseHandlers /\ thrown' = thrown \cup {key}
              \/ responseHandlers' = responseHandlers \ {key} /\ thrown' = thrown
              BY <2>4 DEF Answered
        <3>4. Silence'
              BY <2>1, <2>4, <3>1, <3>2, <3>3 DEF Inv, Silence
        <3>5. Outward'
              BY <2>1, <3>1 DEF Inv, Outward
        <3>6. Inward'
              BY <2>1, <2>2, <2>4, <3>1, <3>2 DEF Inv, Inward
        <3>7. HandlersAwaitAnswers'
              BY <3>1, <3>3 DEF Inv, HandlersAwaitAnswers, Settled
        <3> QED BY <1>0, <3>4, <3>5, <3>6, <3>7 DEF Inv
      <2>5. CASE UNCHANGED <<isXDMLoaded, responseHandlers, toFrame, history>>
        <3>0. UNCHANGED <<Performed, Called>>
              BY <2>5, HistoryKept DEF history
        <3>1. Silence' /\ Outward' /\ HandlersAwaitAnswers'
              BY <2>1, <2>5, <3>0 DEF Inv, Silence, Outward, HandlersAwaitAnswers, Settled, history
        <3>2. Inward'
              BY <2>1, <2>2, <2>5, <3>0 DEF Inv, Inward, history
        <3> QED BY <1>0, <3>1, <3>2 DEF Inv
      <2> QED BY <1>2, <2>3, <2>4, <2>5 DEF ReceiveMessage, key
  <1>3. CASE FbAsyncInit
      <2>1. /\ toParent' = Append(toParent, xdm_loaded)
            /\ UNCHANGED <<client, toFrame, working, history, Performed, Called>>
            BY <1>3, HistoryKept DEF FbAsyncInit, history
      <2>2. \A i \in 1..Len(toParent') :
               \/ toParent'[i] = xdm_loaded
               \/ i \in 1..Len(toParent) /\ toParent'[i] = toParent[i]
            BY <1>t, <2>1, AddLast
      <2>3. Silence' /\ Outward' /\ HandlersAwaitAnswers'
            BY <2>1, <2>2 DEF Inv, Silence, Outward, HandlersAwaitAnswers, Settled, client, history
      <2>4. Inward'
            BY <2>1, <2>2 DEF Inv, Inward, history
      <2> QED BY <1>0, <2>3, <2>4 DEF Inv
  <1>4. CASE Dispatch
      <2> DEFINE r == Head(toFrame)
      <2>1. /\ toFrame' = Tail(toFrame)
            /\ r = toFrame[1] /\ 1 \in 1..Len(toFrame) /\ r \in Requests
            /\ \A i \in 1..Len(toFrame') :
                  i + 1 \in 1..Len(toFrame) /\ toFrame'[i] = toFrame[i + 1] /\ 1 < i + 1
            /\ UNCHANGED <<client, Called, thrown>>
            BY <1>t, <1>4, TakeFirst, HistoryKept DEF Dispatch
      <2>2. isXDMLoaded /\ r \notin Performed /\ \A q \in Performed : q < r
            BY <2>1 DEF Inv, Silence, Outward
      <2>3. \/ UNCHANGED <<toParent, working, Performed>>
            \/ /\ Performed' = Performed \cup {r}
               /\ \/ toParent' = Append(toParent, r) /\ UNCHANGED working
                  \/ working' = working \cup {r} /\ UNCHANGED toParent
        <3>1. CASE UNCHANGED <<toParent, working, performed>>
              BY <3>1, HistoryKept
        <3>2. CASE /\ performed' = [performed EXCEPT ![r] = @ + 1]
                   /\ \/ toParent' = Append(toParent, r) /\ UNCHANGED working
                      \/ working' = working \cup {r} /\ UNCHANGED toParent
          <4>0. performed \in [Requests -> Nat]
                BY <1>0 DEF TypeOK
          <4>1. Performed' = Performed \cup {r}
                BY <2>1, <3>2, <4>0, OneMore DEF Performed
          <4> QED BY <3>2, <4>1
        <3> QED BY <1>4, <3>1, <3>2 DEF Dispatch
      <2> HIDE DEF r
      <2>4. Silence' /\ HandlersAwaitAnswers'
            BY <2>1, <2>2 DEF Inv, Silence, HandlersAwaitAnswers, Settled, client
      <2>5. Performed' \subseteq Performed \cup {r}
            BY <2>3
      <2>6. Outward'
        <3>1. \A i \in 1..Len(toFrame') : r < toFrame'[i]
              BY <2>1 DEF Inv, Outward
        <3> QED BY <2>1, <2>5, <3>1 DEF Inv, Outward, client
      <2>7. Inward'
        <3>1. r \notin Called /\ r \notin working
              BY <2>2 DEF Inv, Inward
        <3>2. \A i \in 1..Len(toParent) : toParent[i] # r
              BY <2>1, <2>2 DEF Inv, Inward
        <3>3. CASE /\ Performed' = Performed \cup {r}
                   /\ toParent' = Append(toParent, r) /\ UNCHANGED working
          <4>1. \A i \in 1..Len(toParent') :
                   \/ i = Len(toParent) + 1 /\ toParent'[i] = r
                   \/ i \in 1..Len(toParent) /\ toParent'[i] = toParent[i]
                BY <1>t, <2>1, <3>3, AddLast
          <4> QED BY <2>1, <3>1, <3>2, <3>3, <4>1 DEF Inv, Inward
        <3> QED BY <2>1, <2>3, <3>1, <3>2, <3>3 DEF Inv, Inward
      <2> QED BY <1>0, <2>4, <2>6, <2>7 DEF Inv
  <1>5. ASSUME NEW r \in Requests, FacebookAnswers(r) PROVE Inv'
      <2>1. /\ r \in working /\ working' = working \ {r}
            /\ toParent' = Append(toParent, r)
            /\ UNCHANGED <<client, toFrame, history, Performed, Called>>
            BY <1>5, HistoryKept DEF FacebookAnswers, history
      <2>2. \A i \in 1..Len(toParent') :
               \/ i = Len(toParent) + 1 /\ toParent'[i] = r
               \/ i \in 1..Len(toParent) /\ toParent'[i] = toParent[i]
            BY <1>t, <2>1, AddLast
      <2>3. Silence' /\ Outward' /\ HandlersAwaitAnswers'
            BY <2>1 DEF Inv, Silence, Outward, HandlersAwaitAnswers, Settled, client, history
      <2>4. \A i \in 1..Len(toParent) : toParent[i] # r
            BY <2>1 DEF Inv, Inward
      <2>5. Inward'
            BY <2>1, <2>2, <2>4 DEF Inv, Inward, history
      <2> QED BY <1>0, <2>3, <2>5 DEF Inv
  <1>6. CASE HostReloadsFrame
      BY <1>0, <1>6, HistoryKept DEF HostReloadsFrame, client, history, Inv, Silence, Outward, Inward,
                        HandlersAwaitAnswers, Settled
  <1>7. CASE HostRemovesFrame
      BY <1>0, <1>7, HistoryKept DEF HostRemovesFrame, client, history, Inv, Silence, Outward, Inward,
                        HandlersAwaitAnswers, Settled
  <1>8. CASE UNCHANGED vars
      BY <1>0, <1>8, HistoryKept DEF vars, client, history, Inv, Silence, Outward, Inward,
                        HandlersAwaitAnswers, Settled
  <1> QED BY <1>1, <1>2, <1>3, <1>4, <1>5, <1>6, <1>7, <1>8 DEF Next

LEMMA InvHolds == Spec => []Inv
  <1>1. Init => Inv
    <2> SUFFICES ASSUME Init PROVE Inv
        OBVIOUS
    <2>1. TypeOK
        BY InitTyped
    <2>2. Performed = {} /\ Called = {}
        BY DEF Init, Performed, Called
    <2> QED BY <2>1, <2>2, BoundsAssumption
            DEF Init, Inv, Silence, Outward, Inward, HandlersAwaitAnswers, Settled, xdm_loaded
  <1> QED BY <1>1, InvPreserved, PTL DEF Spec

\* Nothing is posted before the frame has announced itself (xdm-client.js:21).
THEOREM NeverSentEarly == Spec => []NothingSentEarly
  <1>1. Inv => NothingSentEarly
      BY DEF Inv, Silence, NothingSentEarly
  <1> QED BY <1>1, InvHolds, PTL

\* The table of handlers sheds every request whose callback returned
\* (xdm-client.js:46-48).
THEOREM HandlersAreShed == Spec => []HandlersAwaitAnswers
  <1>1. Inv => HandlersAwaitAnswers
      BY DEF Inv
  <1> QED BY <1>1, InvHolds, PTL

\* The channel implements its promise, with every dispatch and every callback
\* counted: in order, none performed twice, none called back twice
\* (xdm-client.js:11-18 and 46-48).
THEOREM ChannelImplementsPromise == Spec => ImplementsPromise
  <1>1. Init => Promise!Init
      BY DEF Init, Promise!Init
  <1>2. Inv /\ [Next]_vars => [Promise!Next]_Promise!vars
    <2> SUFFICES ASSUME Inv, [Next]_vars PROVE [Promise!Next]_Promise!vars
        OBVIOUS
    <2> USE BoundsAssumption DEF Requests, xdm_loaded, Promise!vars
    <2>0. TypeOK
        BY DEF Inv
    <2>1. ASSUME NEW kind \in Callbacks, NEW op \in Operations, SendMessage(kind, op)
          PROVE  Promise!Issue
        BY <2>1 DEF SendMessage, history, Promise!Issue
    <2>2. CASE ReceiveMessage
      <3> DEFINE key == Head(toParent)
      <3>1. key = toParent[1] /\ 1 \in 1..Len(toParent)
          BY <2>0, <2>2, TakeFirst DEF ReceiveMessage, TypeOK
      <3> HIDE DEF key
      <3>2. CASE key \in responseHandlers /\ key # xdm_loaded /\ Answered(key)
        <4>1. key \in Performed /\ key \notin Called /\ key \in Requests
            BY <2>0, <3>1, <3>2 DEF Inv, Inward, TypeOK, Performed
        <4>2. performed[key] > 0 /\ called[key] = 0
            BY <2>0, <4>1 DEF TypeOK, Performed, Called
        <4>3. Promise!Call(key)
            BY <2>0, <2>2, <3>2, <4>1, <4>2 DEF ReceiveMessage, Answered, Promise!Call, TypeOK
        <4> QED BY <4>1, <4>3 DEF Promise!Next
      <3>3. CASE XdmLoaded \/ UNCHANGED history
          BY <2>2, <3>3 DEF ReceiveMessage, XdmLoaded, history
      <3> QED BY <2>2, <3>2, <3>3 DEF ReceiveMessage, history, key
    <2>3. CASE Dispatch
      <3> DEFINE r == Head(toFrame)
      <3>1. r = toFrame[1] /\ 1 \in 1..Len(toFrame) /\ r \in Requests
          BY <2>0, <2>3, TakeFirst DEF Dispatch, TypeOK
      <3> HIDE DEF r
      <3>2. CASE performed' = [performed EXCEPT ![r] = @ + 1]
        <4>1. r <= issued /\ \A q \in Requests : performed[q] > 0 => q < r
            BY <2>0, <3>1 DEF Inv, Outward, TypeOK, Performed
        <4>2. Promise!Perform(r)
            BY <2>3, <3>2, <4>1 DEF Dispatch, client, Promise!Perform
        <4> QED BY <3>1, <4>2 DEF Promise!Next
      <3>3. CASE UNCHANGED performed
          BY <2>3, <3>3 DEF Dispatch, client
      <3> QED BY <2>3, <3>2, <3>3 DEF Dispatch, r
    <2>4. CASE FbAsyncInit \/ HostReloadsFrame \/ HostRemovesFrame \/ UNCHANGED vars
        BY <2>4 DEF FbAsyncInit, HostReloadsFrame, HostRemovesFrame, vars, client, history
    <2>5. ASSUME NEW r \in Requests, FacebookAnswers(r)
          PROVE  UNCHANGED Promise!vars
        BY <2>5 DEF FacebookAnswers, client, history
    <2> QED BY <2>1, <2>2, <2>3, <2>4, <2>5 DEF Next, Promise!Next
  <1> QED BY <1>1, <1>2, InvHolds, PTL DEF Spec, ImplementsPromise, Promise!Spec
=============================================================================
