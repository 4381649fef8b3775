------------------------- MODULE UserSessionProofs --------------------------
(***************************************************************************)
(* Theorems about UserSession, for any number of flows at once.  All rest   *)
(* on what the channel to the frame holds: one request or answer at most of *)
(* each flow, and that only while the flow waits for it.                    *)
(***************************************************************************)
EXTENDS UserSession, SequenceTheorems, TLAPS

-----------------------------------------------------------------------------
(* The inductive invariants                                                 *)

(* Where a flow waits for cookies, and where for Facebook. *)
Reads == {"getCookies", "refresh", "reauthCookies"}
Dialogs == {"fbDialog", "reauthStatus", "reauthDialog"}

(* What a place says of the user that the flow has, and of its past. *)
LoginPlaces == {"fbDialog", "fbToken", "fbTokenGranted", "fbTokenRefused", "antennaWindow",
                "antennaClosing", "refresh"}
PlaceInv ==
    \A f \in Flows :
        /\ pc[f] \in {"created", "signInRequired", "loginPage", "antennaWindow",
                      "antennaClosing", "refresh", "fbDialog"} => user[f].kind = "temporary"
        /\ pc[f] = "created" => user[f].temp = "true"
        /\ pc[f] = "posting" => HasToken(user[f])
        /\ pc[f] = "fbTokenGranted" => user[f].kind = "facebook"
        /\ pc[f] \in LoginPlaces \/ resume[f] = "retry" => logins[f] > 0

(* The server has created every temporary user there is. *)
Known(u) == u.kind = "temporary" => u.id \in 1..tempUsers
UsersInv ==
    /\ Known(cachedUserInfo) /\ Known(cookies)
    /\ \A f \in Flows : Known(user[f])
    /\ \A i \in DOMAIN toFrame :
           /\ Known(toFrame[i].user)
           /\ toFrame[i].op = "setCookies" => HasToken(toFrame[i].user)
    /\ \A j \in DOMAIN toParent : Known(toParent[j].user)

(* The channel holds one request or answer of a flow, while the flow waits. *)
WaitsFor(op) == IF op = "getCookies" THEN Reads ELSE Dialogs
Asks(m) == m.op \in {"getCookies", "facebook"}
ChannelInv ==
    /\ \A i \in DOMAIN toFrame :
           /\ toFrame[i].op = "removeCookies" => pc[toFrame[i].flow] = "stuck"
           /\ Asks(toFrame[i]) =>
                  /\ pc[toFrame[i].flow] \in WaitsFor(toFrame[i].op)
                  /\ toFrame[i].flow \notin working
                  /\ \A j \in DOMAIN toParent : toParent[j].flow # toFrame[i].flow
                  /\ \A j \in DOMAIN toFrame :
                         Asks(toFrame[j]) /\ toFrame[j].flow = toFrame[i].flow => i = j
    /\ \A f \in working :
           /\ pc[f] \in Dialogs
           /\ \A j \in DOMAIN toParent : toParent[j].flow # f
    /\ \A j \in DOMAIN toParent :
           /\ pc[toParent[j].flow] \in IF toParent[j].status = "cookies" THEN Reads ELSE Dialogs
           /\ \A k \in DOMAIN toParent : toParent[k].flow = toParent[j].flow => j = k

(* A flow that has logged in finds a person in the cookies: those of a login *)
(* with Facebook are stored right ahead of the flow's request for them.     *)
Person(u) == u.kind \in {"facebook", "antenna"}
Bears(f) ==
    \A i \in DOMAIN toFrame : toFrame[i].op = "getCookies" /\ toFrame[i].flow = f =>
        IF i = 1 THEN Person(cookies)
        ELSE toFrame[i - 1].op = "setCookies" /\ Person(toFrame[i - 1].user)
LoginInv ==
    \A f \in loggedIn :
        /\ pc[f] \in {"antennaClosing", "getCookies", "refresh", "posting", "answered", "done"}
                     \cup AfterTokenError
        /\ pc[f] = "posting" => Person(user[f])
        /\ pc[f] \in {"antennaClosing", "getCookies", "refresh"} =>
               /\ \A j \in DOMAIN toParent : toParent[j].flow = f => Person(toParent[j].user)
               /\ IF user[f].kind = "facebook" THEN Bears(f) ELSE Person(cookies)

(* Undisturbed new visitors are one temporary user, the first to come back. *)
One(u) == HasToken(u) => SameUser(u, firstUser) /\ Truthy(u.temp)
NewcomerInv ==
    newcomer /\ Undisturbed =>
        /\ firstUser.kind \in {"nobody", "temporary"}
        /\ One(cachedUserInfo) /\ One(cookies)
        /\ \A i \in DOMAIN toFrame : One(toFrame[i].user)
        /\ \A j \in DOMAIN toParent : One(toParent[j].user)
        /\ \A f \in Flows : pc[f] = "posting" => One(user[f])
        /\ HasToken(firstUser) =>
               /\ HasToken(cachedUserInfo)
               /\ HasToken(cookies) \/ \E i \in DOMAIN toFrame : toFrame[i].op = "setCookies"

(* Undisturbed readers who have been here before stay who they were. *)
ReturningInv ==
    ~newcomer /\ Undisturbed =>
        /\ HasToken(cookies)
        /\ cachedUserInfo \in {Nobody, cookies}
        /\ \A i \in DOMAIN toFrame : toFrame[i].op # "setCookies"
        /\ \A j \in DOMAIN toParent : toParent[j].status = "cookies" => toParent[j].user = cookies
        /\ \A f \in Flows : pc[f] \notin {"creating", "created"}

-----------------------------------------------------------------------------
(* Turns of a flow                                                          *)

(* A flow f goes to a place and posts messages to the frame, of which only  *)
(* the last one may ask for something, namely what the place waits for.     *)
Posted(f, place, ms) ==
    \A k \in DOMAIN ms :
        /\ ms[k].flow = f
        /\ ms[k].op = "removeCookies" => place = "stuck"
        /\ Asks(ms[k]) => k = Len(ms) /\ place \in WaitsFor(ms[k].op)
Turn(f, place, ms) ==
    /\ pc[f] # "stuck" /\ place \in Places /\ Goto(f, place)
    /\ ms \in Seq(Request) /\ toFrame' = toFrame \o ms /\ Posted(f, place, ms)
    /\ working' = working
    /\ \/ pc[f] \notin Reads \cup Dialogs /\ toParent' = toParent
       \/ Hears(f, pc[f])

(* Taking the first message, adding one at the end. *)
LEMMA TakeFirst ==
    ASSUME NEW S, NEW s \in Seq(S), s # <<>>
    PROVE  /\ Len(s) \in Nat \ {0} /\ DOMAIN s = 1..Len(s)
           /\ Head(s) = s[1] /\ Head(s) \in S
           /\ Tail(s) \in Seq(S) /\ DOMAIN Tail(s) = 1..(Len(s) - 1)
           /\ \A i \in DOMAIN Tail(s) : i + 1 \in DOMAIN s /\ Tail(s)[i] = s[i + 1]
OBVIOUS

(* Appending keeps what was there and adds the new element. *)
LEMMA AddLast ==
    ASSUME NEW S, NEW s \in Seq(S), NEW e \in S
    PROVE  /\ Append(s, e) \in Seq(S)
           /\ Len(s) \in Nat /\ DOMAIN s = 1..Len(s)
           /\ DOMAIN Append(s, e) = 1..(Len(s) + 1)
           /\ Append(s, e)[Len(s) + 1] = e
           /\ \A i \in DOMAIN s : i \in DOMAIN Append(s, e) /\ Append(s, e)[i] = s[i]
OBVIOUS

(* So does concatenation. *)
LEMMA AddAll ==
    ASSUME NEW S, NEW s \in Seq(S), NEW t \in Seq(S)
    PROVE  /\ s \o t \in Seq(S)
           /\ Len(s) \in Nat /\ DOMAIN s = 1..Len(s)
           /\ Len(t) \in Nat /\ DOMAIN t = 1..Len(t)
           /\ DOMAIN (s \o t) = 1..(Len(s) + Len(t))
           /\ \A i \in DOMAIN s : i \in DOMAIN (s \o t) /\ (s \o t)[i] = s[i]
           /\ \A k \in DOMAIN t : Len(s) + k \in DOMAIN (s \o t) /\ (s \o t)[Len(s) + k] = t[k]
           /\ \A i \in DOMAIN (s \o t) :
                  \/ i \in DOMAIN s
                  \/ i - Len(s) \in DOMAIN t /\ (s \o t)[i] = t[i - Len(s)]
<1>1. /\ s \o t \in Seq(S) /\ Len(s \o t) = Len(s) + Len(t)
      /\ \A i \in 1..(Len(s) + Len(t)) :
             (s \o t)[i] = IF i <= Len(s) THEN s[i] ELSE t[i - Len(s)]
  BY ConcatProperties
<1>2. /\ Len(s) \in Nat /\ DOMAIN s = 1..Len(s)
      /\ Len(t) \in Nat /\ DOMAIN t = 1..Len(t)
      /\ DOMAIN (s \o t) = 1..Len(s \o t)
  BY <1>1, LenProperties
<1>3. QED
  BY <1>1, <1>2

(* What the channel holds after a turn. *)
LEMMA TurnChannel ==
    ASSUME TypeOK, NEW f \in Flows, NEW place, NEW ms, Turn(f, place, ms)
    PROVE  /\ pc' \in [Flows -> Places] /\ pc'[f] = place
           /\ \A g \in Flows \ {f} : pc'[g] = pc[g]
           /\ working' = working
           /\ toFrame' \in Seq(Request) /\ toParent' \in Seq(Answer)
           /\ Len(toFrame) \in Nat /\ DOMAIN toFrame = 1..Len(toFrame)
           /\ \A i \in DOMAIN toFrame : i \in DOMAIN toFrame' /\ toFrame'[i] = toFrame[i]
           /\ \A k \in DOMAIN ms :
                  Len(toFrame) + k \in DOMAIN toFrame' /\ toFrame'[Len(toFrame) + k] = ms[k]
           /\ \A i \in DOMAIN toFrame' :
                  \/ i \in DOMAIN toFrame
                  \/ i - Len(toFrame) \in DOMAIN ms /\ toFrame'[i] = ms[i - Len(toFrame)]
           /\ ms \in Seq(Request) /\ DOMAIN ms = 1..Len(ms) /\ Len(ms) \in Nat
<1>1. toFrame \in Seq(Request) /\ ms \in Seq(Request) /\ toFrame' = toFrame \o ms
  BY DEF TypeOK, Turn
<1>2. pc \in [Flows -> Places] /\ place \in Places /\ pc' = [pc EXCEPT ![f] = place]
  BY DEF TypeOK, Turn, Goto
<1>3. toParent' \in Seq(Answer)
  <2>1. toParent \in Seq(Answer)
    BY DEF TypeOK
  <2>2. toParent' = toParent \/ (toParent # <<>> /\ toParent' = Tail(toParent))
    BY DEF Turn, Hears
  <2>3. QED
    BY <2>1, <2>2, TakeFirst
<1>4. working' = working
  BY DEF Turn
<1>5. QED
  BY <1>1, <1>2, <1>3, <1>4, AddAll

(* What a turn leaves of the answers: all, if the flow waits for none;      *)
(* otherwise all but the first, which is the flow's.                        *)
LEMMA TurnAnswers ==
    ASSUME TypeOK, NEW f \in Flows, NEW place, NEW ms, Turn(f, place, ms)
    PROVE  \/ pc[f] \notin Reads \cup Dialogs /\ toParent' = toParent
           \/ /\ 1 \in DOMAIN toParent /\ toParent[1].flow = f
              /\ Head(toParent) = toParent[1]
              /\ \A j \in DOMAIN toParent' : j \in Nat \ {0} /\ j + 1 \in DOMAIN toParent
              /\ \A j \in DOMAIN toParent' : toParent'[j] = toParent[j + 1]
<1>1. toParent \in Seq(Answer)
  BY DEF TypeOK
<1>2. CASE Hears(f, pc[f])
  <2>1. toParent # <<>> /\ Head(toParent).flow = f /\ toParent' = Tail(toParent)
    BY <1>2 DEF Hears
  <2>2. QED
    BY <1>1, <2>1, TakeFirst
<1>3. QED
  BY <1>2 DEF Turn

(* A turn leaves one request or answer of each flow at most. *)
LEMMA ChannelTurn ==
    ASSUME TypeOK, ChannelInv, NEW f \in Flows, NEW place, NEW ms, Turn(f, place, ms)
    PROVE  ChannelInv'
<1> DEFINE n == Len(toFrame)
<1>1. Posted(f, place, ms) /\ pc[f] # "stuck"
  BY DEF Turn
<1>2. /\ pc'[f] = place /\ \A g \in Flows \ {f} : pc'[g] = pc[g]
      /\ working' = working /\ working \subseteq Flows
      /\ \A i \in DOMAIN toFrame : toFrame[i] \in Request
      /\ \A j \in DOMAIN toParent : toParent[j] \in Answer
  BY TurnChannel DEF TypeOK
<1>3. /\ n \in Nat /\ DOMAIN toFrame = 1..n
      /\ \A i \in DOMAIN toFrame : i \in DOMAIN toFrame' /\ toFrame'[i] = toFrame[i]
      /\ \A i \in DOMAIN toFrame' :
             \/ i \in DOMAIN toFrame
             \/ i - n \in DOMAIN ms /\ toFrame'[i] = ms[i - n]
      /\ DOMAIN ms = 1..Len(ms) /\ Len(ms) \in Nat
  BY TurnChannel
<1> HIDE DEF n
(* Nothing of f is in the channel but what the turn posts. *)
<1>4. /\ f \notin working
      /\ \A i \in DOMAIN toFrame : Asks(toFrame[i]) => toFrame[i].flow # f
      /\ \A j \in DOMAIN toParent' : toParent'[j].flow # f
  BY <1>2, TurnAnswers DEF ChannelInv, WaitsFor
<1>5. \A j \in DOMAIN toParent' : \E k \in DOMAIN toParent : toParent'[j] = toParent[k]
  BY TurnAnswers
<1>6. ASSUME NEW i \in DOMAIN toFrame'
      PROVE  /\ toFrame'[i].op = "removeCookies" => pc'[toFrame'[i].flow] = "stuck"
             /\ Asks(toFrame'[i]) =>
                  /\ pc'[toFrame'[i].flow] \in WaitsFor(toFrame'[i].op)
                  /\ toFrame'[i].flow \notin working'
                  /\ \A j \in DOMAIN toParent' : toParent'[j].flow # toFrame'[i].flow
  <2>1. CASE i \in DOMAIN toFrame
    BY <1>1, <1>2, <1>3, <1>4, <1>5, <2>1 DEF ChannelInv, Request
  <2>2. CASE i - n \in DOMAIN ms /\ toFrame'[i] = ms[i - n]
    BY <1>1, <1>2, <1>4, <2>2 DEF Posted
  <2>3. QED
    BY <1>3, <2>1, <2>2
<1>7. ASSUME NEW i \in DOMAIN toFrame', NEW j \in DOMAIN toFrame', Asks(toFrame'[i]),
             Asks(toFrame'[j]), toFrame'[j].flow = toFrame'[i].flow
      PROVE  i = j
  <2>1. CASE i \in DOMAIN toFrame /\ j \in DOMAIN toFrame
    BY <1>3, <1>7, <2>1 DEF ChannelInv
  <2>2. CASE i \notin DOMAIN toFrame /\ j \notin DOMAIN toFrame
    <3>1. i - n = Len(ms) /\ j - n = Len(ms)
      BY <1>1, <1>3, <1>7, <2>2 DEF Posted
    <3>2. i \in Int /\ j \in Int
      BY <1>3, TurnChannel, LenProperties
    <3>3. QED
      BY <1>3, <3>1, <3>2
  <2>3. CASE i \in DOMAIN toFrame /\ j \notin DOMAIN toFrame
    BY <1>1, <1>3, <1>4, <1>7, <2>3 DEF Posted
  <2>4. CASE i \notin DOMAIN toFrame /\ j \in DOMAIN toFrame
    BY <1>1, <1>3, <1>4, <1>7, <2>4 DEF Posted
  <2>5. QED
    BY <2>1, <2>2, <2>3, <2>4
<1>8. \A g \in working' :
          /\ pc'[g] \in Dialogs
          /\ \A j \in DOMAIN toParent' : toParent'[j].flow # g
  BY <1>2, <1>4, <1>5 DEF ChannelInv
<1>9. ASSUME NEW j \in DOMAIN toParent'
      PROVE  /\ pc'[toParent'[j].flow]
                  \in IF toParent'[j].status = "cookies" THEN Reads ELSE Dialogs
             /\ \A k \in DOMAIN toParent' : toParent'[k].flow = toParent'[j].flow => j = k
  <2>1. pc'[toParent'[j].flow] \in IF toParent'[j].status = "cookies" THEN Reads ELSE Dialogs
    BY <1>2, <1>4, <1>5 DEF ChannelInv, Answer
  <2>2. ASSUME NEW k \in DOMAIN toParent', toParent'[k].flow = toParent'[j].flow
        PROVE  j = k
    BY <2>2, TurnAnswers DEF ChannelInv
  <2>3. QED
    BY <2>1, <2>2
<1>10. QED
  BY <1>6, <1>7, <1>8, <1>9 DEF ChannelInv

-----------------------------------------------------------------------------
(* What the flows do to the channel                                         *)

(* The users the code makes and stores are users. *)
LEMMA UserTypes ==
    /\ Nobody \in User /\ AntennaUser \in User
    /\ \A n \in 0..MaxTemp : TempUser(n) \in User
    /\ \A v \in 0..MaxAccess : FacebookUser(v) \in User
    /\ \A u \in User : /\ AsCookie(u) \in User /\ HasToken(AsCookie(u)) = HasToken(u)
                       /\ AsCookie(u).kind = u.kind /\ AsCookie(u).id = u.id
                       /\ Truthy(u.temp) => Truthy(AsCookie(u).temp)
<1>1. /\ Nobody \in User /\ AntennaUser \in User
      /\ \A n \in 0..MaxTemp : TempUser(n) \in User
      /\ \A v \in 0..MaxAccess : FacebookUser(v) \in User
  BY FlowsAssumption
     DEF User, Nobody, AntennaUser, TempUser, FacebookUser, Kinds, TempFlags
<1>2. ASSUME NEW u \in User
      PROVE  /\ AsCookie(u) \in User /\ AsCookie(u).kind = u.kind /\ AsCookie(u).id = u.id
             /\ Truthy(u.temp) => Truthy(AsCookie(u).temp)
  <2>1. CASE u.temp = "true"
    BY <2>1 DEF AsCookie, User, TempFlags, Truthy
  <2>2. CASE u.temp = "false"
    BY <2>2 DEF AsCookie, User, TempFlags, Truthy
  <2>3. CASE u.temp \notin {"true", "false"}
    BY <2>3 DEF AsCookie, User, TempFlags, Truthy
  <2>4. QED
    BY <2>1, <2>2, <2>3
<1>3. QED
  BY <1>1, <1>2 DEF HasToken

(* The messages that are posted, and what they are. *)
Ops == {"getCookies", "setCookies", "removeCookies", "facebook"}
(* Their fields are what the code put there. *)
LEMMA Messages ==
    ASSUME NEW f \in Flows
    PROVE  /\ \A op \in Ops, u \in User :
                  /\ Message(op, f, u) \in Request
                  /\ Message(op, f, u).op = op /\ Message(op, f, u).flow = f
                  /\ Message(op, f, u).user = u
           /\ GetCookies(f) = Message("getCookies", f, Nobody)
           /\ \A u : StoredCookies(f, u) = Message("setCookies", f, u)
BY DEF Message, Request, Ops, GetCookies, StoredCookies

(* The success handler of createTempUser posts one message after the other. *)
LEMMA JoinTwo ==
    ASSUME NEW a \in Request, NEW b \in Request
    PROVE  <<a>> \o <<b>> = <<a, b>>
<1>1. /\ <<a>> \in Seq(Request) /\ <<b>> \in Seq(Request) /\ <<a, b>> \in Seq(Request)
      /\ Len(<<a>>) = 1 /\ Len(<<b>>) = 1 /\ Len(<<a, b>>) = 2
      /\ <<a>>[1] = a /\ <<b>>[1] = b /\ <<a, b>>[1] = a /\ <<a, b>>[2] = b
  OBVIOUS
<1> DEFINE s == <<a>> \o <<b>>
<1>2. s \in Seq(Request) /\ Len(s) = 2 /\ s[1] = a /\ s[2] = b
  BY <1>1, ConcatProperties
<1> HIDE DEF s
<1>3. s = <<a, b>>
  BY <1>1, <1>2, SeqEqual
<1>4. QED
  BY <1>3 DEF s

(* What may be posted: nothing, *)
LEMMA PostNothing ==
    ASSUME NEW f \in Flows, NEW place
    PROVE  <<>> \in Seq(Request) /\ Posted(f, place, <<>>)
BY DEF Posted

(* one message that the place waits for, or that asks for nothing, *)
LEMMA PostOne ==
    ASSUME NEW f \in Flows, NEW place, NEW op \in Ops, NEW u \in User,
           op = "removeCookies" => place = "stuck",
           op \in {"getCookies", "facebook"} => place \in WaitsFor(op)
    PROVE  /\ <<Message(op, f, u)>> \in Seq(Request)
           /\ Posted(f, place, <<Message(op, f, u)>>)
<1> DEFINE m == Message(op, f, u)
<1>1. m \in Request /\ m.op = op /\ m.flow = f
  BY Messages
<1> HIDE DEF m
<1>2. <<m>> \in Seq(Request) /\ Len(<<m>>) = 1 /\ DOMAIN <<m>> = {1} /\ <<m>>[1] = m
  BY <1>1
<1>3. Posted(f, place, <<m>>)
  BY <1>1, <1>2 DEF Posted, Asks
<1>4. QED
  BY <1>2, <1>3 DEF m

(* or cookies to store and the request that reads them back. *)
LEMMA PostTwo ==
    ASSUME NEW f \in Flows, NEW place \in Reads, NEW u \in User
    PROVE  /\ <<StoredCookies(f, u), GetCookies(f)>> \in Seq(Request)
           /\ Posted(f, place, <<StoredCookies(f, u), GetCookies(f)>>)
<1> DEFINE s == StoredCookies(f, u)
           g == GetCookies(f)
<1>1. /\ s \in Request /\ s.op = "setCookies" /\ s.flow = f
      /\ g \in Request /\ g.op = "getCookies" /\ g.flow = f
  BY Messages, UserTypes DEF Ops
<1> HIDE DEF s, g
<1>2. /\ <<s, g>> \in Seq(Request) /\ Len(<<s, g>>) = 2 /\ DOMAIN <<s, g>> = {1, 2}
      /\ <<s, g>>[1] = s /\ <<s, g>>[2] = g
  BY <1>1
<1>3. Posted(f, place, <<s, g>>)
  BY <1>1, <1>2 DEF Posted, Asks, WaitsFor
<1>4. QED
  BY <1>2, <1>3 DEF s, g

(* Steps that post nothing, to places where nothing is awaited or after an  *)
(* answer was heard. *)
LEMMA SilentTurn ==
    ASSUME TypeOK, NEW f \in Flows, NEW place \in Places, Goto(f, place),
           UNCHANGED <<toFrame, working>>, pc[f] # "stuck",
           \/ pc[f] \notin Reads \cup Dialogs /\ toParent' = toParent
           \/ Hears(f, pc[f])
    PROVE  Turn(f, place, <<>>)
<1>1. toFrame' = toFrame \o <<>>
  BY ConcatEmptySeq DEF TypeOK
<1>2. QED
  BY <1>1, PostNothing DEF Turn

(* Steps that post messages. *)
LEMMA SendingTurn ==
    ASSUME TypeOK, NEW f \in Flows, NEW place \in Places, NEW ms \in Seq(Request),
           SendAndWait(f, ms, place), Posted(f, place, ms), pc[f] # "stuck",
           \/ pc[f] \notin Reads \cup Dialogs /\ toParent' = toParent
           \/ Hears(f, pc[f])
    PROVE  Turn(f, place, ms)
BY DEF Turn, SendAndWait

(* Every step of a flow is a turn. *)
LEMMA StepTurns ==
    ASSUME TypeOK, NEW f \in Flows
    PROVE  /\ FetchUser(f) => Turn(f, "getCookies", <<GetCookies(f)>>)
           /\ CookiesArrive(f) =>
                  /\ pc[f] = "getCookies"
                  /\ \E place \in {"creating", "posting"} : Turn(f, place, <<>>)
           /\ ServerCreatesTempUser(f) => Turn(f, "created", <<>>)
           /\ TempUserArrives(f) =>
                  IF KeepsCachedUser
                  THEN IF resume[f] = "post" THEN Turn(f, "posting", <<>>)
                       ELSE Turn(f, "getCookies", <<GetCookies(f)>>)
                  ELSE IF resume[f] = "post" THEN Turn(f, "posting", <<StoredCookies(f, user[f])>>)
                       ELSE Turn(f, "getCookies", <<StoredCookies(f, user[f]), GetCookies(f)>>)
           /\ ServerAnswersReaction(f) =>
                  \E place \in {"answered", "signInRequired", "tokenInvalid"} : Turn(f, place, <<>>)
           /\ ReactionAnswered(f) => Turn(f, "done", <<>>)
           /\ ShowLoginPage(f) => Turn(f, "loginPage", <<>>)
<1> USE DEF Places
<1> "stuck" \notin Reads \cup Dialogs /\ Nobody \in User
  BY UserTypes DEF Reads, Dialogs
<1>1. FetchUser(f) => Turn(f, "getCookies", <<GetCookies(f)>>)
  <2> SUFFICES ASSUME FetchUser(f) PROVE Turn(f, "getCookies", <<GetCookies(f)>>)
    OBVIOUS
  <2>1. /\ pc[f] = "idle" /\ SendAndWait(f, <<GetCookies(f)>>, "getCookies")
        /\ toParent' = toParent
    BY DEF FetchUser
  <2>2. /\ <<GetCookies(f)>> \in Seq(Request)
        /\ Posted(f, "getCookies", <<GetCookies(f)>>)
    BY Messages, PostOne DEF WaitsFor, Reads, Ops
  <2>3. QED
    BY <2>1, <2>2, SendingTurn DEF Reads, Dialogs
<1>2. ASSUME CookiesArrive(f)
      PROVE  /\ pc[f] = "getCookies"
             /\ \E place \in {"creating", "posting"} : Turn(f, place, <<>>)
  <2>1. /\ pc[f] = "getCookies" /\ Hears(f, pc[f]) /\ UNCHANGED <<toFrame, working>>
        /\ Goto(f, "creating") \/ Goto(f, "posting")
    BY <1>2 DEF CookiesArrive, Hears
  <2>2. QED
    BY <2>1, SilentTurn
<1>3. ServerCreatesTempUser(f) => Turn(f, "created", <<>>)
  BY SilentTurn DEF ServerCreatesTempUser, channel, Reads, Dialogs
<1>4. ASSUME TempUserArrives(f)
      PROVE  IF KeepsCachedUser
             THEN IF resume[f] = "post" THEN Turn(f, "posting", <<>>)
                  ELSE Turn(f, "getCookies", <<GetCookies(f)>>)
             ELSE IF resume[f] = "post" THEN Turn(f, "posting", <<StoredCookies(f, user[f])>>)
                  ELSE Turn(f, "getCookies", <<StoredCookies(f, user[f]), GetCookies(f)>>)
  <2>1. /\ pc[f] = "created" /\ pc[f] # "stuck" /\ pc[f] \notin Reads \cup Dialogs
        /\ toParent' = toParent /\ user[f] \in User
    BY <1>4 DEF TempUserArrives, Reads, Dialogs, TypeOK
  <2>2. CASE KeepsCachedUser /\ resume[f] = "post"
    <3>1. SendAndWait(f, <<>>, "posting")
      BY <1>4, <2>2 DEF TempUserArrives
    <3>2. <<>> \in Seq(Request)
      OBVIOUS
    <3>3. QED
      BY <2>1, <2>2, <3>1, <3>2, PostNothing, SendingTurn
  <2>3. CASE KeepsCachedUser /\ resume[f] # "post"
    <3>1. SendAndWait(f, <<>> \o <<GetCookies(f)>>, "getCookies")
      BY <1>4, <2>3 DEF TempUserArrives
    <3>2. <<>> \o <<GetCookies(f)>> = <<GetCookies(f)>>
      OBVIOUS
    <3>3. /\ <<GetCookies(f)>> \in Seq(Request)
          /\ Posted(f, "getCookies", <<GetCookies(f)>>)
      BY Messages, PostOne DEF WaitsFor, Reads, Ops
    <3>4. QED
      BY <2>1, <2>3, <3>1, <3>2, <3>3, SendingTurn
  <2>4. CASE ~KeepsCachedUser /\ resume[f] = "post"
    <3>1. SendAndWait(f, <<StoredCookies(f, user[f])>>, "posting")
      BY <1>4, <2>4 DEF TempUserArrives
    <3>2. StoredCookies(f, user[f]) = Message("setCookies", f, user[f])
      BY Messages
    <3>3. /\ <<StoredCookies(f, user[f])>> \in Seq(Request)
          /\ Posted(f, "posting", <<StoredCookies(f, user[f])>>)
      BY <2>1, <3>2, PostOne DEF Ops
    <3>4. QED
      BY <2>1, <2>4, <3>1, <3>3, SendingTurn
  <2>5. CASE ~KeepsCachedUser /\ resume[f] # "post"
    <3> DEFINE s == StoredCookies(f, user[f])
    <3>1. SendAndWait(f, <<s>> \o <<GetCookies(f)>>, "getCookies")
      BY <1>4, <2>5 DEF TempUserArrives
    <3>2. <<s>> \o <<GetCookies(f)>> = <<s, GetCookies(f)>>
      BY <2>1, Messages, JoinTwo DEF Ops
    <3>3. /\ <<s, GetCookies(f)>> \in Seq(Request)
          /\ Posted(f, "getCookies", <<s, GetCookies(f)>>)
      BY <2>1, PostTwo DEF Reads
    <3> HIDE DEF s
    <3>4. Turn(f, "getCookies", <<s, GetCookies(f)>>)
      BY <2>1, <3>1, <3>2, <3>3, SendingTurn
    <3>5. QED
      BY <2>5, <3>4 DEF s
  <2>6. QED
    BY <2>2, <2>3, <2>4, <2>5
<1>5. ServerAnswersReaction(f) =>
          \E place \in {"answered", "signInRequired", "tokenInvalid"} : Turn(f, place, <<>>)
  BY SilentTurn DEF ServerAnswersReaction, channel, Reads, Dialogs
<1>6. ReactionAnswered(f) => Turn(f, "done", <<>>)
  BY SilentTurn DEF ReactionAnswered, channel, Reads, Dialogs
<1>7. ShowLoginPage(f) => Turn(f, "loginPage", <<>>)
  BY SilentTurn DEF ShowLoginPage, channel, Reads, Dialogs
<1>8. QED
  BY <1>1, <1>2, <1>3, <1>4, <1>5, <1>6, <1>7

(* After a token error. *)
LEMMA TokenErrorTurns ==
    ASSUME TypeOK, NEW f \in Flows
    PROVE  /\ ReAuthorizeUser(f) => Turn(f, "reauthCookies", <<GetCookies(f)>>)
           /\ ReAuthorizeCookies(f) =>
                  /\ pc[f] = "reauthCookies"
                  /\ \/ Turn(f, "reauthStatus", <<Message("facebook", f, Nobody)>>)
                     \/ Turn(f, "stuck", <<>>)
           /\ ReAuthorizeStatus(f) =>
                  /\ pc[f] = "reauthStatus"
                  /\ \/ Turn(f, "stuck", <<>>)
                     \/ Turn(f, "deauthorizing", <<>>)
                     \/ Turn(f, "stuck", <<Message("removeCookies", f, Nobody)>>)
                     \/ Turn(f, "reauthDialog", <<Message("facebook", f, Nobody)>>)
           /\ ReAuthorizeDialog(f) => pc[f] = "reauthDialog" /\ Turn(f, "stuck", <<>>)
           /\ ServerDeauthorizes(f) => Turn(f, "deauthorized", <<>>)
           /\ DiscardUserInfo(f) => Turn(f, "stuck", <<Message("removeCookies", f, Nobody)>>)
<1> USE DEF Places
<1> "stuck" \notin Reads \cup Dialogs /\ Nobody \in User
  BY UserTypes DEF Reads, Dialogs
<1> DEFINE get == GetCookies(f)
           ask == Message("facebook", f, Nobody)
           remove == Message("removeCookies", f, Nobody)
<1>1. /\ <<get>> \in Seq(Request) /\ Posted(f, "reauthCookies", <<get>>)
      /\ <<remove>> \in Seq(Request) /\ Posted(f, "stuck", <<remove>>)
      /\ <<ask>> \in Seq(Request)
      /\ Posted(f, "reauthStatus", <<ask>>) /\ Posted(f, "reauthDialog", <<ask>>)
  BY Messages, PostOne DEF WaitsFor, Reads, Dialogs, Ops
<1> HIDE DEF get, ask, remove
<1>2. ReAuthorizeUser(f) => Turn(f, "reauthCookies", <<get>>)
  BY <1>1, SendingTurn DEF ReAuthorizeUser, Reads, Dialogs, get
<1>3. ASSUME ReAuthorizeCookies(f)
      PROVE  /\ pc[f] = "reauthCookies"
             /\ Turn(f, "reauthStatus", <<ask>>) \/ Turn(f, "stuck", <<>>)
  <2>1. /\ pc[f] = "reauthCookies" /\ Hears(f, pc[f])
        /\ \/ SendAndWait(f, <<ask>>, "reauthStatus")
           \/ Goto(f, "stuck") /\ UNCHANGED <<toFrame, working>>
    BY <1>3 DEF ReAuthorizeCookies, Hears, ask
  <2>2. QED
    BY <1>1, <2>1, SilentTurn, SendingTurn
<1>4. ASSUME ReAuthorizeStatus(f)
      PROVE  /\ pc[f] = "reauthStatus"
             /\ \/ Turn(f, "stuck", <<>>) \/ Turn(f, "deauthorizing", <<>>)
                \/ Turn(f, "stuck", <<remove>>) \/ Turn(f, "reauthDialog", <<ask>>)
  <2>1. /\ pc[f] = "reauthStatus" /\ Hears(f, pc[f])
        /\ \/ Goto(f, "stuck") /\ UNCHANGED <<toFrame, working>>
           \/ Goto(f, "deauthorizing") /\ UNCHANGED <<toFrame, working>>
           \/ SendAndWait(f, <<remove>>, "stuck")
           \/ SendAndWait(f, <<ask>>, "reauthDialog")
    BY <1>4 DEF ReAuthorizeStatus, Hears, ask, remove
  <2>2. QED
    BY <1>1, <2>1, SilentTurn, SendingTurn
<1>5. ASSUME ReAuthorizeDialog(f) PROVE pc[f] = "reauthDialog" /\ Turn(f, "stuck", <<>>)
  <2>1. /\ pc[f] = "reauthDialog" /\ Hears(f, pc[f])
        /\ Goto(f, "stuck") /\ UNCHANGED <<toFrame, working>>
    BY <1>5 DEF ReAuthorizeDialog, Hears
  <2>2. QED
    BY <2>1, SilentTurn
<1>6. ServerDeauthorizes(f) => Turn(f, "deauthorized", <<>>)
  BY SilentTurn DEF ServerDeauthorizes, channel, Reads, Dialogs
<1>7. DiscardUserInfo(f) => Turn(f, "stuck", <<remove>>)
  BY <1>1, SendingTurn DEF DiscardUserInfo, Reads, Dialogs, remove
<1>8. QED
  BY <1>2, <1>3, <1>4, <1>5, <1>6, <1>7 DEF get, ask, remove

(* At the login page, and on the way back from it. *)
LEMMA LoginTurns ==
    ASSUME TypeOK, NEW f \in Flows
    PROVE  /\ RetryClicked(f) => Turn(f, "getCookies", <<GetCookies(f)>>)
           /\ FacebookClicked(f) => Turn(f, "fbDialog", <<Message("facebook", f, Nobody)>>)
           /\ FacebookLoginAnswered(f) =>
                  /\ pc[f] = "fbDialog"
                  /\ \/ Turn(f, "fbToken", <<>>)
                     \/ Turn(f, "getCookies", <<GetCookies(f)>>) /\ UNCHANGED user
           /\ ServerGrantsToken(f) =>
                  \E place \in {"fbTokenGranted", "fbTokenRefused"} : Turn(f, place, <<>>)
           /\ TokenArrives(f) =>
                  Turn(f, "getCookies", <<StoredCookies(f, user[f]), GetCookies(f)>>)
           /\ TokenRefused(f) => Turn(f, "creating", <<>>)
           /\ AntennaClicked(f) => Turn(f, "antennaWindow", <<>>)
           /\ AntennaSiteLogsIn(f) => Turn(f, "antennaClosing", <<>>)
           /\ AntennaWindowCloses(f) => Turn(f, "refresh", <<GetCookies(f)>>)
           /\ RefreshFromCookies(f) =>
                  pc[f] = "refresh" /\ Turn(f, "getCookies", <<GetCookies(f)>>)
<1> USE DEF Places
<1> "stuck" \notin Reads \cup Dialogs /\ Nobody \in User
  BY UserTypes DEF Reads, Dialogs
<1> DEFINE get == GetCookies(f)
           ask == Message("facebook", f, Nobody)
           set == StoredCookies(f, user[f])
<1>1. /\ <<get>> \in Seq(Request)
      /\ Posted(f, "getCookies", <<get>>) /\ Posted(f, "refresh", <<get>>)
      /\ <<ask>> \in Seq(Request) /\ Posted(f, "fbDialog", <<ask>>)
      /\ <<set, get>> \in Seq(Request) /\ Posted(f, "getCookies", <<set, get>>)
  BY Messages, PostOne, PostTwo DEF WaitsFor, Reads, Dialogs, Ops, TypeOK
<1> HIDE DEF get, ask, set
<1>2. RetryClicked(f) => Turn(f, "getCookies", <<get>>)
  BY <1>1, SendingTurn DEF RetryClicked, Reads, Dialogs, get
<1>3. FacebookClicked(f) => Turn(f, "fbDialog", <<ask>>)
  BY <1>1, SendingTurn DEF FacebookClicked, Reads, Dialogs, ask
<1>4. ASSUME FacebookLoginAnswered(f)
      PROVE  /\ pc[f] = "fbDialog"
             /\ \/ Turn(f, "fbToken", <<>>)
                \/ Turn(f, "getCookies", <<get>>) /\ UNCHANGED user
  <2>1. /\ pc[f] = "fbDialog" /\ Hears(f, pc[f])
        /\ \/ Goto(f, "fbToken") /\ UNCHANGED <<toFrame, working>>
           \/ SendAndWait(f, <<get>>, "getCookies") /\ UNCHANGED user
    BY <1>4 DEF FacebookLoginAnswered, Hears, get
  <2>2. QED
    BY <1>1, <2>1, SilentTurn, SendingTurn
<1>5. ServerGrantsToken(f) =>
          \E place \in {"fbTokenGranted", "fbTokenRefused"} : Turn(f, place, <<>>)
  BY SilentTurn DEF ServerGrantsToken, channel, Reads, Dialogs
<1>6. TokenArrives(f) => Turn(f, "getCookies", <<set, get>>)
  BY <1>1, SendingTurn DEF TokenArrives, Reads, Dialogs, set, get
<1>7. TokenRefused(f) => Turn(f, "creating", <<>>)
  BY SilentTurn DEF TokenRefused, channel, Reads, Dialogs
<1>8. /\ AntennaClicked(f) => Turn(f, "antennaWindow", <<>>)
      /\ AntennaSiteLogsIn(f) => Turn(f, "antennaClosing", <<>>)
  BY SilentTurn DEF AntennaClicked, AntennaSiteLogsIn, channel, Reads, Dialogs
<1>9. AntennaWindowCloses(f) => Turn(f, "refresh", <<get>>)
  BY <1>1, SendingTurn DEF AntennaWindowCloses, Reads, Dialogs, get
<1>10. ASSUME RefreshFromCookies(f)
       PROVE  pc[f] = "refresh" /\ Turn(f, "getCookies", <<get>>)
  <2>1. /\ pc[f] = "refresh" /\ Hears(f, pc[f]) /\ SendAndWait(f, <<get>>, "getCookies")
    BY <1>10 DEF RefreshFromCookies, Hears, get
  <2>2. QED
    BY <1>1, <2>1, SendingTurn
<1>11. QED
  BY <1>2, <1>3, <1>4, <1>5, <1>6, <1>7, <1>8, <1>9, <1>10 DEF get, ask, set

-----------------------------------------------------------------------------
(* Types, places and users                                                  *)

(* The steps that are turns: all but Facebook's, the frame's and expiry. *)
FlowStep(f) ==
    \/ WidgetStep(f) \/ ServerStep(f)
    \/ FetchUser(f) \/ RetryClicked(f) \/ FacebookClicked(f) \/ AntennaClicked(f)
    \/ AntennaSiteLogsIn(f) \/ AntennaWindowCloses(f)

(* What a flow stores in the cookies is its own user, and one with a token. *)
Carries(f, ms) ==
    \A k \in DOMAIN ms :
        IF ms[k].op = "setCookies" THEN ms[k].user = user[f] /\ HasToken(user[f])
        ELSE ms[k].user = Nobody

(* The lists of messages that flows post. *)
LEMMA WhatFlowsCarry ==
    ASSUME NEW f \in Flows, user[f] \in User
    PROVE  /\ Carries(f, <<>>)
           /\ \A op \in {"getCookies", "removeCookies", "facebook"} :
                  Carries(f, <<Message(op, f, Nobody)>>)
           /\ HasToken(user[f]) => /\ Carries(f, <<StoredCookies(f, user[f])>>)
                                   /\ Carries(f, <<StoredCookies(f, user[f]), GetCookies(f)>>)
<1> DEFINE s == StoredCookies(f, user[f])
           g == GetCookies(f)
<1>1. /\ s.op = "setCookies" /\ s.user = user[f] /\ g.op = "getCookies" /\ g.user = Nobody
      /\ s \in Request /\ g \in Request
  BY Messages, UserTypes DEF Ops
<1>2. ASSUME NEW op \in {"getCookies", "removeCookies", "facebook"}
      PROVE  Carries(f, <<Message(op, f, Nobody)>>)
  <2> DEFINE m == Message(op, f, Nobody)
  <2>1. m.op # "setCookies" /\ m.user = Nobody
    BY Messages, UserTypes DEF Ops
  <2> HIDE DEF m
  <2>2. Carries(f, <<m>>)
    BY <2>1 DEF Carries
  <2>3. QED
    BY <2>2 DEF m
<1> HIDE DEF s, g
<1>3. HasToken(user[f]) => Carries(f, <<s>>) /\ Carries(f, <<s, g>>)
  <2>1. DOMAIN <<s>> = {1} /\ <<s>>[1] = s
    OBVIOUS
  <2>2. DOMAIN <<s, g>> = {1, 2} /\ <<s, g>>[1] = s /\ <<s, g>>[2] = g
    OBVIOUS
  <2>3. QED
    BY <1>1, <2>1, <2>2 DEF Carries
<1>4. Carries(f, <<>>)
  BY DEF Carries
<1>5. QED
  BY <1>2, <1>3, <1>4 DEF s, g

(* Every step of a flow is a turn that carries only such users. *)
LEMMA FlowTurns ==
    ASSUME TypeOK, PlaceInv, NEW f \in Flows, FlowStep(f)
    PROVE  \E place, ms : Turn(f, place, ms) /\ Carries(f, ms)
<1> user[f] \in User
  BY DEF TypeOK
<1>1. CASE TempUserArrives(f)
  <2>1. pc[f] = "created" /\ HasToken(user[f])
    BY <1>1 DEF TempUserArrives, PlaceInv, HasToken
  <2>2. GetCookies(f) = Message("getCookies", f, Nobody)
    BY Messages
  <2>3. QED
    BY <1>1, <2>1, <2>2, StepTurns, WhatFlowsCarry
<1>2. CASE TokenArrives(f)
  <2>1. pc[f] = "fbTokenGranted" /\ HasToken(user[f])
    BY <1>2 DEF TokenArrives, PlaceInv, HasToken
  <2>2. QED
    BY <1>2, <2>1, LoginTurns, WhatFlowsCarry
<1>3. CASE \/ FetchUser(f) \/ CookiesArrive(f) \/ ServerCreatesTempUser(f)
           \/ ServerAnswersReaction(f) \/ ReactionAnswered(f) \/ ShowLoginPage(f)
  <2>1. GetCookies(f) = Message("getCookies", f, Nobody)
    BY Messages
  <2>2. QED
    BY <1>3, <2>1, StepTurns, WhatFlowsCarry
<1>4. CASE \/ ReAuthorizeUser(f) \/ ReAuthorizeCookies(f) \/ ReAuthorizeStatus(f)
           \/ ReAuthorizeDialog(f) \/ ServerDeauthorizes(f) \/ DiscardUserInfo(f)
  <2>1. GetCookies(f) = Message("getCookies", f, Nobody)
    BY Messages
  <2>2. QED
    BY <1>4, <2>1, TokenErrorTurns, WhatFlowsCarry
<1>5. CASE \/ RetryClicked(f) \/ FacebookClicked(f) \/ FacebookLoginAnswered(f)
           \/ ServerGrantsToken(f) \/ TokenRefused(f) \/ AntennaClicked(f)
           \/ AntennaSiteLogsIn(f) \/ AntennaWindowCloses(f) \/ RefreshFromCookies(f)
  <2>1. GetCookies(f) = Message("getCookies", f, Nobody)
    BY Messages
  <2>2. QED
    BY <1>5, <2>1, LoginTurns, WhatFlowsCarry
<1>6. QED
  BY <1>1, <1>2, <1>3, <1>4, <1>5 DEF FlowStep, WidgetStep, ServerStep

(* What a step of a flow leaves of everything but the channel. *)
Data(f) ==
    /\ cachedUserInfo' \in User /\ Known(cachedUserInfo)'
    /\ cookies' \in User /\ Known(cookies)'
    /\ user' \in [Flows -> User] /\ Known(user[f])'
    /\ resume' \in [Flows -> {"post", "retry"}] /\ logins' \in [Flows -> 0..MaxLogins]
    /\ \A g \in Flows \ {f} :
           user'[g] = user[g] /\ resume'[g] = resume[g] /\ logins'[g] = logins[g]
    /\ logins'[f] >= logins[f]
    /\ tempUsers' \in 0..MaxTemp /\ tempUsers' >= tempUsers /\ converted' \subseteq 1..tempUsers'
    /\ access' \in 1..MaxAccess /\ socialAuth' \in 0..access'
    /\ newcomer' = newcomer /\ firstUser' \in User /\ loggedIn' \subseteq Flows

(* The answer that is heard holds a user that is known. *)
LEMMA Heard ==
    ASSUME TypeOK, UsersInv, toParent # <<>>
    PROVE  Head(toParent).user \in User /\ Known(Head(toParent).user)
<1>1. toParent \in Seq(Answer)
  BY DEF TypeOK
<1>2. 1 \in DOMAIN toParent /\ Head(toParent) = toParent[1] /\ Head(toParent) \in Answer
  BY <1>1, TakeFirst
<1>3. QED
  BY <1>2 DEF UsersInv, Answer

(* The parts of Data that only a few steps change. *)
DataUsers(f) ==
    /\ cachedUserInfo' \in User /\ Known(cachedUserInfo)'
    /\ cookies' \in User /\ Known(cookies)' /\ firstUser' \in User
    /\ user' \in [Flows -> User] /\ Known(user[f])' /\ \A g \in Flows \ {f} : user'[g] = user[g]
DataFlow(f) ==
    /\ resume' \in [Flows -> {"post", "retry"}] /\ logins' \in [Flows -> 0..MaxLogins]
    /\ \A g \in Flows \ {f} : resume'[g] = resume[g] /\ logins'[g] = logins[g]
    /\ logins'[f] >= logins[f]
DataServer ==
    /\ tempUsers' \in 0..MaxTemp /\ tempUsers' >= tempUsers /\ converted' \subseteq 1..tempUsers'
    /\ access' \in 1..MaxAccess /\ socialAuth' \in 0..access'
    /\ newcomer' = newcomer /\ loggedIn' \subseteq Flows

(* Together they are all of it. *)
LEMMA DataParts ==
    ASSUME NEW f, DataUsers(f), DataFlow(f), DataServer
    PROVE  Data(f)
BY DEF Data, DataUsers, DataFlow, DataServer

(* Every step of a flow leaves data of the right types, and known users. *)
LEMMA FlowData ==
    ASSUME TypeOK, PlaceInv, UsersInv, NEW f \in Flows, FlowStep(f)
    PROVE  Data(f)
<1>a. /\ resume \in [Flows -> {"post", "retry"}] /\ logins \in [Flows -> 0..MaxLogins]
      /\ \A g \in Flows : logins[g] \in 0..MaxLogins
  BY DEF TypeOK
<1>b. /\ user \in [Flows -> User] /\ cachedUserInfo \in User /\ cookies \in User
      /\ firstUser \in User
      /\ Known(cachedUserInfo) /\ Known(cookies) /\ Known(user[f])
  BY DEF TypeOK, UsersInv
<1>c. /\ tempUsers \in 0..MaxTemp /\ converted \subseteq 1..tempUsers
      /\ access \in 1..MaxAccess /\ socialAuth \in 0..access
      /\ loggedIn \subseteq Flows
      /\ MaxTemp \in Nat /\ MaxAccess \in Nat /\ MaxLogins \in Nat
  BY FlowsAssumption DEF TypeOK
<1>d. tempUsers' = tempUsers => \A u : Known(u) = (u.kind = "temporary" => u.id \in 1..tempUsers')
  BY DEF Known
<1>e. UNCHANGED <<resume, logins>> => DataFlow(f)
  BY <1>a, <1>c DEF DataFlow
<1>f. ASSUME logins[f] < MaxLogins, logins' = [logins EXCEPT ![f] = @ + 1], UNCHANGED resume
      PROVE  DataFlow(f)
  BY <1>a, <1>c, <1>f DEF DataFlow
<1>g. ASSUME NEW r \in {"post", "retry"}, resume' = [resume EXCEPT ![f] = r], UNCHANGED logins
      PROVE  DataFlow(f)
  BY <1>a, <1>c, <1>g DEF DataFlow
<1>h. UNCHANGED <<server, newcomer>> /\ loggedIn' \in {loggedIn, loggedIn \cup {f}} => DataServer
  BY <1>c DEF DataServer, server
<1>i. ASSUME tempUsers' = tempUsers, cachedUserInfo' \in User, Known(cachedUserInfo'),
             cookies' \in {cookies, AsCookie(AntennaUser)}, firstUser' \in {firstUser, user[f]},
             NEW u \in User, Known(u), user' = user \/ user' = [user EXCEPT ![f] = u]
      PROVE  DataUsers(f)
  <2>1. AsCookie(AntennaUser) \in User /\ AsCookie(AntennaUser).kind = "antenna"
    BY UserTypes DEF AntennaUser
  <2>2. cookies' \in User /\ Known(cookies')
    BY <1>b, <1>i, <2>1 DEF Known
  <2>3. /\ user' \in [Flows -> User] /\ Known(user'[f])
        /\ \A g \in Flows \ {f} : user'[g] = user[g]
    BY <1>b, <1>i
  <2>4. QED
    BY <1>b, <1>i, <2>2, <2>3 DEF DataUsers, Known
<1>j. UNCHANGED <<tempUsers, cachedUserInfo, cookies, firstUser, user>> => DataUsers(f)
  BY <1>b, <1>i
<1>1. CASE \/ FetchUser(f) \/ ServerAnswersReaction(f) \/ ReactionAnswered(f)
           \/ ShowLoginPage(f) \/ ReAuthorizeUser(f) \/ ReAuthorizeStatus(f)
           \/ ReAuthorizeDialog(f) \/ DiscardUserInfo(f) \/ AntennaWindowCloses(f)
  <2>1. UNCHANGED <<cachedUserInfo, cookies, user, resume, logins, server, history>>
    BY <1>1 DEF FetchUser, ServerAnswersReaction, ReactionAnswered, ShowLoginPage,
       ReAuthorizeUser, ReAuthorizeStatus, ReAuthorizeDialog, DiscardUserInfo,
       AntennaWindowCloses
  <2>2. QED
    BY <2>1, <1>e, <1>h, <1>j, DataParts DEF history, server
<1>2. CASE CookiesArrive(f)
  <2>1. Head(toParent).user \in User /\ Known(Head(toParent).user)
    BY <1>2, Heard DEF CookiesArrive, Hears
  <2>2. UNCHANGED <<cookies, logins, server, history>>
    BY <1>2 DEF CookiesArrive
  <2>3. DataUsers(f)
    BY <1>2, <1>b, <1>i, <2>1, <2>2 DEF CookiesArrive, server, history
  <2>4. DataFlow(f)
    BY <1>2, <1>e, <1>g, <2>2 DEF CookiesArrive
  <2>5. QED
    BY <1>h, <2>2, <2>3, <2>4, DataParts DEF history
<1>3. CASE ServerCreatesTempUser(f)
  <2> DEFINE u == TempUser(tempUsers + 1)
  <2>1. tempUsers' = tempUsers + 1 /\ tempUsers + 1 \in 0..MaxTemp
    BY <1>3, <1>c DEF ServerCreatesTempUser
  <2>2. u \in User /\ u.kind = "temporary" /\ u.id = tempUsers + 1
    BY <2>1, UserTypes DEF TempUser
  <2>3. user' = [user EXCEPT ![f] = u]
    BY <1>3, <2>1 DEF ServerCreatesTempUser
  <2> HIDE DEF u
  <2>4. user' \in [Flows -> User] /\ user'[f] = u /\ \A g \in Flows \ {f} : user'[g] = user[g]
    BY <1>b, <2>2, <2>3
  <2>5. Known(cachedUserInfo)' /\ Known(cookies)' /\ Known(user[f])'
    BY <1>3, <1>b, <1>c, <2>1, <2>2, <2>4 DEF ServerCreatesTempUser, Known
  <2>6. DataUsers(f)
    BY <1>3, <1>b, <2>4, <2>5 DEF ServerCreatesTempUser, DataUsers, history
  <2>7. DataFlow(f)
    BY <1>3, <1>e DEF ServerCreatesTempUser
  <2>8. DataServer
    BY <1>3, <1>c, <2>1 DEF ServerCreatesTempUser, DataServer, history
  <2>9. QED
    BY <2>6, <2>7, <2>8, DataParts
<1>4. CASE TempUserArrives(f)
  <2>1. /\ UNCHANGED <<cookies, resume, logins, server, newcomer, loggedIn>>
        /\ cachedUserInfo' \in {cachedUserInfo, user[f]} /\ firstUser' \in {firstUser, user[f]}
        /\ user' = user \/ user' = [user EXCEPT ![f] = cachedUserInfo']
    BY <1>4 DEF TempUserArrives
  <2>2. DataUsers(f)
    BY <1>b, <1>i, <2>1 DEF server
  <2>3. QED
    BY <1>e, <1>h, <2>1, <2>2, DataParts
<1>5. CASE ReAuthorizeCookies(f) \/ RefreshFromCookies(f)
  <2>1. Head(toParent).user \in User /\ Known(Head(toParent).user)
    BY <1>5, Heard DEF ReAuthorizeCookies, RefreshFromCookies, Hears
  <2>2. /\ UNCHANGED <<cookies, user, resume, logins, server, history>>
        /\ cachedUserInfo' = Head(toParent).user
    BY <1>5 DEF ReAuthorizeCookies, RefreshFromCookies
  <2>3. DataUsers(f)
    BY <1>b, <1>i, <2>1, <2>2 DEF server, history
  <2>4. QED
    BY <1>e, <1>h, <2>2, <2>3, DataParts DEF history
<1>6. CASE ServerDeauthorizes(f)
  <2>1. /\ UNCHANGED <<cachedUserInfo, cookies, user, resume, logins, tempUsers, converted,
                       access, history>>
        /\ socialAuth' = 0
    BY <1>6 DEF ServerDeauthorizes
  <2>2. DataServer
    BY <1>c, <2>1 DEF DataServer, history
  <2>3. QED
    BY <1>e, <1>j, <2>1, <2>2, DataParts DEF history
<1>7. CASE FacebookLoginAnswered(f)
  <2>1. /\ UNCHANGED <<cachedUserInfo, cookies, resume, logins, server, history>>
        /\ user' = user \/ user' = [user EXCEPT ![f] = cachedUserInfo]
    BY <1>7 DEF FacebookLoginAnswered
  <2>2. DataUsers(f)
    BY <1>b, <1>i, <2>1 DEF server, history
  <2>3. QED
    BY <1>e, <1>h, <2>1, <2>2, DataParts DEF history
<1>8. CASE ServerGrantsToken(f)
  <2>1. /\ FacebookUser(access) \in User /\ Known(FacebookUser(access))
        /\ access \in 0..MaxAccess
    BY <1>c, UserTypes DEF FacebookUser, Known
  <2>2. /\ UNCHANGED <<cachedUserInfo, cookies, resume, logins, tempUsers, access, history>>
        /\ socialAuth' \in {socialAuth, access}
        /\ user' = user \/ user' = [user EXCEPT ![f] = FacebookUser(access)]
        /\ converted' = converted \/ /\ user[f].kind = "temporary"
                                     /\ converted' = converted \cup {user[f].id}
    BY <1>8 DEF ServerGrantsToken
  <2>3. converted' \subseteq 1..tempUsers
    BY <1>b, <1>c, <2>2 DEF Known
  <2>4. DataUsers(f)
    BY <1>b, <1>i, <2>1, <2>2 DEF history
  <2>5. DataServer
    BY <1>c, <2>2, <2>3 DEF DataServer, history
  <2>6. QED
    BY <1>e, <2>2, <2>4, <2>5, DataParts
<1>9. CASE TokenArrives(f)
  <2>1. /\ UNCHANGED <<cookies, user, resume, logins, server, newcomer>>
        /\ cachedUserInfo' = user[f] /\ firstUser' \in {firstUser, user[f]}
        /\ loggedIn' = loggedIn \cup {f}
    BY <1>9 DEF TokenArrives
  <2>2. DataUsers(f)
    BY <1>b, <1>i, <2>1 DEF server
  <2>3. QED
    BY <1>e, <1>h, <2>1, <2>2, DataParts
<1>10. CASE AntennaSiteLogsIn(f)
  <2>1. /\ UNCHANGED <<cachedUserInfo, user, resume, logins, tempUsers, access, socialAuth,
                       newcomer, firstUser>>
        /\ cookies' = AsCookie(AntennaUser)
        /\ loggedIn' = loggedIn \cup {f}
        /\ converted' = converted \cup (IF cookies.kind = "temporary" THEN {cookies.id} ELSE {})
    BY <1>10 DEF AntennaSiteLogsIn
  <2>2. DataUsers(f)
    BY <1>b, <1>i, <2>1
  <2>3. converted' \subseteq 1..tempUsers
    BY <1>b, <1>c, <2>1 DEF Known
  <2>4. DataServer
    BY <1>c, <2>1, <2>3 DEF DataServer
  <2>5. QED
    BY <1>e, <2>1, <2>2, <2>4, DataParts
<1>11. CASE RetryClicked(f) \/ FacebookClicked(f) \/ AntennaClicked(f)
  <2>1. /\ UNCHANGED <<cachedUserInfo, cookies, user, resume, server, history>>
        /\ logins[f] < MaxLogins /\ logins' = [logins EXCEPT ![f] = @ + 1]
    BY <1>11 DEF RetryClicked, FacebookClicked, AntennaClicked
  <2>2. QED
    BY <1>f, <1>h, <1>j, <2>1, DataParts DEF history, server
<1>12. CASE TokenRefused(f)
  <2>1. /\ UNCHANGED <<cachedUserInfo, cookies, user, logins, server, history>>
        /\ resume' = [resume EXCEPT ![f] = "retry"]
    BY <1>12 DEF TokenRefused
  <2>2. QED
    BY <1>g, <1>h, <1>j, <2>1, DataParts DEF history, server
<1>13. QED
  BY <1>1, <1>2, <1>3, <1>4, <1>5, <1>6, <1>7, <1>8, <1>9, <1>10, <1>11, <1>12
     DEF FlowStep, WidgetStep, ServerStep

(* A step of a flow keeps the types, *)
LEMMA FlowTypes ==
    ASSUME TypeOK, PlaceInv, UsersInv, NEW f \in Flows, FlowStep(f)
    PROVE  TypeOK'
<1>1. Data(f)
  BY FlowData
<1>2. PICK place, ms : Turn(f, place, ms)
  BY FlowTurns
<1>3. /\ pc' \in [Flows -> Places] /\ working' = working
      /\ toFrame' \in Seq(Request) /\ toParent' \in Seq(Answer)
  BY <1>2, TurnChannel
<1>4. working \subseteq Flows /\ newcomer \in BOOLEAN
  BY DEF TypeOK
<1>5. QED
  BY <1>1, <1>3, <1>4 DEF TypeOK, Data

(* and what the server knows, *)
LEMMA FlowUsers ==
    ASSUME TypeOK, PlaceInv, UsersInv, NEW f \in Flows, FlowStep(f)
    PROVE  UsersInv'
<1>1. Data(f)
  BY FlowData
<1>2. PICK place, ms : Turn(f, place, ms) /\ Carries(f, ms)
  BY FlowTurns
<1>3. tempUsers \in Nat /\ tempUsers' \in Nat /\ tempUsers' >= tempUsers
  BY <1>1, FlowsAssumption DEF Data, TypeOK
<1>4. \A u : Known(u) => (u.kind = "temporary" => u.id \in 1..tempUsers')
  BY <1>3 DEF Known
<1>5. ASSUME NEW g \in Flows PROVE Known(user[g])'
  <2>1. CASE g = f
    BY <1>1, <2>1 DEF Data
  <2>2. CASE g # f
    BY <1>1, <1>4, <2>2 DEF Data, UsersInv, Known
  <2>3. QED
    BY <2>1, <2>2
<1>6. ASSUME NEW i \in DOMAIN toFrame'
      PROVE  /\ Known(toFrame[i].user)'
             /\ toFrame'[i].op = "setCookies" => HasToken(toFrame'[i].user)
  <2>1. CASE i \in DOMAIN toFrame
    <3>1. toFrame'[i] = toFrame[i]
      BY <1>2, <2>1, TurnChannel
    <3>2. QED
      BY <1>4, <2>1, <3>1 DEF UsersInv, Known
  <2>2. CASE i \notin DOMAIN toFrame
    <3>1. PICK k \in DOMAIN ms : toFrame'[i] = ms[k]
      BY <1>2, <2>2, TurnChannel
    <3>2. \/ toFrame'[i].op = "setCookies" /\ toFrame'[i].user = user[f] /\ HasToken(user[f])
          \/ toFrame'[i].op # "setCookies" /\ toFrame'[i].user = Nobody
      BY <1>2, <3>1 DEF Carries
    <3>3. Known(user[f]) /\ Known(Nobody)
      BY DEF UsersInv, Known, Nobody
    <3>4. QED
      BY <1>4, <3>2, <3>3 DEF Known
  <2>3. QED
    BY <2>1, <2>2
<1>7. ASSUME NEW j \in DOMAIN toParent' PROVE Known(toParent[j].user)'
  <2>1. PICK k \in DOMAIN toParent : toParent'[j] = toParent[k]
    BY <1>2, TurnAnswers
  <2>2. QED
    BY <1>4, <2>1 DEF UsersInv, Known
<1>8. QED
  BY <1>1, <1>5, <1>6, <1>7 DEF Data, UsersInv

(* and what its own place says of its user. *)
LEMMA FlowPlaces ==
    ASSUME TypeOK, PlaceInv, UsersInv, NEW f \in Flows, FlowStep(f)
    PROVE  PlaceInv'
<1> DEFINE Says(p, u, r, n) ==
        /\ p \in {"created", "signInRequired", "loginPage", "antennaWindow",
                  "antennaClosing", "refresh", "fbDialog"} => u.kind = "temporary"
        /\ p = "created" => u.temp = "true"
        /\ p = "posting" => HasToken(u)
        /\ p = "fbTokenGranted" => u.kind = "facebook"
        /\ p \in LoginPlaces \/ r = "retry" => n > 0
<1>a. /\ PlaceInv <=> \A g \in Flows : Says(pc[g], user[g], resume[g], logins[g])
      /\ PlaceInv' <=> \A g \in Flows : Says(pc'[g], user'[g], resume'[g], logins'[g])
  BY DEF PlaceInv
<1>b. Data(f)
  BY FlowData
<1>c. /\ pc \in [Flows -> Places] /\ user \in [Flows -> User]
      /\ resume \in [Flows -> {"post", "retry"}] /\ logins \in [Flows -> 0..MaxLogins]
      /\ logins[f] \in Nat /\ logins'[f] \in Nat /\ logins'[f] >= logins[f]
  BY <1>b, FlowsAssumption DEF TypeOK, Data
<1>1. ASSUME NEW g \in Flows \ {f}
      PROVE  Says(pc'[g], user'[g], resume'[g], logins'[g])
  <2>1. pc'[g] = pc[g]
    BY FlowTurns, TurnChannel
  <2>2. user'[g] = user[g] /\ resume'[g] = resume[g] /\ logins'[g] = logins[g]
    BY <1>b DEF Data
  <2>3. QED
    BY <1>a, <2>1, <2>2
<1>2. Says(pc[f], user[f], resume[f], logins[f])
  BY <1>a
<1> USE <1>c, <1>2
<1>3. CASE \/ FetchUser(f) \/ ServerAnswersReaction(f) \/ ReactionAnswered(f)
           \/ ShowLoginPage(f) \/ ReAuthorizeUser(f) \/ ReAuthorizeCookies(f)
           \/ ReAuthorizeStatus(f) \/ ReAuthorizeDialog(f) \/ DiscardUserInfo(f)
           \/ ServerDeauthorizes(f) \/ RefreshFromCookies(f) \/ AntennaSiteLogsIn(f)
           \/ AntennaWindowCloses(f)
  <2>1. UNCHANGED <<user, resume, logins>>
    BY <1>3 DEF FetchUser, ServerAnswersReaction, ReactionAnswered, ShowLoginPage,
       ReAuthorizeUser, ReAuthorizeCookies, ReAuthorizeStatus, ReAuthorizeDialog,
       DiscardUserInfo, ServerDeauthorizes, RefreshFromCookies, AntennaSiteLogsIn,
       AntennaWindowCloses
  <2>2. \/ pc'[f] \in {"getCookies", "answered", "tokenInvalid", "done", "stuck",
                       "reauthCookies", "reauthStatus", "reauthDialog", "deauthorizing",
                       "deauthorized"}
        \/ pc'[f] = "signInRequired" /\ user[f].kind = "temporary"
        \/ pc[f] = "signInRequired" /\ pc'[f] = "loginPage"
        \/ pc[f] \in {"antennaWindow", "antennaClosing"} /\ pc'[f] \in {"antennaClosing", "refresh"}
    BY <1>3 DEF FetchUser, ServerAnswersReaction, ReactionAnswered, ShowLoginPage,
       ReAuthorizeUser, ReAuthorizeCookies, ReAuthorizeStatus, ReAuthorizeDialog,
       DiscardUserInfo, ServerDeauthorizes, RefreshFromCookies, AntennaSiteLogsIn,
       AntennaWindowCloses, SendAndWait, Goto
  <2>3. Says(pc'[f], user'[f], resume'[f], logins'[f])
    BY <2>1, <2>2 DEF LoginPlaces
  <2>4. QED
    BY <1>1, <1>a, <2>3
<1>4. CASE CookiesArrive(f)
  <2>1. /\ logins' = logins /\ resume'[f] \in {"post", resume[f]}
        /\ \/ pc'[f] = "creating"
           \/ pc'[f] = "posting" /\ HasToken(user'[f])
    BY <1>4 DEF CookiesArrive, Goto
  <2>2. Says(pc'[f], user'[f], resume'[f], logins'[f])
    BY <2>1 DEF LoginPlaces
  <2>3. QED
    BY <1>1, <1>a, <2>2
<1>5. CASE ServerCreatesTempUser(f)
  <2>1. /\ UNCHANGED <<resume, logins>> /\ pc'[f] = "created"
        /\ user'[f] = TempUser(tempUsers')
    BY <1>5 DEF ServerCreatesTempUser, Goto
  <2>2. Says(pc'[f], user'[f], resume'[f], logins'[f])
    BY <2>1 DEF LoginPlaces, TempUser
  <2>3. QED
    BY <1>1, <1>a, <2>2
<1>6. CASE TempUserArrives(f)
  <2>1. pc[f] = "created" /\ HasToken(user[f]) /\ UNCHANGED <<resume, logins>>
    BY <1>6 DEF TempUserArrives, HasToken
  <2>2. HasToken(cachedUserInfo')
    BY <1>6, <2>1 DEF TempUserArrives, KeepsCachedUser
  <2>3. \/ pc'[f] = "posting" /\ user'[f] = cachedUserInfo'
        \/ pc'[f] = "getCookies"
    BY <1>6 DEF TempUserArrives, SendAndWait, Goto
  <2>4. Says(pc'[f], user'[f], resume'[f], logins'[f])
    BY <2>1, <2>2, <2>3 DEF LoginPlaces
  <2>5. QED
    BY <1>1, <1>a, <2>4
<1>7. CASE RetryClicked(f) \/ FacebookClicked(f) \/ AntennaClicked(f)
  <2>1. /\ pc[f] = "loginPage" /\ UNCHANGED <<user, resume>>
        /\ pc'[f] \in {"getCookies", "fbDialog", "antennaWindow"}
        /\ logins'[f] = logins[f] + 1
    BY <1>7 DEF RetryClicked, FacebookClicked, AntennaClicked, SendAndWait, Goto
  <2>2. logins'[f] > 0
    BY <2>1
  <2>3. Says(pc'[f], user'[f], resume'[f], logins'[f])
    BY <2>1, <2>2
  <2>4. QED
    BY <1>1, <1>a, <2>3
<1>8. CASE FacebookLoginAnswered(f)
  <2>1. /\ pc[f] = "fbDialog" /\ UNCHANGED <<resume, logins>>
        /\ pc'[f] \in {"fbToken", "getCookies"}
    BY <1>8 DEF FacebookLoginAnswered, Hears, SendAndWait, Goto
  <2>2. Says(pc'[f], user'[f], resume'[f], logins'[f])
    BY <2>1 DEF LoginPlaces
  <2>3. QED
    BY <1>1, <1>a, <2>2
<1>9. CASE ServerGrantsToken(f)
  <2>1. /\ pc[f] = "fbToken" /\ UNCHANGED <<resume, logins>>
        /\ \/ pc'[f] = "fbTokenGranted" /\ user'[f].kind = "facebook"
           \/ pc'[f] = "fbTokenRefused" /\ user' = user
    BY <1>9 DEF ServerGrantsToken, FacebookUser, Goto
  <2>2. Says(pc'[f], user'[f], resume'[f], logins'[f])
    BY <2>1 DEF LoginPlaces
  <2>3. QED
    BY <1>1, <1>a, <2>2
<1>10. CASE TokenArrives(f)
  <2>1. UNCHANGED <<user, resume, logins>> /\ pc'[f] = "getCookies"
    BY <1>10 DEF TokenArrives, SendAndWait, Goto
  <2>2. Says(pc'[f], user'[f], resume'[f], logins'[f])
    BY <2>1 DEF LoginPlaces
  <2>3. QED
    BY <1>1, <1>a, <2>2
<1>11. CASE TokenRefused(f)
  <2>1. /\ pc[f] = "fbTokenRefused" /\ UNCHANGED <<user, logins>>
        /\ pc'[f] = "creating"
    BY <1>11 DEF TokenRefused, Goto
  <2>2. Says(pc'[f], user'[f], resume'[f], logins'[f])
    BY <2>1 DEF LoginPlaces
  <2>3. QED
    BY <1>1, <1>a, <2>2
<1>12. QED
  BY <1>3, <1>4, <1>5, <1>6, <1>7, <1>8, <1>9, <1>10, <1>11
     DEF FlowStep, WidgetStep, ServerStep

-----------------------------------------------------------------------------
(* The frame and Facebook                                                   *)

Basics == TypeOK /\ PlaceInv /\ UsersInv /\ ChannelInv

(* The answer to a request for the cookies, and the one of Facebook. *)
CookieAnswer(f) == [flow |-> f, user |-> cookies, status |-> "cookies"]
StatusAnswer(f, s) == [flow |-> f, user |-> Nobody, status |-> s]

(* What a dispatch takes off the queue, and what becomes of it. *)
LEMMA Dispatch ==
    ASSUME TypeOK, FrameDispatches
    PROVE  /\ 1 \in DOMAIN toFrame /\ toFrame[1] \in Request
           /\ Len(toFrame) \in Nat /\ DOMAIN toFrame = 1..Len(toFrame)
           /\ toFrame' \in Seq(Request) /\ DOMAIN toFrame' = 1..(Len(toFrame) - 1)
           /\ \A i \in DOMAIN toFrame' :
                  /\ i \in Nat \ {0} /\ i + 1 \in DOMAIN toFrame
                  /\ toFrame'[i] = toFrame[i + 1]
           /\ UNCHANGED <<cachedUserInfo, flow, server, newcomer, firstUser>>
           /\ CASE toFrame[1].op = "getCookies" ->
                       /\ toParent' = Append(toParent, CookieAnswer(toFrame[1].flow))
                       /\ UNCHANGED <<cookies, working, loggedIn>>
                [] toFrame[1].op = "setCookies" ->
                       /\ cookies' = AsCookie(toFrame[1].user)
                       /\ loggedIn' = IF toFrame[1].user.kind = "temporary"
                                      THEN {f \in loggedIn : user[f].kind = "facebook"}
                                      ELSE loggedIn
                       /\ UNCHANGED <<toParent, working>>
                [] toFrame[1].op = "removeCookies" ->
                       /\ cookies' = Nobody /\ loggedIn' = {}
                       /\ UNCHANGED <<toParent, working>>
                [] toFrame[1].op = "facebook" ->
                       /\ working' = working \cup {toFrame[1].flow}
                       /\ UNCHANGED <<cookies, toParent, loggedIn>>
<1>1. toFrame \in Seq(Request) /\ toFrame # <<>> /\ toFrame' = Tail(toFrame)
  BY DEF TypeOK, FrameDispatches
<1>2. Head(toFrame) = toFrame[1] /\ toFrame[1] \in Request
  BY <1>1, TakeFirst
<1>3. toFrame[1].op \in {"getCookies", "setCookies", "removeCookies", "facebook"}
  BY <1>2 DEF Request
<1>4. CASE toFrame[1].op = "getCookies"
  BY <1>1, <1>2, <1>4, TakeFirst DEF FrameDispatches, CookieAnswer
<1>5. CASE toFrame[1].op = "setCookies"
  BY <1>1, <1>2, <1>5, TakeFirst DEF FrameDispatches
<1>6. CASE toFrame[1].op = "removeCookies"
  BY <1>1, <1>2, <1>6, TakeFirst DEF FrameDispatches
<1>7. CASE toFrame[1].op = "facebook"
  BY <1>1, <1>2, <1>7, TakeFirst DEF FrameDispatches
<1>8. QED
  BY <1>3, <1>4, <1>5, <1>6, <1>7

(* An answer that is appended, seen from the list that results. *)
LEMMA Answered ==
    ASSUME TypeOK, NEW a \in Answer, toParent' = Append(toParent, a)
    PROVE  /\ toParent' \in Seq(Answer)
           /\ Len(toParent) \in Nat /\ DOMAIN toParent = 1..Len(toParent)
           /\ DOMAIN toParent' = 1..(Len(toParent) + 1)
           /\ toParent'[Len(toParent) + 1] = a
           /\ \A j \in DOMAIN toParent : toParent'[j] = toParent[j]
BY AddLast DEF TypeOK

(* The frame answers a request or stores cookies, and keeps all of this. *)
LEMMA FrameBasics ==
    ASSUME Basics, FrameDispatches
    PROVE  Basics'
<1> USE DEF Basics
<1> DEFINE m == toFrame[1]
<1>a. /\ 1 \in DOMAIN toFrame /\ m \in Request
      /\ m.op \in {"getCookies", "setCookies", "removeCookies", "facebook"}
      /\ m.flow \in Flows /\ m.user \in User
      /\ UNCHANGED <<cachedUserInfo, flow, server, newcomer, firstUser>>
      /\ toFrame' \in Seq(Request)
      /\ \A i \in DOMAIN toFrame' :
             /\ i \in Nat \ {0} /\ i + 1 \in DOMAIN toFrame
             /\ toFrame'[i] = toFrame[i + 1]
  BY Dispatch DEF Request
<1>b. /\ loggedIn' \subseteq Flows /\ cookies' \in User
      /\ Known(m.user) /\ Known(cookies) /\ Known(cookies')
  BY <1>a, Dispatch, UserTypes, ZenonT(60) DEF UsersInv, TypeOK, Known, Nobody
<1>c. PlaceInv'
  BY <1>a DEF PlaceInv, flow
<1>d. \A u : Known(u)' = Known(u)
  BY <1>a DEF Known, server
<1>e. \A i \in DOMAIN toFrame' :
          /\ Known(toFrame[i].user)'
          /\ toFrame'[i].op = "setCookies" => HasToken(toFrame'[i].user)
  BY <1>a DEF UsersInv, Known, server
<1>f. (\A f \in Flows : Known(user[f])') /\ Known(cachedUserInfo)' /\ Known(cookies)'
  BY <1>a, <1>b DEF UsersInv, Known, server, flow
<1>g. ASSUME toParent' \in Seq(Answer), working' \subseteq Flows,
             \A j \in DOMAIN toParent' : Known(toParent[j].user)'
      PROVE  TypeOK' /\ UsersInv'
  <2>1. TypeOK'
    BY <1>a, <1>b, <1>g DEF TypeOK, flow, server
  <2>2. QED
    BY <2>1, <1>e, <1>f, <1>g DEF UsersInv
<1>1. CASE m.op = "getCookies"
  <2> DEFINE a == CookieAnswer(m.flow)
  <2>1. /\ a \in Answer /\ a.flow = m.flow /\ a.user = cookies /\ a.status = "cookies"
        /\ toParent' = Append(toParent, a) /\ UNCHANGED <<cookies, working>>
    BY <1>1, <1>a, Dispatch DEF CookieAnswer, Answer, TypeOK
  <2> HIDE DEF a
  <2>2. /\ toParent' \in Seq(Answer)
        /\ Len(toParent) \in Nat /\ DOMAIN toParent = 1..Len(toParent)
        /\ DOMAIN toParent' = 1..(Len(toParent) + 1)
        /\ toParent'[Len(toParent) + 1] = a
        /\ \A j \in DOMAIN toParent : toParent'[j] = toParent[j]
    BY <2>1, Answered
  <2>3. \A j \in DOMAIN toParent' : j \in DOMAIN toParent \/ j = Len(toParent) + 1
    BY <2>2
  <2>4. TypeOK' /\ UsersInv'
    <3>1. \A j \in DOMAIN toParent' : Known(toParent[j].user)'
      BY <1>a, <1>b, <2>1, <2>2, <2>3 DEF UsersInv, Known, server
    <3>2. working' \subseteq Flows
      BY <2>1 DEF TypeOK
    <3>3. QED
      BY <1>g, <2>2, <3>1, <3>2
  <2>5. /\ Asks(m) /\ pc[m.flow] \in Reads /\ m.flow \notin working
        /\ \A j \in DOMAIN toParent : toParent[j].flow # m.flow
        /\ \A i \in DOMAIN toFrame' : Asks(toFrame'[i]) => toFrame'[i].flow # m.flow
    BY <1>1, <1>a DEF ChannelInv, Asks, WaitsFor
  <2>6. ASSUME NEW i \in DOMAIN toFrame'
        PROVE  /\ toFrame'[i].op = "removeCookies" => pc[toFrame'[i].flow] = "stuck"
               /\ Asks(toFrame'[i]) =>
                  /\ pc[toFrame'[i].flow] \in WaitsFor(toFrame'[i].op)
                  /\ toFrame'[i].flow \notin working
                  /\ \A j \in DOMAIN toParent' : toParent'[j].flow # toFrame'[i].flow
                  /\ \A j \in DOMAIN toFrame' :
                         Asks(toFrame'[j]) /\ toFrame'[j].flow = toFrame'[i].flow => i = j
    BY <1>a, <2>1, <2>2, <2>3, <2>5 DEF ChannelInv
  <2>7. \A f \in working :
           /\ pc[f] \in Dialogs
           /\ \A j \in DOMAIN toParent' : toParent'[j].flow # f
    BY <2>1, <2>2, <2>3, <2>5 DEF ChannelInv
  <2>8. \A j \in DOMAIN toParent' :
           /\ pc[toParent'[j].flow]
                \in IF toParent'[j].status = "cookies" THEN Reads ELSE Dialogs
           /\ \A k \in DOMAIN toParent' : toParent'[k].flow = toParent'[j].flow => j = k
    BY <2>1, <2>2, <2>3, <2>5 DEF ChannelInv
  <2>9. ChannelInv'
    BY <1>a, <2>1, <2>6, <2>7, <2>8 DEF ChannelInv, flow
  <2>10. QED
    BY <1>c, <2>4, <2>9
<1>2. CASE m.op \in {"setCookies", "removeCookies"}
  <2>1. UNCHANGED <<toParent, working>>
    BY <1>2, Dispatch
  <2>2. TypeOK' /\ UsersInv'
    <3>1. \A j \in DOMAIN toParent' : Known(toParent[j].user)'
      BY <1>a, <2>1 DEF UsersInv, Known, server
    <3>2. toParent' \in Seq(Answer) /\ working' \subseteq Flows
      BY <2>1 DEF TypeOK
    <3>3. QED
      BY <1>g, <3>1, <3>2
  <2>3. ChannelInv'
    BY <1>a, <2>1 DEF ChannelInv, flow
  <2>4. QED
    BY <1>c, <2>2, <2>3
<1>3. CASE m.op = "facebook"
  <2>1. working' = working \cup {m.flow} /\ UNCHANGED toParent
    BY <1>3, Dispatch
  <2>2. TypeOK' /\ UsersInv'
    <3>1. \A j \in DOMAIN toParent' : Known(toParent[j].user)'
      BY <1>a, <2>1 DEF UsersInv, Known, server
    <3>2. toParent' \in Seq(Answer) /\ working' \subseteq Flows
      BY <1>a, <2>1 DEF TypeOK
    <3>3. QED
      BY <1>g, <3>1, <3>2
  <2>3. /\ Asks(m) /\ pc[m.flow] \in Dialogs
        /\ \A j \in DOMAIN toParent : toParent[j].flow # m.flow
        /\ \A i \in DOMAIN toFrame' : Asks(toFrame'[i]) => toFrame'[i].flow # m.flow
    BY <1>3, <1>a DEF ChannelInv, Asks, WaitsFor
  <2>4. ChannelInv'
    BY <1>a, <2>1, <2>3 DEF ChannelInv, flow
  <2>5. QED
    BY <1>c, <2>2, <2>4
<1>4. QED
  BY <1>a, <1>1, <1>2, <1>3

(* So do the answers of Facebook and the expiry of a token. *)
LEMMA FacebookBasics ==
    ASSUME Basics, FacebookExpires \/ \E f \in Flows : FacebookAnswers(f)
    PROVE  Basics'
<1> USE DEF Basics
<1>1. CASE FacebookExpires
  <2>1. TypeOK'
    BY <1>1, FlowsAssumption DEF FacebookExpires, TypeOK, channel, flow, history
  <2>2. PlaceInv' /\ UsersInv' /\ ChannelInv'
    BY <1>1 DEF FacebookExpires, PlaceInv, UsersInv, ChannelInv, Known, channel, flow
  <2>3. QED
    BY <2>1, <2>2
<1>2. ASSUME NEW f \in Flows, FacebookAnswers(f) PROVE Basics'
  <2>1. PICK s \in {"connected", "not_authorized", "unknown"} :
            /\ f \in working /\ working' = working \ {f}
            /\ toParent' = Append(toParent, StatusAnswer(f, s))
            /\ UNCHANGED <<cachedUserInfo, cookies, toFrame, flow, server, history>>
    BY <1>2 DEF FacebookAnswers, StatusAnswer
  <2> DEFINE a == StatusAnswer(f, s)
  <2>2. a \in Answer /\ a.flow = f /\ a.user = Nobody /\ a.status = s
    BY UserTypes DEF StatusAnswer, Answer
  <2> HIDE DEF a
  <2>3. /\ toParent' \in Seq(Answer)
        /\ Len(toParent) \in Nat /\ DOMAIN toParent = 1..Len(toParent)
        /\ DOMAIN toParent' = 1..(Len(toParent) + 1)
        /\ toParent'[Len(toParent) + 1] = a
        /\ \A j \in DOMAIN toParent : toParent'[j] = toParent[j]
    BY <2>1, <2>2, Answered DEF a
  <2>4. \A j \in DOMAIN toParent' : j \in DOMAIN toParent \/ j = Len(toParent) + 1
    BY <2>3
  <2>5. TypeOK'
    BY <2>1, <2>3 DEF TypeOK, flow, server, history
  <2>6. PlaceInv'
    BY <2>1 DEF PlaceInv, flow
  <2>7. UsersInv'
    BY <2>1, <2>2, <2>3, <2>4 DEF UsersInv, Known, Nobody, flow, server
  <2>8. /\ pc[f] \in Dialogs
        /\ \A j \in DOMAIN toParent : toParent[j].flow # f
        /\ \A i \in DOMAIN toFrame : Asks(toFrame[i]) => toFrame[i].flow # f
    BY <2>1 DEF ChannelInv
  <2>9. ChannelInv'
    BY <2>1, <2>2, <2>3, <2>4, <2>8 DEF ChannelInv, flow
  <2>10. QED
    BY <2>5, <2>6, <2>7, <2>9
<1>3. QED
  BY <1>1, <1>2

(* All that the initial states have. *)
LEMMA InitBasics == Init => Basics
<1> SUFFICES ASSUME Init PROVE Basics
  OBVIOUS
<1>1. /\ Nobody \in User /\ TempUser(1) \in User /\ FacebookUser(1) \in User
      /\ AntennaUser \in User
      /\ AsCookie(TempUser(1)) \in User /\ AsCookie(FacebookUser(1)) \in User
      /\ AsCookie(AntennaUser) \in User
      /\ AsCookie(TempUser(1)).id = 1
      /\ AsCookie(FacebookUser(1)).kind = "facebook"
      /\ AsCookie(AntennaUser).kind = "antenna"
  <2>1. 1 \in 0..MaxTemp /\ 1 \in 0..MaxAccess
    BY FlowsAssumption
  <2>2. QED
    BY <2>1, UserTypes DEF TempUser, FacebookUser, AntennaUser
<1>2. PICK kind \in FirstCookies :
          /\ cookies = CASE kind = "nobody" -> Nobody
                         [] kind = "temporary" -> AsCookie(TempUser(1))
                         [] kind = "facebook" -> AsCookie(FacebookUser(1))
                         [] kind = "antenna" -> AsCookie(AntennaUser)
          /\ newcomer = (kind = "nobody")
          /\ tempUsers = IF kind = "temporary" THEN 1 ELSE 0
          /\ socialAuth = IF kind = "facebook" THEN 1 ELSE 0
  BY DEF Init
<1>3. kind \in {"nobody", "temporary", "facebook", "antenna"}
  BY KindsAssumption
<1>4. /\ cachedUserInfo = Nobody /\ toFrame = <<>> /\ working = {} /\ toParent = <<>>
      /\ pc = [f \in Flows |-> "idle"] /\ user = [f \in Flows |-> Nobody]
      /\ resume = [f \in Flows |-> "post"] /\ logins = [f \in Flows |-> 0]
      /\ converted = {} /\ access = 1 /\ firstUser = Nobody /\ loggedIn = {}
  BY DEF Init
<1>5. cookies \in User /\ newcomer \in BOOLEAN
  BY <1>1, <1>2, <1>3
<1>6. tempUsers \in 0..MaxTemp /\ access \in 1..MaxAccess /\ socialAuth \in 0..access
  BY <1>2, <1>4, FlowsAssumption
<1>7. TypeOK
  BY <1>1, <1>4, <1>5, <1>6, FlowsAssumption DEF TypeOK, Places
<1>8. PlaceInv
  BY <1>4 DEF PlaceInv, LoginPlaces
<1>9. UsersInv
  <2>1. Known(cookies)
    BY <1>1, <1>2, <1>3 DEF Known, Nobody
  <2>2. QED
    BY <1>4, <2>1 DEF UsersInv, Known, Nobody
<1>10. ChannelInv
  BY <1>4 DEF ChannelInv
<1>11. QED
  BY <1>7, <1>8, <1>9, <1>10 DEF Basics

(* The steps of a flow, all four together. *)
LEMMA FlowBasics ==
    ASSUME Basics, NEW f \in Flows, FlowStep(f)
    PROVE  Basics'
<1>1. ChannelInv'
  BY FlowTurns, ChannelTurn DEF Basics
<1>2. QED
  BY <1>1, FlowTypes, FlowUsers, FlowPlaces DEF Basics

(* The three kinds of steps. *)
LEMMA StepKinds ==
    ASSUME Next
    PROVE  \/ \E f \in Flows : FlowStep(f)
           \/ FrameDispatches
           \/ FacebookExpires \/ \E f \in Flows : FacebookAnswers(f)
BY DEF Next, FlowStep, ReaderStep

(* Types, places, users and channel are an inductive invariant. *)
LEMMA NextBasics == Basics /\ [Next]_vars => Basics'
<1> SUFFICES ASSUME Basics, [Next]_vars PROVE Basics'
  OBVIOUS
<1>1. CASE Next
  BY <1>1, StepKinds, FlowBasics, FrameBasics, FacebookBasics
<1>2. CASE UNCHANGED vars
  BY <1>2 DEF vars, channel, flow, server, history, Basics, TypeOK, PlaceInv, UsersInv,
     ChannelInv, Known
<1>3. QED
  BY <1>1, <1>2

(* And so hold in every state. *)
LEMMA SessionBasics == Spec => []Basics
<1>1. QED
  BY InitBasics, NextBasics, PTL DEF Spec

(* The widget, the frame and the server hold what they are meant to hold.    *)
THEOREM SessionTypeCorrect == Spec => []TypeOK
<1>1. Basics => TypeOK
  BY DEF Basics
<1>2. QED
  BY <1>1, SessionBasics, PTL

-----------------------------------------------------------------------------
(* A login takes effect                                                     *)

(* What LoginInv says of one flow. *)
LoginOf(f) ==
    /\ pc[f] \in {"antennaClosing", "getCookies", "refresh", "posting", "answered", "done"}
                     \cup AfterTokenError
    /\ pc[f] = "posting" => Person(user[f])
    /\ pc[f] \in {"antennaClosing", "getCookies", "refresh"} =>
           /\ \A j \in DOMAIN toParent : toParent[j].flow = f => Person(toParent[j].user)
           /\ IF user[f].kind = "facebook" THEN Bears(f) ELSE Person(cookies)

(* The steps of a flow touch the logins and the cookies only by a login. *)
LEMMA FlowLogins ==
    ASSUME NEW f \in Flows, FlowStep(f)
    PROVE  /\ loggedIn' \subseteq loggedIn \cup {f}
           /\ cookies' \in {cookies, AsCookie(AntennaUser)}
           /\ ~TokenArrives(f) /\ ~AntennaSiteLogsIn(f) => UNCHANGED <<loggedIn, cookies>>
<1>1. CASE TokenArrives(f)
  BY <1>1 DEF TokenArrives
<1>2. CASE AntennaSiteLogsIn(f)
  BY <1>2 DEF AntennaSiteLogsIn
<1>3. CASE \/ FetchUser(f) \/ CookiesArrive(f) \/ ServerCreatesTempUser(f)
           \/ TempUserArrives(f) \/ ServerAnswersReaction(f) \/ ReactionAnswered(f)
           \/ ShowLoginPage(f) \/ ReAuthorizeUser(f) \/ ReAuthorizeCookies(f)
           \/ ReAuthorizeStatus(f) \/ ReAuthorizeDialog(f) \/ ServerDeauthorizes(f)
           \/ DiscardUserInfo(f) \/ RetryClicked(f) \/ FacebookClicked(f)
           \/ FacebookLoginAnswered(f) \/ ServerGrantsToken(f) \/ TokenRefused(f)
           \/ AntennaClicked(f) \/ AntennaWindowCloses(f) \/ RefreshFromCookies(f)
  BY <1>3 DEF FetchUser, CookiesArrive, ServerCreatesTempUser, TempUserArrives,
     ServerAnswersReaction, ReactionAnswered, ShowLoginPage, ReAuthorizeUser,
     ReAuthorizeCookies, ReAuthorizeStatus, ReAuthorizeDialog, ServerDeauthorizes,
     DiscardUserInfo, RetryClicked, FacebookClicked, FacebookLoginAnswered,
     ServerGrantsToken, TokenRefused, AntennaClicked, AntennaWindowCloses,
     RefreshFromCookies, history
<1>4. QED
  BY <1>1, <1>2, <1>3 DEF FlowStep, WidgetStep, ServerStep

(* A turn leaves no answer for the flow that takes it, nor an old request. *)
LEMMA NothingLeft ==
    ASSUME Basics, NEW f \in Flows, NEW place, NEW ms, Turn(f, place, ms)
    PROVE  /\ \A j \in DOMAIN toParent' : toParent'[j].flow # f
           /\ \A i \in DOMAIN toFrame : Asks(toFrame[i]) => toFrame[i].flow # f
<1>1. pc[f] # "stuck"
  BY DEF Turn
<1>2. QED
  BY <1>1, TurnAnswers DEF ChannelInv, WaitsFor, Basics

(* Another flow's turn leaves a login alone. *)
LEMMA OthersLogin ==
    ASSUME Basics, LoginInv, NEW f \in Flows, FlowStep(f), NEW g \in loggedIn' \ {f}
    PROVE  LoginOf(g)'
<1>1. PICK place, ms : Turn(f, place, ms)
  BY FlowTurns DEF Basics
<1>2. g \in loggedIn /\ g \in Flows /\ LoginOf(g)
  BY FlowLogins DEF LoginInv, LoginOf, Basics, TypeOK
<1>3. pc'[g] = pc[g] /\ user'[g] = user[g]
  BY <1>1, <1>2, TurnChannel, FlowData DEF Basics, Data
<1>4. Person(cookies) => Person(cookies')
  <2>1. AsCookie(AntennaUser).kind = "antenna"
    BY UserTypes DEF AntennaUser
  <2>2. QED
    BY <2>1, FlowLogins DEF Person
<1>5. ASSUME Bears(g) PROVE Bears(g)'
  <2> SUFFICES ASSUME NEW i \in DOMAIN toFrame',
                      toFrame'[i].op = "getCookies", toFrame'[i].flow = g
               PROVE  IF i = 1 THEN Person(cookies')
                      ELSE toFrame'[i - 1].op = "setCookies" /\ Person(toFrame'[i - 1].user)
    BY DEF Bears, Person
  <2>1. i \in DOMAIN toFrame
    <3>1. \A k \in DOMAIN ms : ms[k].flow = f
      BY <1>1 DEF Turn, Posted
    <3>2. QED
      BY <1>1, <1>2, <3>1, TurnChannel DEF Basics
  <2>2. /\ toFrame'[i] = toFrame[i] /\ i \in 1..Len(toFrame) /\ Len(toFrame) \in Nat
        /\ i # 1 => i - 1 \in DOMAIN toFrame /\ toFrame'[i - 1] = toFrame[i - 1]
    BY <1>1, <2>1, TurnChannel DEF Basics
  <2>3. QED
    BY <1>4, <1>5, <2>1, <2>2 DEF Bears
<1>6. \A j \in DOMAIN toParent' : \E k \in DOMAIN toParent : toParent'[j] = toParent[k]
  BY <1>1, TurnAnswers DEF Basics
<1>7. QED
  BY <1>2, <1>3, <1>4, <1>5, <1>6 DEF LoginOf, Person

(* A flow that logged in earlier. *)
LEMMA EarlierLogin ==
    ASSUME Basics, LoginInv, NEW f \in loggedIn, f \in Flows, FlowStep(f)
    PROVE  LoginOf(f)'
<1>1. LoginOf(f) /\ PlaceInv
  BY DEF LoginInv, LoginOf, Basics
<1>2. pc[f] \in {"antennaClosing", "getCookies", "refresh", "posting", "answered", "done"}
                     \cup AfterTokenError
  BY <1>1 DEF LoginOf
<1>3. pc \in [Flows -> Places] /\ user \in [Flows -> User] /\ toParent \in Seq(Answer)
  BY DEF Basics, TypeOK
<1>4. CASE CookiesArrive(f)
  <2>1. pc[f] = "getCookies" /\ toParent # <<>> /\ Head(toParent).flow = f
    BY <1>4 DEF CookiesArrive, Hears
  <2>2. Person(Head(toParent).user)
    BY <1>1, <1>3, <2>1, TakeFirst DEF LoginOf
  <2>3. pc'[f] = "posting" /\ Person(user'[f])
    BY <1>3, <1>4, <2>2 DEF CookiesArrive, Person, HasToken, Goto
  <2>4. QED
    BY <2>3 DEF LoginOf, Person
<1>5. CASE RefreshFromCookies(f)
  <2>1. /\ pc[f] = "refresh" /\ pc'[f] = "getCookies" /\ user' = user /\ cookies' = cookies
    BY <1>3, <1>5 DEF RefreshFromCookies, Hears, SendAndWait, Goto
  <2>2. user[f].kind = "temporary" /\ Person(cookies)
    BY <1>1, <2>1 DEF PlaceInv, LoginOf
  <2>3. \A j \in DOMAIN toParent' : toParent'[j].flow # f
    BY <1>5, LoginTurns, NothingLeft DEF Basics
  <2>4. QED
    BY <2>1, <2>2, <2>3 DEF LoginOf, Person
<1>6. CASE ServerAnswersReaction(f) \/ ReactionAnswered(f)
  <2>1. pc'[f] \in {"answered", "tokenInvalid", "done"}
    BY <1>1, <1>3, <1>6 DEF ServerAnswersReaction, ReactionAnswered, LoginOf, Person, Goto
  <2>2. QED
    BY <2>1 DEF LoginOf, AfterTokenError
<1>7. CASE \/ ReAuthorizeUser(f) \/ ReAuthorizeCookies(f) \/ ReAuthorizeStatus(f)
           \/ ReAuthorizeDialog(f) \/ ServerDeauthorizes(f) \/ DiscardUserInfo(f)
  <2>1. pc'[f] \in {"reauthCookies", "reauthStatus", "reauthDialog", "deauthorizing",
                    "deauthorized", "stuck"}
    BY <1>3, <1>7 DEF ReAuthorizeUser, ReAuthorizeCookies, ReAuthorizeStatus,
       ReAuthorizeDialog, ServerDeauthorizes, DiscardUserInfo, SendAndWait, Goto
  <2>2. QED
    BY <2>1 DEF LoginOf, AfterTokenError
<1>8. CASE \/ FetchUser(f) \/ ServerCreatesTempUser(f) \/ TempUserArrives(f)
           \/ ShowLoginPage(f) \/ RetryClicked(f) \/ FacebookClicked(f)
           \/ FacebookLoginAnswered(f) \/ ServerGrantsToken(f) \/ TokenArrives(f)
           \/ TokenRefused(f) \/ AntennaClicked(f) \/ AntennaSiteLogsIn(f)
  <2>1. pc[f] \in {"idle", "creating", "created", "signInRequired", "loginPage", "fbDialog",
                   "fbToken", "fbTokenGranted", "fbTokenRefused", "antennaWindow"}
    BY <1>8 DEF FetchUser, ServerCreatesTempUser, TempUserArrives, ShowLoginPage,
       RetryClicked, FacebookClicked, FacebookLoginAnswered, ServerGrantsToken, TokenArrives,
       TokenRefused, AntennaClicked, AntennaSiteLogsIn, Hears
  <2>2. QED
    BY <1>2, <2>1 DEF AfterTokenError
<1>9. CASE AntennaWindowCloses(f)
  <2>1. pc[f] = "antennaClosing"
    BY <1>2, <1>9 DEF AntennaWindowCloses, AfterTokenError
  <2>2. pc'[f] = "refresh" /\ user' = user /\ cookies' = cookies
    BY <1>3, <1>9 DEF AntennaWindowCloses, SendAndWait, Goto
  <2>3. user[f].kind = "temporary" /\ Person(cookies)
    BY <1>1, <2>1 DEF PlaceInv, LoginOf
  <2>4. \A j \in DOMAIN toParent' : toParent'[j].flow # f
    BY <1>9, LoginTurns, NothingLeft DEF Basics
  <2>5. QED
    BY <2>2, <2>3, <2>4 DEF LoginOf, Person
<1>10. QED
  BY <1>4, <1>5, <1>6, <1>7, <1>8, <1>9 DEF FlowStep, WidgetStep, ServerStep

(* A flow that logs in now. *)
LEMMA NewLogin ==
    ASSUME Basics, NEW f \in Flows \ loggedIn, FlowStep(f), f \in loggedIn'
    PROVE  LoginOf(f)'
<1>1. pc \in [Flows -> Places] /\ user \in [Flows -> User] /\ PlaceInv
  BY DEF Basics, TypeOK
<1>2. TokenArrives(f) \/ AntennaSiteLogsIn(f)
  BY FlowLogins
<1>3. CASE TokenArrives(f)
  <2> DEFINE set == StoredCookies(f, user[f])
             get == GetCookies(f)
             ms == <<set, get>>
             n == Len(toFrame)
  <2>1. /\ pc'[f] = "getCookies" /\ user' = user /\ user[f].kind = "facebook"
    BY <1>1, <1>3 DEF TokenArrives, SendAndWait, Goto, PlaceInv
  <2>2. Turn(f, "getCookies", ms)
    BY <1>3, LoginTurns DEF Basics
  <2>3. set.op = "setCookies" /\ set.user = user[f] /\ set \in Request /\ get \in Request
    BY <1>1, Messages, UserTypes DEF Ops
  <2> HIDE DEF set, get
  <2>4. DOMAIN ms = {1, 2} /\ ms[1] = set /\ ms[2] = get
    OBVIOUS
  <2> HIDE DEF ms
  <2>5. /\ \A j \in DOMAIN toParent' : toParent'[j].flow # f
        /\ \A i \in DOMAIN toFrame : Asks(toFrame[i]) => toFrame[i].flow # f
    BY <2>2, NothingLeft
  <2>6. /\ n \in Nat /\ DOMAIN toFrame = 1..n
        /\ toFrame'[n + 1] = ms[1]
        /\ \A i \in DOMAIN toFrame : toFrame'[i] = toFrame[i]
        /\ \A i \in DOMAIN toFrame' : i \in DOMAIN toFrame \/ i - n \in {1, 2}
        /\ DOMAIN toFrame' \subseteq Nat
    <3>1. toFrame' \in Seq(Request)
      BY <2>2, TurnChannel DEF Basics
    <3>2. DOMAIN toFrame' \subseteq Nat
      BY <3>1
    <3>3. QED
      BY <2>2, <2>4, <3>2, TurnChannel DEF Basics
  <2>7. ASSUME NEW i \in DOMAIN toFrame', toFrame'[i].op = "getCookies", toFrame'[i].flow = f
        PROVE  i = n + 2
    <3>1. i \notin DOMAIN toFrame
      BY <2>5, <2>6, <2>7 DEF Asks
    <3>2. i - n = 1 => i = n + 1
      BY <2>6
    <3>3. i - n # 1
      BY <2>3, <2>4, <2>6, <2>7, <3>2
    <3>4. QED
      BY <2>6, <3>1, <3>3
  <2>8. Bears(f)'
    <3>1. n + 2 # 1 /\ (n + 2) - 1 = n + 1
      BY <2>6
    <3>2. toFrame'[n + 1].op = "setCookies" /\ Person(toFrame'[n + 1].user)
      BY <2>1, <2>3, <2>4, <2>6 DEF Person
    <3>3. QED
      BY <2>7, <3>1, <3>2 DEF Bears, Person
  <2>9. QED
    BY <2>1, <2>5, <2>8 DEF LoginOf
<1>4. CASE AntennaSiteLogsIn(f)
  <2>1. /\ pc'[f] = "antennaClosing" /\ user' = user /\ user[f].kind = "temporary"
        /\ cookies' = AsCookie(AntennaUser)
    BY <1>1, <1>4 DEF AntennaSiteLogsIn, Goto, PlaceInv
  <2>2. AsCookie(AntennaUser).kind = "antenna"
    BY UserTypes DEF AntennaUser
  <2>3. \A j \in DOMAIN toParent' : toParent'[j].flow # f
    BY <1>4, LoginTurns, NothingLeft DEF Basics
  <2>4. QED
    BY <2>1, <2>2, <2>3 DEF LoginOf, Person
<1>5. QED
  BY <1>2, <1>3, <1>4

(* The frame stores and answers in order: what is ahead of a request for the *)
(* cookies has been stored when the request is answered.                     *)
LEMMA FrameLogins ==
    ASSUME Basics, LoginInv, FrameDispatches, NEW g \in loggedIn'
    PROVE  LoginOf(g)'
<1> DEFINE m == toFrame[1]
<1>1. /\ 1 \in DOMAIN toFrame /\ m \in Request
      /\ m.op \in {"getCookies", "setCookies", "removeCookies", "facebook"}
      /\ m.flow \in Flows /\ m.user \in User /\ m.user.kind \in Kinds
      /\ UNCHANGED <<pc, user>>
      /\ \A i \in DOMAIN toFrame' :
             /\ i \in Nat \ {0} /\ i + 1 \in DOMAIN toFrame
             /\ toFrame'[i] = toFrame[i + 1]
      /\ DOMAIN toFrame' = 1..(Len(toFrame) - 1) /\ Len(toFrame) \in Nat
  BY Dispatch DEF Basics, Request, User, flow
<1>2. g \in loggedIn /\ g \in Flows /\ m.op # "removeCookies"
  <2>1. CASE m.op = "setCookies"
    BY <2>1, Dispatch DEF Basics, TypeOK
  <2>2. CASE m.op # "setCookies"
    BY <1>1, <2>2, Dispatch DEF Basics, TypeOK
  <2>3. QED
    BY <2>1, <2>2
<1>3. LoginOf(g)
  BY <1>2 DEF LoginInv, LoginOf
<1>4. CASE pc[g] \notin {"antennaClosing", "getCookies", "refresh"}
  BY <1>1, <1>3, <1>4 DEF LoginOf, Person
<1>5. CASE pc[g] \in {"antennaClosing", "getCookies", "refresh"}
  (* What is stored first is a person, for g. *)
  <2>1. ASSUME m.op = "setCookies", user[g].kind # "facebook" \/ Person(m.user)
        PROVE  Person(cookies')
    <3>1. m.user.kind # "temporary" \/ Person(m.user)
      BY <2>1, Dispatch DEF Basics
    <3>2. HasToken(m.user)
      BY <1>1, <2>1 DEF Basics, UsersInv
    <3>3. Person(m.user)
      BY <1>1, <3>1, <3>2 DEF Person, HasToken, Kinds
    <3>4. cookies' = AsCookie(m.user) /\ AsCookie(m.user).kind = m.user.kind
      BY <1>1, <2>1, Dispatch, UserTypes DEF Basics
    <3>5. QED
      BY <3>3, <3>4 DEF Person
  <2>2. m.op # "setCookies" => cookies' = cookies
    BY <1>1, <1>2, Dispatch DEF Basics
  <2>3. ASSUME Bears(g) PROVE Bears(g)'
    <3> SUFFICES ASSUME NEW i \in DOMAIN toFrame',
                        toFrame'[i].op = "getCookies", toFrame'[i].flow = g
                 PROVE  IF i = 1 THEN Person(cookies')
                        ELSE toFrame'[i - 1].op = "setCookies" /\ Person(toFrame'[i - 1].user)
      BY DEF Bears, Person
    <3>1. toFrame[i + 1].op = "getCookies" /\ toFrame[i + 1].flow = g
      BY <1>1
    <3>2. i + 1 \in DOMAIN toFrame /\ i + 1 # 1 /\ (i + 1) - 1 = i /\ i \in Nat \ {0}
      BY <1>1
    <3>3. toFrame[i].op = "setCookies" /\ Person(toFrame[i].user)
      BY <2>3, <3>1, <3>2 DEF Bears
    <3>4. i # 1 => i - 1 \in DOMAIN toFrame' /\ toFrame'[i - 1] = toFrame[i]
      BY <1>1, <3>2
    <3>5. QED
      BY <2>1, <3>3, <3>4
  <2>4. IF user[g].kind = "facebook" THEN Bears(g)' ELSE Person(cookies')
    BY <1>3, <1>5, <2>1, <2>2, <2>3 DEF LoginOf
  <2>5. ASSUME NEW j \in DOMAIN toParent', toParent'[j].flow = g
        PROVE  Person(toParent'[j].user)
    <3>1. CASE m.op = "getCookies"
      <4> DEFINE a == CookieAnswer(m.flow)
      <4>1. /\ a \in Answer /\ a.flow = m.flow /\ a.user = cookies
            /\ toParent' = Append(toParent, a)
        BY <1>1, <3>1, Dispatch DEF CookieAnswer, Answer, Basics, TypeOK
      <4> HIDE DEF a
      <4>2. /\ Len(toParent) \in Nat /\ DOMAIN toParent = 1..Len(toParent)
            /\ DOMAIN toParent' = 1..(Len(toParent) + 1)
            /\ toParent'[Len(toParent) + 1] = a
            /\ \A k \in DOMAIN toParent : toParent'[k] = toParent[k]
        BY <4>1, Answered DEF Basics
      <4>3. CASE j \in DOMAIN toParent
        BY <1>3, <1>5, <2>5, <4>2, <4>3 DEF LoginOf
      <4>4. CASE j \notin DOMAIN toParent
        <5>1. toParent'[j] = a
          BY <4>2, <4>4
        <5>2. m.flow = g /\ toParent'[j].user = cookies
          BY <2>5, <4>1, <5>1
        <5>3. Person(cookies)
          BY <1>1, <1>3, <1>5, <3>1, <5>2 DEF LoginOf, Bears
        <5>4. QED
          BY <5>2, <5>3
      <4>5. QED
        BY <4>3, <4>4
    <3>2. CASE m.op # "getCookies"
      <4>1. toParent' = toParent
        BY <1>1, <1>2, <3>2, Dispatch DEF Basics
      <4>2. QED
        BY <1>3, <1>5, <2>5, <4>1 DEF LoginOf
    <3>3. QED
      BY <3>1, <3>2
  <2>6. QED
    BY <1>1, <1>3, <2>4, <2>5 DEF LoginOf, Person
<1>6. QED
  BY <1>4, <1>5

(* Facebook answers no flow that reads cookies after a login. *)
LEMMA FacebookLogins ==
    ASSUME Basics, LoginInv, FacebookExpires \/ \E f \in Flows : FacebookAnswers(f),
           NEW g \in loggedIn'
    PROVE  LoginOf(g)'
<1>1. CASE FacebookExpires
  <2>1. g \in loggedIn /\ UNCHANGED <<pc, user, cookies, toFrame, toParent>>
    BY <1>1 DEF FacebookExpires, history, channel, flow
  <2>2. LoginOf(g)
    BY <2>1 DEF LoginInv, LoginOf
  <2>3. QED
    BY <2>1, <2>2 DEF LoginOf, Bears, Person
<1>2. ASSUME NEW f \in Flows, FacebookAnswers(f) PROVE LoginOf(g)'
  <2>1. PICK s \in {"connected", "not_authorized", "unknown"} :
            /\ f \in working /\ toParent' = Append(toParent, StatusAnswer(f, s))
            /\ UNCHANGED <<cookies, toFrame, pc, user, loggedIn>>
    BY <1>2 DEF FacebookAnswers, StatusAnswer, flow, history
  <2>2. LoginOf(g) /\ pc[f] \in Dialogs
    BY <2>1 DEF LoginInv, LoginOf, Basics, ChannelInv
  <2> DEFINE a == StatusAnswer(f, s)
  <2>3. a \in Answer /\ a.flow = f
    BY UserTypes DEF StatusAnswer, Answer
  <2> HIDE DEF a
  <2>4. /\ Len(toParent) \in Nat /\ DOMAIN toParent = 1..Len(toParent)
        /\ DOMAIN toParent' = 1..(Len(toParent) + 1)
        /\ toParent'[Len(toParent) + 1] = a
        /\ \A j \in DOMAIN toParent : toParent'[j] = toParent[j]
    BY <2>1, <2>3, Answered DEF a, Basics
  <2>5. ASSUME pc[g] \in {"antennaClosing", "getCookies", "refresh"}, NEW j \in DOMAIN toParent',
               toParent'[j].flow = g
        PROVE  j \in DOMAIN toParent /\ toParent'[j] = toParent[j]
    BY <2>2, <2>3, <2>4, <2>5 DEF Dialogs
  <2>6. QED
    BY <2>1, <2>2, <2>5 DEF LoginOf, Bears, Person
<1>3. QED
  BY <1>1, <1>2

(* LoginInv is inductive, given the channel. *)
LEMMA NextLogins == Basics /\ LoginInv /\ [Next]_vars => LoginInv'
<1> SUFFICES ASSUME Basics, LoginInv, [Next]_vars PROVE LoginInv'
  OBVIOUS
<1>1. CASE Next
  <2>1. ASSUME NEW f \in Flows, FlowStep(f), NEW g \in loggedIn' PROVE LoginOf(g)'
    <3>1. CASE g # f
      BY <2>1, <3>1, OthersLogin
    <3>2. CASE g = f /\ g \in loggedIn
      BY <2>1, <3>2, EarlierLogin
    <3>3. CASE g = f /\ g \notin loggedIn
      BY <2>1, <3>3, NewLogin
    <3>4. QED
      BY <3>1, <3>2, <3>3
  <2>2. \A g \in loggedIn' : LoginOf(g)'
    BY <1>1, <2>1, StepKinds, FrameLogins, FacebookLogins
  <2>3. QED
    BY <2>2 DEF LoginInv, LoginOf
<1>2. CASE UNCHANGED vars
  BY <1>2 DEF vars, channel, flow, history, LoginInv, Bears, Person
<1>3. QED
  BY <1>1, <1>2

(* What an attempt posts after its own login it posts as a person, not as the *)
(* temporary user of before, and not as nobody: the cookies are stored ahead  *)
(* of the retry's request for them (user.js:69-83 and 142-144,                *)
(* login-page.js:33-39, 77-82).  Of a login on the Antenna site this is said  *)
(* until a temporary user is stored over its cookies, of any login until      *)
(* cookies are removed.                                                       *)
THEOREM LoginsTakeEffect == Spec => []LoginTakesEffect
<1>1. Init => LoginInv
  BY DEF Init, LoginInv
<1>2. Spec => []LoginInv
  BY <1>1, SessionBasics, NextLogins, PTL DEF Spec
<1>3. LoginInv => LoginTakesEffect
  BY DEF LoginInv, LoginTakesEffect, Person
<1>4. QED
  BY <1>2, <1>3, PTL

-----------------------------------------------------------------------------
(* Readers who have not logged in                                           *)

(* Nothing undoes a disturbance, and these are the steps that make none. *)
LEMMA QuietSteps ==
    ASSUME Basics, NEW f \in Flows, FlowStep(f), Undisturbed'
    PROVE  /\ Undisturbed
           /\ \/ FetchUser(f) \/ CookiesArrive(f) \/ ServerCreatesTempUser(f)
              \/ TempUserArrives(f) /\ resume[f] = "post"
              \/ ServerAnswersReaction(f) \/ ReactionAnswered(f) \/ ShowLoginPage(f)
<1>a. /\ pc \in [Flows -> Places] /\ logins \in [Flows -> 0..MaxLogins]
      /\ resume \in [Flows -> {"post", "retry"}] /\ PlaceInv
      /\ logins'[f] >= logins[f] /\ logins[f] \in Nat /\ logins'[f] \in Nat
      /\ \A g \in Flows \ {f} : pc'[g] = pc[g] /\ logins'[g] = logins[g]
  <2>1. /\ pc \in [Flows -> Places] /\ logins \in [Flows -> 0..MaxLogins]
        /\ resume \in [Flows -> {"post", "retry"}] /\ PlaceInv
        /\ logins' \in [Flows -> 0..MaxLogins]
        /\ logins'[f] >= logins[f] /\ \A g \in Flows \ {f} : logins'[g] = logins[g]
    BY FlowData DEF Basics, TypeOK, Data
  <2>2. \A g \in Flows \ {f} : pc'[g] = pc[g]
    BY FlowTurns, TurnChannel DEF Basics
  <2>3. QED
    BY <2>1, <2>2, FlowsAssumption
<1>b. logins[f] = 0 /\ pc'[f] \notin AfterTokenError
  BY <1>a DEF Undisturbed
<1>c. pc[f] \notin LoginPlaces /\ resume[f] = "post"
  BY <1>a, <1>b DEF PlaceInv
<1>1. ~ (\/ ReAuthorizeUser(f) \/ ReAuthorizeCookies(f) \/ ReAuthorizeStatus(f)
         \/ ReAuthorizeDialog(f) \/ ServerDeauthorizes(f) \/ DiscardUserInfo(f))
  BY <1>a, <1>b DEF ReAuthorizeUser, ReAuthorizeCookies, ReAuthorizeStatus,
     ReAuthorizeDialog, ServerDeauthorizes, DiscardUserInfo, SendAndWait, Goto, AfterTokenError
<1>2. ~ (RetryClicked(f) \/ FacebookClicked(f) \/ AntennaClicked(f))
  BY <1>a, <1>b DEF RetryClicked, FacebookClicked, AntennaClicked, Undisturbed
<1>3. ~ (\/ FacebookLoginAnswered(f) \/ ServerGrantsToken(f) \/ TokenArrives(f)
         \/ TokenRefused(f) \/ AntennaSiteLogsIn(f) \/ AntennaWindowCloses(f)
         \/ RefreshFromCookies(f))
  BY <1>c DEF FacebookLoginAnswered, ServerGrantsToken, TokenArrives, TokenRefused,
     AntennaSiteLogsIn, AntennaWindowCloses, RefreshFromCookies, Hears, LoginPlaces
<1>4. \/ FetchUser(f) \/ CookiesArrive(f) \/ ServerCreatesTempUser(f) \/ TempUserArrives(f)
      \/ ServerAnswersReaction(f) \/ ReactionAnswered(f) \/ ShowLoginPage(f)
  BY <1>1, <1>2, <1>3 DEF FlowStep, WidgetStep, ServerStep
<1>5. pc[f] \notin AfterTokenError
  BY <1>4 DEF FetchUser, CookiesArrive, ServerCreatesTempUser, TempUserArrives,
     ServerAnswersReaction, ReactionAnswered, ShowLoginPage, Hears, AfterTokenError
<1>6. Undisturbed
  BY <1>a, <1>b, <1>5 DEF Undisturbed
<1>7. QED
  BY <1>4, <1>6, <1>c

(* While nothing is disturbed, the frame reads and stores cookies, no more. *)
LEMMA QuietFrame ==
    ASSUME Basics, Undisturbed
    PROVE  /\ \A i \in DOMAIN toFrame : toFrame[i].op \in {"getCookies", "setCookies"}
           /\ working = {}
<1>1. \A f \in Flows : pc[f] \notin Dialogs /\ pc[f] # "stuck"
  <2>1. logins \in [Flows -> 0..MaxLogins] /\ PlaceInv
    BY DEF Basics, TypeOK
  <2>2. QED
    BY <2>1 DEF Undisturbed, PlaceInv, Dialogs, LoginPlaces, AfterTokenError
<1>2. toFrame \in Seq(Request) /\ working \subseteq Flows
  BY DEF Basics, TypeOK
<1>3. \A i \in DOMAIN toFrame :
          /\ toFrame[i].op \in {"getCookies", "setCookies", "removeCookies", "facebook"}
          /\ toFrame[i].flow \in Flows
  <2>1. \A i \in DOMAIN toFrame : toFrame[i] \in Request
    BY <1>2
  <2>2. QED
    BY <2>1 DEF Request
<1>4. QED
  BY <1>1, <1>2, <1>3 DEF Basics, ChannelInv, Asks, WaitsFor

(* A new visitor's first user, once there, stays. *)
LEMMA FlowNewcomer ==
    ASSUME Basics, NewcomerInv, NEW f \in Flows, FlowStep(f)
    PROVE  NewcomerInv'
<1> SUFFICES ASSUME newcomer', Undisturbed'
             PROVE  NewcomerInv'
  BY DEF NewcomerInv
<1>a. newcomer /\ Undisturbed
  BY QuietSteps, FlowData DEF Basics, Data
<1>b. /\ firstUser.kind \in {"nobody", "temporary"}
      /\ One(cachedUserInfo) /\ One(cookies)
      /\ \A i \in DOMAIN toFrame : One(toFrame[i].user)
      /\ \A j \in DOMAIN toParent : One(toParent[j].user)
      /\ \A g \in Flows : pc[g] = "posting" => One(user[g])
      /\ HasToken(firstUser) =>
             /\ HasToken(cachedUserInfo)
             /\ HasToken(cookies) \/ \E i \in DOMAIN toFrame : toFrame[i].op = "setCookies"
  BY <1>a DEF NewcomerInv
<1>c. PICK place, ms : Turn(f, place, ms) /\ Carries(f, ms)
  BY FlowTurns DEF Basics
<1>d. /\ pc' \in [Flows -> Places] /\ user' \in [Flows -> User] /\ user \in [Flows -> User]
      /\ pc \in [Flows -> Places]
      /\ \A g \in Flows \ {f} : pc'[g] = pc[g] /\ user'[g] = user[g]
      /\ \A j \in DOMAIN toParent' : \E k \in DOMAIN toParent : toParent'[j] = toParent[k]
      /\ \A i \in DOMAIN toFrame : i \in DOMAIN toFrame' /\ toFrame'[i] = toFrame[i]
      /\ \A i \in DOMAIN toFrame' :
             \/ i \in DOMAIN toFrame
             \/ \E k \in DOMAIN ms : toFrame'[i] = ms[k]
  <2>1. /\ pc' \in [Flows -> Places] /\ \A g \in Flows \ {f} : pc'[g] = pc[g]
        /\ \A i \in DOMAIN toFrame : i \in DOMAIN toFrame' /\ toFrame'[i] = toFrame[i]
        /\ \A i \in DOMAIN toFrame' :
               \/ i \in DOMAIN toFrame
               \/ \E k \in DOMAIN ms : toFrame'[i] = ms[k]
    BY <1>c, TurnChannel DEF Basics
  <2>2. \A j \in DOMAIN toParent' : \E k \in DOMAIN toParent : toParent'[j] = toParent[k]
    BY <1>c, TurnAnswers DEF Basics
  <2>3. /\ user' \in [Flows -> User] /\ user \in [Flows -> User] /\ pc \in [Flows -> Places]
        /\ \A g \in Flows \ {f} : user'[g] = user[g]
    BY FlowData DEF Basics, Data, TypeOK
  <2>4. QED
    BY <2>1, <2>2, <2>3
<1>e. ~HasToken(Nobody)
  BY DEF HasToken, Nobody
<1>1. CASE \/ FetchUser(f) \/ CookiesArrive(f) \/ ServerCreatesTempUser(f)
           \/ ServerAnswersReaction(f) \/ ReactionAnswered(f) \/ ShowLoginPage(f)
  <2>1. UNCHANGED <<cookies, firstUser, newcomer>>
    BY <1>1 DEF FetchUser, CookiesArrive, ServerCreatesTempUser, ServerAnswersReaction,
       ReactionAnswered, ShowLoginPage, history
  <2>2. \A u : One(u)' = One(u)
    BY <2>1 DEF One, SameUser
  <2>3. One(cachedUserInfo') /\ (HasToken(cachedUserInfo) => HasToken(cachedUserInfo'))
    <3>1. CASE CookiesArrive(f)
      <4>1. One(Head(toParent).user)
        <5>1. toParent \in Seq(Answer) /\ toParent # <<>>
          BY <3>1 DEF Basics, TypeOK, CookiesArrive, Hears
        <5>2. QED
          BY <1>b, <5>1, TakeFirst
      <4>2. QED
        BY <1>b, <3>1, <4>1 DEF CookiesArrive
    <3>2. CASE ~CookiesArrive(f)
      BY <1>b, <1>1, <3>2 DEF FetchUser, ServerCreatesTempUser, ServerAnswersReaction,
         ReactionAnswered, ShowLoginPage
    <3>3. QED
      BY <3>1, <3>2
  <2>4. pc'[f] = "posting" => One(user'[f])
    <3>1. CASE CookiesArrive(f)
      BY <1>d, <2>3, <3>1 DEF CookiesArrive, Goto
    <3>2. CASE ~CookiesArrive(f)
      BY <1>d, <1>1, <3>2 DEF FetchUser, ServerCreatesTempUser, ServerAnswersReaction,
         ReactionAnswered, ShowLoginPage, SendAndWait, Goto
    <3>3. QED
      BY <3>1, <3>2
  <2>5. \A i \in DOMAIN toFrame' :
            \/ i \in DOMAIN toFrame /\ toFrame'[i] = toFrame[i]
            \/ toFrame'[i].user = Nobody
    <3>1. CASE FetchUser(f)
      <4> DEFINE get == GetCookies(f)
      <4>1. get.user = Nobody
        BY Messages, UserTypes DEF Ops
      <4>2. Turn(f, "getCookies", <<get>>)
        BY <3>1, StepTurns DEF Basics
      <4> HIDE DEF get
      <4>3. \A k \in DOMAIN <<get>> : <<get>>[k] = get
        OBVIOUS
      <4>4. QED
        BY <4>1, <4>2, <4>3, TurnChannel DEF Basics
    <3>2. CASE ~FetchUser(f)
      BY <1>1, <3>2 DEF CookiesArrive, ServerCreatesTempUser, ServerAnswersReaction,
         ReactionAnswered, ShowLoginPage, channel
    <3>3. QED
      BY <3>1, <3>2
  <2>6. \A i \in DOMAIN toFrame' : One(toFrame'[i].user)
    BY <1>b, <1>d, <1>e, <2>5 DEF One
  <2>7. QED
    BY <1>b, <1>d, <2>1, <2>2, <2>3, <2>4, <2>6 DEF NewcomerInv
<1>2. CASE TempUserArrives(f) /\ resume[f] = "post"
  <2>1. /\ user[f].kind = "temporary" /\ user[f].temp = "true" /\ HasToken(user[f])
        /\ user[f] \in User
    BY <1>2, <1>d DEF TempUserArrives, Basics, PlaceInv, HasToken
  <2>2. /\ cookies' = cookies /\ pc'[f] = "posting" /\ user'[f] = cachedUserInfo'
        /\ cachedUserInfo' = IF KeepsCachedUser THEN cachedUserInfo ELSE user[f]
        /\ firstUser' = IF HasToken(firstUser) THEN firstUser ELSE user[f]
    BY <1>2, <1>d DEF TempUserArrives, SendAndWait, Goto
  <2>3. \A i \in DOMAIN toFrame' : \/ toFrame'[i] = toFrame[i] /\ i \in DOMAIN toFrame
                                   \/ toFrame'[i].user \in {user[f], Nobody}
    BY <1>c, <1>d DEF Carries
  <2>4. CASE KeepsCachedUser
    <3>1. firstUser' = firstUser /\ cachedUserInfo' = cachedUserInfo /\ HasToken(firstUser)
      BY <1>b, <2>2, <2>4 DEF KeepsCachedUser, One, SameUser, HasToken
    <3>2. \A u : One(u)' = One(u)
      BY <3>1 DEF One, SameUser
    <3>3. toFrame' = toFrame
      <4>1. SendAndWait(f, <<>>, "posting") /\ toFrame \in Seq(Request)
        BY <1>2, <2>4 DEF TempUserArrives, Basics, TypeOK
      <4>2. QED
        BY <4>1, ConcatEmptySeq DEF SendAndWait
    <3>4. QED
      BY <1>b, <1>d, <2>2, <3>1, <3>2, <3>3 DEF NewcomerInv
  <2>5. CASE ~KeepsCachedUser
    <3>1. ~HasToken(cachedUserInfo) /\ ~HasToken(firstUser)
      BY <1>b, <2>5 DEF KeepsCachedUser, One
    <3>2. firstUser' = user[f] /\ cachedUserInfo' = user[f]
      BY <2>2, <2>5, <3>1
    <3>3. \A u : One(u) => ~HasToken(u)
      BY <3>1 DEF One, SameUser, HasToken
    <3>4. \A u : (u = user[f] \/ One(u)) => (HasToken(u) => SameUser(u, firstUser') /\ Truthy(u.temp))
      BY <2>1, <3>2, <3>3 DEF Truthy, SameUser
    <3>5. \E i \in DOMAIN toFrame' : toFrame'[i].op = "setCookies"
      <4>1. Turn(f, "posting", <<StoredCookies(f, user[f])>>)
        BY <1>2, <2>5, StepTurns DEF Basics
      <4>2. StoredCookies(f, user[f]).op = "setCookies"
        BY <2>1, Messages DEF Ops
      <4> DEFINE s == StoredCookies(f, user[f])
      <4> HIDE DEF s
      <4>3. 1 \in DOMAIN <<s>> /\ <<s>>[1] = s
        OBVIOUS
      <4>4. QED
        BY <4>1, <4>2, <4>3, TurnChannel DEF Basics, s
    <3>6. /\ One(cachedUserInfo)' /\ One(cookies)'
          /\ \A g \in Flows : pc'[g] = "posting" => One(user[g])'
      BY <1>b, <1>d, <2>2, <3>2, <3>4 DEF One, SameUser
    <3>7. \A i \in DOMAIN toFrame' : One(toFrame[i].user)'
      BY <1>b, <1>d, <1>e, <2>3, <3>4 DEF One, SameUser
    <3>8. \A j \in DOMAIN toParent' : One(toParent[j].user)'
      BY <1>b, <1>d, <3>4 DEF One, SameUser
    <3>9. firstUser'.kind = "temporary" /\ HasToken(cachedUserInfo')
      BY <2>1, <3>2
    <3>10. QED
      BY <3>5, <3>6, <3>7, <3>8, <3>9 DEF NewcomerInv
  <2>6. QED
    BY <2>4, <2>5
<1>3. QED
  BY <1>1, <1>2, QuietSteps

(* The frame passes the first user on. *)
LEMMA FrameNewcomer ==
    ASSUME Basics, NewcomerInv, FrameDispatches
    PROVE  NewcomerInv'
<1> DEFINE m == toFrame[1]
<1> SUFFICES ASSUME newcomer', Undisturbed'
             PROVE  NewcomerInv'
  BY DEF NewcomerInv
<1>a. /\ 1 \in DOMAIN toFrame /\ m \in Request /\ m.flow \in Flows /\ m.user \in User
      /\ UNCHANGED <<cachedUserInfo, pc, user, logins, newcomer, firstUser>>
      /\ DOMAIN toFrame = 1..Len(toFrame) /\ Len(toFrame) \in Nat
      /\ DOMAIN toFrame' = 1..(Len(toFrame) - 1)
      /\ \A i \in DOMAIN toFrame' :
             /\ i \in Nat \ {0} /\ i + 1 \in DOMAIN toFrame
             /\ toFrame'[i] = toFrame[i + 1]
  BY Dispatch DEF Basics, Request, flow
<1>b. newcomer /\ Undisturbed
  BY <1>a DEF Undisturbed
<1>c. /\ firstUser.kind \in {"nobody", "temporary"}
      /\ One(cachedUserInfo) /\ One(cookies)
      /\ \A i \in DOMAIN toFrame : One(toFrame[i].user)
      /\ \A j \in DOMAIN toParent : One(toParent[j].user)
      /\ \A g \in Flows : pc[g] = "posting" => One(user[g])
      /\ HasToken(firstUser) =>
             /\ HasToken(cachedUserInfo)
             /\ HasToken(cookies) \/ \E i \in DOMAIN toFrame : toFrame[i].op = "setCookies"
  BY <1>b DEF NewcomerInv
<1>d. \A u : One(u)' <=> (HasToken(u) => SameUser(u, firstUser) /\ Truthy(u.temp))
  BY <1>a DEF One, SameUser
<1>e. m.op \in {"getCookies", "setCookies"}
  BY <1>a, <1>b, QuietFrame
<1>f. /\ One(cachedUserInfo)' /\ \A g \in Flows : pc'[g] = "posting" => One(user[g])'
      /\ \A i \in DOMAIN toFrame' : One(toFrame[i].user)'
  BY <1>a, <1>c DEF One, SameUser
<1>1. CASE m.op = "getCookies"
  <2> DEFINE a == CookieAnswer(m.flow)
  <2>1. /\ a \in Answer /\ a.user = cookies /\ toParent' = Append(toParent, a)
        /\ cookies' = cookies
    BY <1>1, <1>a, Dispatch DEF CookieAnswer, Answer, Basics, TypeOK
  <2> HIDE DEF a
  <2>2. /\ Len(toParent) \in Nat /\ DOMAIN toParent = 1..Len(toParent)
        /\ DOMAIN toParent' = 1..(Len(toParent) + 1)
        /\ toParent'[Len(toParent) + 1] = a
        /\ \A k \in DOMAIN toParent : toParent'[k] = toParent[k]
    BY <2>1, Answered DEF Basics
  <2>3. \A j \in DOMAIN toParent' : j \in DOMAIN toParent \/ j = Len(toParent) + 1
    BY <2>2
  <2>4. \A j \in DOMAIN toParent' : One(toParent'[j].user)
    BY <1>c, <2>1, <2>2, <2>3
  <2>5. One(cookies)' /\ \A j \in DOMAIN toParent' : One(toParent[j].user)'
    BY <1>a, <1>c, <2>1, <2>4 DEF One, SameUser
  <2>6. ASSUME NEW i \in DOMAIN toFrame, toFrame[i].op = "setCookies"
        PROVE  \E k \in DOMAIN toFrame' : toFrame'[k].op = "setCookies"
    <3>1. i # 1
      BY <1>1, <2>6
    <3> HIDE DEF m
    <3>2. i - 1 \in DOMAIN toFrame' /\ (i - 1) + 1 = i
      BY <1>a, <3>1
    <3>3. QED
      BY <1>a, <2>6, <3>2
  <2>7. QED
    BY <1>a, <1>c, <1>f, <2>1, <2>5, <2>6 DEF NewcomerInv
<1>2. CASE m.op = "setCookies"
  <2>1. cookies' = AsCookie(m.user) /\ toParent' = toParent
    BY <1>2, Dispatch DEF Basics
  <2>2. HasToken(m.user) /\ One(m.user)
    BY <1>2, <1>a, <1>c DEF Basics, UsersInv
  <2>3. HasToken(cookies') /\ One(cookies)'
    BY <1>a, <2>1, <2>2, UserTypes DEF One, SameUser
  <2>4. \A j \in DOMAIN toParent' : One(toParent[j].user)'
    BY <1>a, <1>c, <2>1 DEF One, SameUser
  <2>5. QED
    BY <1>a, <1>c, <1>f, <2>3, <2>4 DEF NewcomerInv
<1>3. QED
  BY <1>e, <1>1, <1>2

(* NewcomerInv is inductive, given the channel. *)
LEMMA NextNewcomer == Basics /\ NewcomerInv /\ [Next]_vars => NewcomerInv'
<1> SUFFICES ASSUME Basics, NewcomerInv, [Next]_vars PROVE NewcomerInv'
  OBVIOUS
<1>1. CASE FacebookExpires
  BY <1>1 DEF FacebookExpires, NewcomerInv, Undisturbed, One, SameUser, channel, flow, history
<1>2. ASSUME NEW f \in Flows, FacebookAnswers(f) PROVE NewcomerInv'
  <2>1. f \in working /\ UNCHANGED <<pc, logins>>
    BY <1>2 DEF FacebookAnswers, flow
  <2>2. ~Undisturbed'
    BY <2>1, QuietFrame DEF Undisturbed
  <2>3. QED
    BY <2>2 DEF NewcomerInv
<1>3. CASE UNCHANGED vars
  BY <1>3 DEF vars, channel, flow, history, NewcomerInv, Undisturbed, One, SameUser
<1>4. QED
  BY <1>1, <1>2, <1>3, StepKinds, FlowNewcomer, FrameNewcomer

(* Readers who have been here before get no other user. *)
LEMMA FlowReturning ==
    ASSUME Basics, ReturningInv, NEW f \in Flows, FlowStep(f)
    PROVE  ReturningInv'
<1> SUFFICES ASSUME ~newcomer', Undisturbed' PROVE ReturningInv'
  BY DEF ReturningInv
<1>a. ~newcomer /\ Undisturbed
  BY QuietSteps, FlowData DEF Basics, Data
<1>b. /\ HasToken(cookies) /\ cachedUserInfo \in {Nobody, cookies}
      /\ \A i \in DOMAIN toFrame : toFrame[i].op # "setCookies"
      /\ \A j \in DOMAIN toParent : toParent[j].status = "cookies" => toParent[j].user = cookies
      /\ \A g \in Flows : pc[g] \notin {"creating", "created"}
  BY <1>a DEF ReturningInv
<1>c. \/ FetchUser(f) \/ CookiesArrive(f)
      \/ ServerAnswersReaction(f) \/ ReactionAnswered(f) \/ ShowLoginPage(f)
  BY <1>b, QuietSteps DEF ServerCreatesTempUser, TempUserArrives
<1>d. cookies' = cookies
  BY <1>c DEF FetchUser, CookiesArrive, ServerAnswersReaction, ReactionAnswered, ShowLoginPage
<1>e. \E place, ms : Turn(f, place, ms)
  BY FlowTurns DEF Basics
<1>1. \A j \in DOMAIN toParent' : toParent'[j].status = "cookies" => toParent'[j].user = cookies
  BY <1>b, <1>e, TurnAnswers DEF Basics
<1>2. ASSUME CookiesArrive(f)
      PROVE  cachedUserInfo' = cookies /\ pc'[f] = "posting"
  <2>1. toParent \in Seq(Answer) /\ toParent # <<>> /\ pc \in [Flows -> Places]
    BY <1>2 DEF Basics, TypeOK, CookiesArrive, Hears
  <2>2. /\ 1 \in DOMAIN toParent /\ Head(toParent) = toParent[1]
        /\ toParent[1].flow = f /\ pc[f] = "getCookies"
    BY <1>2, <2>1, TakeFirst DEF CookiesArrive, Hears
  <2>3. toParent[1].status = "cookies"
    BY <2>2 DEF Basics, ChannelInv, Dialogs
  <2>4. Head(toParent).user = cookies
    BY <1>b, <2>2, <2>3
  <2>5. QED
    BY <1>2, <1>b, <2>1, <2>4 DEF CookiesArrive, Goto
<1>3. cachedUserInfo' \in {Nobody, cookies'}
  BY <1>2, <1>b, <1>c, <1>d DEF FetchUser, ServerAnswersReaction, ReactionAnswered,
     ShowLoginPage
<1>4. \A g \in Flows : pc'[g] \notin {"creating", "created"}
  <2>1. pc \in [Flows -> Places]
    BY DEF Basics, TypeOK
  <2>2. pc'[f] \in {"getCookies", "posting", "answered", "signInRequired", "tokenInvalid",
                    "done", "loginPage"}
    BY <1>2, <1>c, <2>1 DEF FetchUser, ServerAnswersReaction, ReactionAnswered, ShowLoginPage,
       SendAndWait, Goto
  <2>3. \A g \in Flows \ {f} : pc'[g] = pc[g]
    BY <1>e, TurnChannel DEF Basics
  <2>4. QED
    BY <1>b, <2>2, <2>3
<1>5. \A i \in DOMAIN toFrame' : toFrame'[i].op # "setCookies"
  <2>1. CASE FetchUser(f)
    <3> DEFINE get == GetCookies(f)
    <3>1. get.op = "getCookies"
      BY Messages, UserTypes DEF Ops
    <3>2. Turn(f, "getCookies", <<get>>)
      BY <2>1, StepTurns DEF Basics
    <3> HIDE DEF get
    <3>3. \A k \in DOMAIN <<get>> : <<get>>[k] = get
      OBVIOUS
    <3>4. QED
      BY <1>b, <3>1, <3>2, <3>3, TurnChannel DEF Basics
  <2>2. CASE ~FetchUser(f)
    BY <1>b, <1>c, <2>2 DEF CookiesArrive, ServerAnswersReaction, ReactionAnswered,
       ShowLoginPage, channel
  <2>3. QED
    BY <2>1, <2>2
<1>6. QED
  BY <1>b, <1>d, <1>1, <1>3, <1>4, <1>5 DEF ReturningInv

(* The frame answers them with the cookies they brought. *)
LEMMA FrameReturning ==
    ASSUME Basics, ReturningInv, FrameDispatches
    PROVE  ReturningInv'
<1> DEFINE m == toFrame[1]
<1> SUFFICES ASSUME ~newcomer', Undisturbed' PROVE ReturningInv'
  BY DEF ReturningInv
<1>a. /\ 1 \in DOMAIN toFrame /\ m \in Request /\ m.flow \in Flows
      /\ UNCHANGED <<cachedUserInfo, pc, user, logins, newcomer, firstUser>>
      /\ \A i \in DOMAIN toFrame' : i + 1 \in DOMAIN toFrame /\ toFrame'[i] = toFrame[i + 1]
  BY Dispatch DEF Basics, Request, flow
<1>b. ~newcomer /\ Undisturbed
  BY <1>a DEF Undisturbed
<1>c. /\ HasToken(cookies) /\ cachedUserInfo \in {Nobody, cookies}
      /\ \A i \in DOMAIN toFrame : toFrame[i].op # "setCookies"
      /\ \A j \in DOMAIN toParent : toParent[j].status = "cookies" => toParent[j].user = cookies
      /\ \A g \in Flows : pc[g] \notin {"creating", "created"}
  BY <1>b DEF ReturningInv
<1>d. m.op = "getCookies"
  BY <1>a, <1>b, <1>c, QuietFrame
<1> DEFINE a == CookieAnswer(m.flow)
<1>1. /\ a \in Answer /\ a.user = cookies /\ toParent' = Append(toParent, a)
      /\ cookies' = cookies
  BY <1>a, <1>d, Dispatch DEF CookieAnswer, Answer, Basics, TypeOK
<1> HIDE DEF a, m
<1>2. /\ Len(toParent) \in Nat /\ DOMAIN toParent = 1..Len(toParent)
      /\ DOMAIN toParent' = 1..(Len(toParent) + 1)
      /\ toParent'[Len(toParent) + 1] = a
      /\ \A k \in DOMAIN toParent : toParent'[k] = toParent[k]
  BY <1>1, Answered DEF Basics
<1>3. \A j \in DOMAIN toParent' : j \in DOMAIN toParent \/ j = Len(toParent) + 1
  BY <1>2
<1>4. \A j \in DOMAIN toParent' : toParent'[j].status = "cookies" => toParent'[j].user = cookies
  BY <1>c, <1>1, <1>2, <1>3
<1>5. QED
  BY <1>a, <1>c, <1>1, <1>4 DEF ReturningInv

(* ReturningInv is inductive, given the channel. *)
LEMMA NextReturning == Basics /\ ReturningInv /\ [Next]_vars => ReturningInv'
<1> SUFFICES ASSUME Basics, ReturningInv, [Next]_vars PROVE ReturningInv'
  OBVIOUS
<1>1. CASE FacebookExpires
  BY <1>1 DEF FacebookExpires, ReturningInv, Undisturbed, channel, flow, history
<1>2. ASSUME NEW f \in Flows, FacebookAnswers(f) PROVE ReturningInv'
  <2>1. f \in working /\ UNCHANGED <<pc, logins>>
    BY <1>2 DEF FacebookAnswers, flow
  <2>2. ~Undisturbed'
    BY <2>1, QuietFrame DEF Undisturbed
  <2>3. QED
    BY <2>2 DEF ReturningInv
<1>3. CASE UNCHANGED vars
  BY <1>3 DEF vars, channel, flow, history, ReturningInv, Undisturbed
<1>4. QED
  BY <1>1, <1>2, <1>3, StepKinds, FlowReturning, FrameReturning

(* Both kinds of readers start as they should. *)
LEMMA InitReaders == Init => NewcomerInv /\ ReturningInv
<1> SUFFICES ASSUME Init PROVE NewcomerInv /\ ReturningInv
  OBVIOUS
<1>1. /\ cachedUserInfo = Nobody /\ toFrame = <<>> /\ toParent = <<>> /\ firstUser = Nobody
      /\ \A f \in Flows : pc[f] = "idle"
  BY DEF Init
<1>2. ~HasToken(Nobody) /\ Nobody.kind = "nobody"
  BY DEF HasToken, Nobody
<1>3. IF newcomer THEN cookies = Nobody ELSE HasToken(cookies)
  <2>1. PICK kind \in FirstCookies :
          /\ cookies = CASE kind = "nobody" -> Nobody
                         [] kind = "temporary" -> AsCookie(TempUser(1))
                         [] kind = "facebook" -> AsCookie(FacebookUser(1))
                         [] kind = "antenna" -> AsCookie(AntennaUser)
          /\ newcomer = (kind = "nobody")
    BY DEF Init
  <2>2. kind \in {"nobody", "temporary", "facebook", "antenna"}
    BY KindsAssumption
  <2>3. /\ HasToken(AsCookie(TempUser(1))) /\ HasToken(AsCookie(FacebookUser(1)))
        /\ HasToken(AsCookie(AntennaUser))
    <3>1. TempUser(1) \in User /\ FacebookUser(1) \in User /\ AntennaUser \in User
      BY UserTypes, FlowsAssumption
    <3>2. QED
      BY <3>1, UserTypes DEF HasToken, TempUser, FacebookUser, AntennaUser
  <2>4. QED
    BY <2>1, <2>2, <2>3
<1>4. NewcomerInv
  BY <1>1, <1>2, <1>3 DEF NewcomerInv, One
<1>5. ReturningInv
  BY <1>1, <1>2, <1>3 DEF ReturningInv
<1>6. QED
  BY <1>4, <1>5

(* Both hold in every state. *)
LEMMA SessionReaders == Spec => [](NewcomerInv /\ ReturningInv)
<1>1. QED
  BY InitReaders, SessionBasics, NextNewcomer, NextReturning, PTL DEF Spec

(* However many temporary users parallel requests create, a new visitor's    *)
(* reactions are all posted as the first of them (user.js:42-55), until the  *)
(* reader leaves the login page or a token is refused.                       *)
THEOREM FirstTemporaryUserWins == Spec => []VisitorsPostAsOne
<1>1. NewcomerInv => VisitorsPostAsOne
  BY DEF NewcomerInv, VisitorsPostAsOne, FirstTempUserWins, One, HasToken
<1>2. QED
  BY <1>1, SessionReaders, PTL

(* And while nobody has left the login page or lost a token, whenever nothing *)
(* is under way, the widget's user is the one of the cookies.                 *)
THEOREM CacheAgreesWithCookies == Spec => []CacheMatchesCookies
<1>1. Basics /\ NewcomerInv /\ ReturningInv => CacheMatchesCookies
  <2> SUFFICES ASSUME Basics, NewcomerInv, ReturningInv, Undisturbed, toFrame = <<>>,
                      HasToken(cachedUserInfo)
               PROVE  SameUser(cachedUserInfo, cookies)
    BY DEF CacheMatchesCookies
  <2>1. CASE newcomer
    <3>1. One(cachedUserInfo) /\ One(cookies)
      BY <2>1 DEF NewcomerInv
    <3>2. SameUser(cachedUserInfo, firstUser) /\ HasToken(firstUser)
      BY <3>1 DEF One, SameUser, HasToken
    <3>3. HasToken(cookies)
      BY <2>1, <3>2 DEF NewcomerInv
    <3>4. QED
      BY <3>1, <3>2, <3>3 DEF One, SameUser
  <2>2. CASE ~newcomer
    BY <2>2 DEF ReturningInv, SameUser, HasToken, Nobody
  <2>3. QED
    BY <2>1, <2>2
<1>2. QED
  BY <1>1, SessionBasics, SessionReaders, PTL
=============================================================================
