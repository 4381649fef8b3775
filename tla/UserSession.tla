---------------------------- MODULE UserSession -----------------------------
(***************************************************************************)
(* Who the reader is.  utils/user.js keeps the user in three places: the    *)
(* widget's cachedUserInfo, the cookie jar of the XDM frame, and the        *)
(* application server, which hands out temporary users and the tokens of    *)
(* people who log in.  Reactions (utils/ajax-client.js) fetch the user, are *)
(* posted, may be refused, and are retried from the login page              *)
(* (login-page.js, handleReactionError of reactions-widget.js).             *)
(*                                                                          *)
(* A flow is one attempt to post a reaction, with its retries.  The channel *)
(* is the FIFO pair that XdmChannel describes, after the frame has loaded.  *)
(* JSONP requests have one place per flow: a flow waits for its response.   *)
(***************************************************************************)
EXTENDS Naturals, Sequences, FiniteSets

CONSTANTS
    Flows,          \* the attempts to react that may be under way at once
    MaxTemp,        \* bound: temporary users the server creates
    MaxAccess,      \* bound: access tokens Facebook issues
    MaxLogins,      \* bound: times a flow may leave the login page
    FirstCookies,   \* what the cookie jar may hold at first: kinds of users
    MayExpire,      \* whether Facebook may revoke an access token
    MayLogIn        \* whether the reader uses the buttons of the login page

ASSUME FlowsAssumption == MaxTemp \in Nat \ {0} /\ MaxAccess \in Nat \ {0} /\ MaxLogins \in Nat
ASSUME KindsAssumption ==
    /\ FirstCookies \subseteq {"nobody", "temporary", "facebook", "antenna"}
    /\ MayExpire \in BOOLEAN /\ MayLogIn \in BOOLEAN

\* A user as the code holds it.  id and version stand for user_id and
\* ant_token: the id of a temporary user is its rank, the token of a Facebook
\* user follows the access token that made it.  temp is the temp_user field: a
\* boolean when a response set it, and a string once it has been a cookie.
TempFlags == {"undefined", "false", "true", "'false'", "'true'"}
Kinds == {"nobody", "temporary", "facebook", "antenna"}
User == [kind : Kinds, id : 0..MaxTemp, version : 0..MaxAccess, temp : TempFlags]

Nobody == [kind |-> "nobody", id |-> 0, version |-> 0, temp |-> "undefined"]
TempUser(n) == [kind |-> "temporary", id |-> n, version |-> 0, temp |-> "true"]
FacebookUser(v) == [kind |-> "facebook", id |-> 0, version |-> v, temp |-> "false"]
AntennaUser == [kind |-> "antenna", id |-> 0, version |-> 0, temp |-> "false"]

\* Every non-empty string is true, the string "false" included.
Truthy(flag) == flag \notin {"undefined", "false"}
HasToken(user) == user.kind # "nobody"

\* storeUserCookies and getItem: a boolean comes back as a string.
AsCookie(user) ==
    [user EXCEPT !.temp = CASE @ = "true" -> "'true'"
                            [] @ = "false" -> "'false'"
                            [] OTHER -> @]

\* Two records of one user, whatever the form of the flag.
SameUser(u, v) == u.kind = v.kind /\ u.id = v.id

VARIABLES
    cachedUserInfo, \* user.js
    cookies,        \* the frame's cookie jar
    toFrame,        \* requests to the frame
    working,        \* flows whose request is with Facebook
    toParent,       \* answers of the frame
    pc,             \* where each flow is
    user,           \* the user of the flow's last request or response
    resume,         \* what follows the creation of a temporary user
    logins,         \* times the flow has left the login page
    tempUsers,      \* how many temporary users the server has created
    converted,      \* the temporary users turned into people and deleted
    access,         \* the access token Facebook now honours
    socialAuth,     \* the access token the server has stored, 0 if none
    newcomer,       \* whether the reader came without cookies
    firstUser,      \* history: the user that came back first, or Nobody
    loggedIn        \* history: flows whose reader logged in, and has not lost it
                    \* to a removal, or to a temporary user stored over the
                    \* cookies that the Antenna site wrote

channel == <<toFrame, working, toParent>>
server == <<tempUsers, converted, access, socialAuth>>
flow == <<pc, user, resume, logins>>
history == <<newcomer, firstUser, loggedIn>>
vars == <<cachedUserInfo, cookies, channel, flow, server, history>>

Places == {"idle", "getCookies", "creating", "created", "posting", "answered",
           "signInRequired", "tokenInvalid", "done", "loginPage", "fbDialog", "fbToken",
           "fbTokenGranted", "fbTokenRefused", "antennaWindow", "antennaClosing", "refresh",
           "reauthCookies", "reauthStatus", "reauthDialog", "deauthorizing",
           "deauthorized", "stuck"}

AfterTokenError == {"tokenInvalid", "reauthCookies", "reauthStatus", "reauthDialog",
                    "deauthorizing", "deauthorized", "stuck"}

Request == [op : {"getCookies", "setCookies", "removeCookies", "facebook"},
            flow : Flows, user : User]
Answer == [flow : Flows, user : User,
           status : {"cookies", "connected", "not_authorized", "unknown"}]

TypeOK ==
    /\ cachedUserInfo \in User
    /\ cookies \in User
    /\ toFrame \in Seq(Request)
    /\ working \subseteq Flows
    /\ toParent \in Seq(Answer)
    /\ pc \in [Flows -> Places]
    /\ user \in [Flows -> User]
    /\ resume \in [Flows -> {"post", "retry"}]
    /\ logins \in [Flows -> 0..MaxLogins]
    /\ tempUsers \in 0..MaxTemp
    /\ converted \subseteq 1..tempUsers
    /\ access \in 1..MaxAccess
    /\ socialAuth \in 0..access
    /\ newcomer \in BOOLEAN
    /\ firstUser \in User
    /\ loggedIn \subseteq Flows

\* A reader who has been here before brings the cookies of that visit; the
\* server then knows that user.
Init ==
    /\ cachedUserInfo = Nobody
    /\ \E kind \in FirstCookies :
          /\ cookies = CASE kind = "nobody" -> Nobody
                         [] kind = "temporary" -> AsCookie(TempUser(1))
                         [] kind = "facebook" -> AsCookie(FacebookUser(1))
                         [] kind = "antenna" -> AsCookie(AntennaUser)
          /\ newcomer = (kind = "nobody")
          /\ tempUsers = IF kind = "temporary" THEN 1 ELSE 0
          /\ socialAuth = IF kind = "facebook" THEN 1 ELSE 0
    /\ toFrame = <<>> /\ working = {} /\ toParent = <<>>
    /\ pc = [f \in Flows |-> "idle"]
    /\ user = [f \in Flows |-> Nobody]
    /\ resume = [f \in Flows |-> "post"]
    /\ logins = [f \in Flows |-> 0]
    /\ converted = {}
    /\ access = 1
    /\ firstUser = Nobody
    /\ loggedIn = {}

-----------------------------------------------------------------------------
(* Helpers                                                                  *)

Goto(f, place) == pc' = [pc EXCEPT ![f] = place]

Message(op, f, u) == [op |-> op, flow |-> f, user |-> u]

\* Send messages to the frame, then wait for the answer at the given place.
SendAndWait(f, messages, place) ==
    /\ toFrame' = toFrame \o messages
    /\ Goto(f, place)
    /\ UNCHANGED <<working>>

GetCookies(f) == Message("getCookies", f, Nobody)

\* Mutant: the cookies are stored before the cache is updated.
StoredCookiesStale(f, u) == Message("setCookies", f, cachedUserInfo)

\* updateUserFromResponse also stores the user in the cookies.
StoredCookies(f, u) == Message("setCookies", f, u)

\* The head of the frame's answers is for a flow at this place.
Hears(f, place) ==
    /\ toParent # <<>>
    /\ Head(toParent).flow = f
    /\ pc[f] = place
    /\ toParent' = Tail(toParent)

-----------------------------------------------------------------------------
(* fetchUser and createTempUser                                             *)

\* fetchUser, first from a click on a reaction.
FetchUser(f) ==
    /\ pc[f] = "idle"
    /\ SendAndWait(f, <<GetCookies(f)>>, "getCookies")
    /\ UNCHANGED <<cachedUserInfo, cookies, toParent, user, resume, logins, server, history>>

\* The callback of fetchUser's getUserCookies.
CookiesArrive(f) ==
    /\ Hears(f, "getCookies")
    /\ LET fromCookies == Head(toParent).user IN
       \/ /\ ~HasToken(fromCookies)
          /\ Goto(f, "creating")
          /\ resume' = [resume EXCEPT ![f] = "post"]
          /\ UNCHANGED <<cachedUserInfo, user>>
       \/ /\ HasToken(fromCookies)
          /\ cachedUserInfo' = fromCookies
          /\ user' = [user EXCEPT ![f] = fromCookies]
          /\ Goto(f, "posting")
          /\ UNCHANGED resume
    /\ UNCHANGED <<cookies, toFrame, working, logins, server, history>>

\* TempUserHandler.read
ServerCreatesTempUser(f) ==
    /\ pc[f] = "creating"
    /\ tempUsers < MaxTemp
    /\ tempUsers' = tempUsers + 1
    /\ user' = [user EXCEPT ![f] = TempUser(tempUsers')]
    /\ Goto(f, "created")
    /\ UNCHANGED <<cachedUserInfo, cookies, channel, resume, logins, converted, access,
                   socialAuth, history>>

\* Mutant: whichever comes back last wins.
KeepsNobody == FALSE

\* The condition of createTempUser: only a temporary user is kept.
KeepsCachedUser == HasToken(cachedUserInfo) /\ Truthy(cachedUserInfo.temp)

\* The success handler of createTempUser; its callback posts the reaction, or
\* retries after a login.
TempUserArrives(f) ==
    /\ pc[f] = "created"
    /\ LET stored == IF KeepsCachedUser THEN <<>> ELSE <<StoredCookies(f, user[f])>> IN
       /\ cachedUserInfo' = IF KeepsCachedUser THEN cachedUserInfo ELSE user[f]
       /\ firstUser' = IF HasToken(firstUser) THEN firstUser ELSE user[f]
       /\ \/ /\ resume[f] = "post"
             /\ user' = [user EXCEPT ![f] = cachedUserInfo']
             /\ SendAndWait(f, stored, "posting")
          \/ /\ resume[f] = "retry"
             /\ SendAndWait(f, stored \o <<GetCookies(f)>>, "getCookies")
             /\ UNCHANGED user
    /\ UNCHANGED <<cookies, toParent, resume, logins, server, newcomer, loggedIn>>

-----------------------------------------------------------------------------
(* Posting, and what the server may answer                                  *)

\* checkToken
TokenValid(u) ==
    CASE u.kind = "temporary" -> u.id \notin converted
      [] u.kind = "facebook"  -> u.version = socialAuth /\ u.version = access
      [] OTHER                -> TRUE

\* The server answers postNewReaction or postPlusOne: the reaction is made, or
\* refused for a reason of its own (a blocked tag, a limit), which ends the
\* attempt in the window just as well; or the group wants readers to sign in
\* before they write a reaction of their own; or the token is no good.
ServerAnswersReaction(f) ==
    /\ pc[f] = "posting"
    /\ \/ TokenValid(user[f]) /\ Goto(f, "answered")
       \/ TokenValid(user[f]) /\ user[f].kind = "temporary" /\ Goto(f, "signInRequired")
       \/ ~TokenValid(user[f]) /\ Goto(f, "tokenInvalid")
    /\ UNCHANGED <<cachedUserInfo, cookies, channel, user, resume, logins, server, history>>

ReactionAnswered(f) ==
    /\ pc[f] = "answered"
    /\ Goto(f, "done")
    /\ UNCHANGED <<cachedUserInfo, cookies, channel, user, resume, logins, server, history>>

\* Mutant: no page for this error.
ShowNothing(f) ==
    /\ pc[f] = "signInRequired"
    /\ Goto(f, "stuck")
    /\ UNCHANGED <<cachedUserInfo, cookies, channel, user, resume, logins, server, history>>

\* handleReactionError, "sign in required".
ShowLoginPage(f) ==
    /\ pc[f] = "signInRequired"
    /\ Goto(f, "loginPage")
    /\ UNCHANGED <<cachedUserInfo, cookies, channel, user, resume, logins, server, history>>

\* handleReactionError, a token error: reAuthorizeUser(fn), whose first
\* parameter is groupSettings and whose second, the callback, is missing.
ReAuthorizeUser(f) ==
    /\ pc[f] = "tokenInvalid"
    /\ SendAndWait(f, <<GetCookies(f)>>, "reauthCookies")
    /\ UNCHANGED <<cachedUserInfo, cookies, toParent, user, resume, logins, server, history>>

\* A user of another type than facebook notifies the missing callback.
ReAuthorizeCookies(f) ==
    /\ Hears(f, "reauthCookies")
    /\ cachedUserInfo' = Head(toParent).user
    /\ IF cachedUserInfo'.kind = "facebook"
       THEN SendAndWait(f, <<Message("facebook", f, Nobody)>>, "reauthStatus")
       ELSE Goto(f, "stuck") /\ UNCHANGED <<toFrame, working>>
    /\ UNCHANGED <<cookies, user, resume, logins, server, history>>

\* connected: groupSettings.groupId is no function, and throws.
\* not_authorized: deAuthorizeUser and, at once for a user read from cookies,
\* discardUserInfo, whose continuation sendMessage never sees.  The server has
\* nobody to deauthorize without an id, and nothing handles its refusal.
ReAuthorizeStatus(f) ==
    /\ Hears(f, "reauthStatus")
    /\ LET status == Head(toParent).status IN
       \/ /\ status = "connected"
          /\ Goto(f, "stuck")
          /\ UNCHANGED <<toFrame, working>>
       \/ /\ status = "not_authorized"
          /\ \/ /\ Truthy(cachedUserInfo.temp)
                /\ SendAndWait(f, <<Message("removeCookies", f, Nobody)>>, "stuck")
             \/ /\ ~Truthy(cachedUserInfo.temp)
                /\ Goto(f, IF HasToken(cachedUserInfo) THEN "deauthorizing" ELSE "stuck")
                /\ UNCHANGED <<toFrame, working>>
       \/ /\ status = "unknown"
          /\ SendAndWait(f, <<Message("facebook", f, Nobody)>>, "reauthDialog")
    /\ UNCHANGED <<cachedUserInfo, cookies, user, resume, logins, server, history>>

\* facebookLogin of a reauthorization: throws, or notifies nobody.
ReAuthorizeDialog(f) ==
    /\ Hears(f, "reauthDialog")
    /\ Goto(f, "stuck")
    /\ UNCHANGED <<cachedUserInfo, cookies, toFrame, working, user, resume, logins,
                   server, history>>

\* Deauthorize.read
ServerDeauthorizes(f) ==
    /\ pc[f] = "deauthorizing"
    /\ socialAuth' = 0
    /\ Goto(f, "deauthorized")
    /\ UNCHANGED <<cachedUserInfo, cookies, channel, user, resume, logins, tempUsers,
                   converted, access, history>>

DiscardUserInfo(f) ==
    /\ pc[f] = "deauthorized"
    /\ SendAndWait(f, <<Message("removeCookies", f, Nobody)>>, "stuck")
    /\ UNCHANGED <<cachedUserInfo, cookies, toParent, user, resume, logins, server, history>>

-----------------------------------------------------------------------------
(* The login page                                                           *)

\* login-page.js, doRetry by the button or by the end of a login: the reaction
\* is posted once more, beginning with fetchUser.
RetryClicked(f) ==
    /\ pc[f] = "loginPage"
    /\ logins[f] < MaxLogins
    /\ logins' = [logins EXCEPT ![f] = @ + 1]
    /\ SendAndWait(f, <<GetCookies(f)>>, "getCookies")
    /\ UNCHANGED <<cachedUserInfo, cookies, toParent, user, resume, server, history>>

FacebookClicked(f) ==
    /\ pc[f] = "loginPage"
    /\ MayLogIn
    /\ logins[f] < MaxLogins
    /\ logins' = [logins EXCEPT ![f] = @ + 1]
    /\ SendAndWait(f, <<Message("facebook", f, Nobody)>>, "fbDialog")
    /\ UNCHANGED <<cachedUserInfo, cookies, toParent, user, resume, server, history>>

\* The callback of facebookLogin: without an authResponse, retry.
FacebookLoginAnswered(f) ==
    /\ Hears(f, "fbDialog")
    /\ IF Head(toParent).status = "connected"
       THEN /\ user' = [user EXCEPT ![f] = cachedUserInfo]
            /\ Goto(f, "fbToken")
            /\ UNCHANGED <<toFrame, working>>
       ELSE /\ SendAndWait(f, <<GetCookies(f)>>, "getCookies")
            /\ UNCHANGED user
    /\ UNCHANGED <<cachedUserInfo, cookies, resume, logins, server, history>>

\* Mutant: the server believes the token it stores to be newer than it is.
ServerGrantsNextToken(f) ==
    /\ pc[f] = "fbToken"
    /\ socialAuth' = access + 1
    /\ user' = [user EXCEPT ![f] = FacebookUser(access)]
    /\ Goto(f, "fbTokenGranted")
    /\ UNCHANGED <<cachedUserInfo, cookies, channel, resume, logins, tempUsers, converted,
                   access, history>>

\* FBHandler.read for the user the widget sent: the server stores the access
\* token and moves the reactions of a temporary user to the person, deleting
\* the temporary user; a user that is gone already makes it fail half way, and
\* a profile that Facebook does not hand out, before anything is stored.
ServerGrantsToken(f) ==
    /\ pc[f] = "fbToken"
    /\ \/ /\ user[f].kind = "temporary" /\ user[f].id \notin converted
          /\ socialAuth' = access
          /\ converted' = converted \cup {user[f].id}
          /\ user' = [user EXCEPT ![f] = FacebookUser(access)]
          /\ Goto(f, "fbTokenGranted")
       \/ /\ user[f].kind # "temporary"
          /\ socialAuth' = access
          /\ user' = [user EXCEPT ![f] = FacebookUser(access)]
          /\ Goto(f, "fbTokenGranted")
          /\ UNCHANGED converted
       \/ /\ user[f].kind = "temporary" /\ user[f].id \in converted
          /\ socialAuth' = access
          /\ Goto(f, "fbTokenRefused")
          /\ UNCHANGED <<converted, user>>
       \/ /\ Goto(f, "fbTokenRefused")
          /\ UNCHANGED <<socialAuth, converted, user>>
    /\ UNCHANGED <<cachedUserInfo, cookies, channel, resume, logins, tempUsers, access, history>>

\* Mutant: the retry asks for the cookies before they are stored.
TokenArrivesLate(f) ==
    /\ pc[f] = "fbTokenGranted"
    /\ cachedUserInfo' = user[f]
    /\ SendAndWait(f, <<GetCookies(f), StoredCookies(f, user[f])>>, "getCookies")
    /\ firstUser' = IF HasToken(firstUser) THEN firstUser ELSE user[f]
    /\ loggedIn' = loggedIn \cup {f}
    /\ UNCHANGED <<cookies, toParent, user, resume, logins, server, newcomer>>

\* The success handler of getAntTokenForFacebookLogin, then the retry.
TokenArrives(f) ==
    /\ pc[f] = "fbTokenGranted"
    /\ cachedUserInfo' = user[f]
    /\ SendAndWait(f, <<StoredCookies(f, user[f]), GetCookies(f)>>, "getCookies")
    /\ firstUser' = IF HasToken(firstUser) THEN firstUser ELSE user[f]
    /\ loggedIn' = loggedIn \cup {f}
    /\ UNCHANGED <<cookies, toParent, user, resume, logins, server, newcomer>>

\* Its error handler asks for a temporary user instead.
TokenRefused(f) ==
    /\ pc[f] = "fbTokenRefused"
    /\ Goto(f, "creating")
    /\ resume' = [resume EXCEPT ![f] = "retry"]
    /\ UNCHANGED <<cachedUserInfo, cookies, channel, user, logins, server, history>>

AntennaClicked(f) ==
    /\ pc[f] = "loginPage"
    /\ MayLogIn
    /\ logins[f] < MaxLogins
    /\ logins' = [logins EXCEPT ![f] = @ + 1]
    /\ Goto(f, "antennaWindow")
    /\ UNCHANGED <<cachedUserInfo, cookies, channel, user, resume, server, history>>

\* The reader logs in on the Antenna site, in its window, which writes the same
\* cookie jar.  The site hands the temporary user of the cookies to ANTHandler,
\* which converts it.
AntennaSiteLogsIn(f) ==
    /\ pc[f] = "antennaWindow"
    /\ cookies' = AsCookie(AntennaUser)
    /\ loggedIn' = loggedIn \cup {f}
    /\ converted' = converted \cup (IF cookies.kind = "temporary" THEN {cookies.id} ELSE {})
    /\ Goto(f, "antennaClosing")
    /\ UNCHANGED <<cachedUserInfo, channel, user, resume, logins, tempUsers, access,
                   socialAuth, newcomer, firstUser>>

\* The window is closed, after a login or without one; the widget, which polls
\* for that, reads the cookies again.
AntennaWindowCloses(f) ==
    /\ pc[f] \in {"antennaWindow", "antennaClosing"}
    /\ SendAndWait(f, <<GetCookies(f)>>, "refresh")
    /\ UNCHANGED <<cachedUserInfo, cookies, toParent, user, resume, logins, server, history>>

\* refreshUserFromCookies, then the retry.
RefreshFromCookies(f) ==
    /\ Hears(f, "refresh")
    /\ cachedUserInfo' = Head(toParent).user
    /\ SendAndWait(f, <<GetCookies(f)>>, "getCookies")
    /\ UNCHANGED <<cookies, user, resume, logins, server, history>>

-----------------------------------------------------------------------------
(* The frame and Facebook                                                   *)

FrameDispatches ==
    /\ toFrame # <<>>
    /\ toFrame' = Tail(toFrame)
    /\ LET m == Head(toFrame) IN
       \/ /\ m.op = "getCookies"
          /\ toParent' = Append(toParent, [flow |-> m.flow, user |-> cookies,
                                           status |-> "cookies"])
          /\ UNCHANGED <<cookies, working, loggedIn>>
       \/ /\ m.op = "setCookies"
          /\ cookies' = AsCookie(m.user)
          /\ loggedIn' = IF m.user.kind = "temporary"
                         THEN {f \in loggedIn : user[f].kind = "facebook"} ELSE loggedIn
          /\ UNCHANGED <<toParent, working>>
       \/ /\ m.op = "removeCookies"
          /\ cookies' = Nobody
          /\ loggedIn' = {}
          /\ UNCHANGED <<toParent, working>>
       \/ /\ m.op = "facebook"
          /\ working' = working \cup {m.flow}
          /\ UNCHANGED <<cookies, toParent, loggedIn>>
    /\ UNCHANGED <<cachedUserInfo, flow, server, newcomer, firstUser>>

FacebookAnswers(f) ==
    /\ f \in working
    /\ working' = working \ {f}
    /\ \E status \in {"connected", "not_authorized", "unknown"} :
          toParent' = Append(toParent, [flow |-> f, user |-> Nobody, status |-> status])
    /\ UNCHANGED <<cachedUserInfo, cookies, toFrame, flow, server, history>>

\* The access token of the reader expires or is revoked.
FacebookExpires ==
    /\ MayExpire
    /\ access < MaxAccess
    /\ access' = access + 1
    /\ UNCHANGED <<cachedUserInfo, cookies, channel, flow, tempUsers, converted,
                   socialAuth, history>>

-----------------------------------------------------------------------------
\* What the code does unasked, and what the reader does.
WidgetStep(f) ==
    \/ CookiesArrive(f) \/ TempUserArrives(f) \/ ReactionAnswered(f) \/ ShowLoginPage(f)
    \/ ReAuthorizeUser(f) \/ ReAuthorizeCookies(f) \/ ReAuthorizeStatus(f)
    \/ ReAuthorizeDialog(f) \/ DiscardUserInfo(f)
    \/ FacebookLoginAnswered(f) \/ TokenArrives(f) \/ TokenRefused(f)
    \/ RefreshFromCookies(f)

ServerStep(f) ==
    \/ ServerCreatesTempUser(f) \/ ServerAnswersReaction(f)
    \/ ServerDeauthorizes(f) \/ ServerGrantsToken(f)

ReaderStep(f) ==
    \/ FetchUser(f) \/ RetryClicked(f) \/ FacebookClicked(f)
    \/ AntennaClicked(f) \/ AntennaSiteLogsIn(f) \/ AntennaWindowCloses(f)
    \/ FacebookAnswers(f)

Next ==
    \/ \E f \in Flows : WidgetStep(f) \/ ServerStep(f) \/ ReaderStep(f)
    \/ FrameDispatches
    \/ FacebookExpires

Spec == Init /\ [][Next]_vars

\* The browser delivers what was posted, the server answers, and Facebook's
\* SDK calls back; the reader may stop at any point.
FairSpec ==
    /\ Spec
    /\ WF_vars(FrameDispatches)
    /\ \A f \in Flows : /\ WF_vars(WidgetStep(f)) /\ WF_vars(ServerStep(f))
                        /\ WF_vars(FacebookAnswers(f))

-----------------------------------------------------------------------------
(* Properties                                                               *)

\* Of the temporary users that parallel requests create, the one that comes
\* back first is the one reactions are posted as (user.js:48-53, "Whichever one
\* comes back first wins").
FirstTempUserWins ==
    \A f \in Flows :
        pc[f] = "posting" /\ user[f].kind = "temporary" => SameUser(user[f], firstUser)

\* Nobody has left the login page, or lost a token, so far.
Undisturbed == \A f \in Flows : logins[f] = 0 /\ pc[f] \notin AfterTokenError

\* Until then it is so, for a new visitor: all who post post as the one.
VisitorsPostAsOne ==
    newcomer /\ Undisturbed => FirstTempUserWins

\* And when the channel is quiet, the widget and the cookie jar mean one user.
CacheMatchesCookies ==
    Undisturbed /\ toFrame = <<>> /\ toParent = <<>> /\ HasToken(cachedUserInfo)
        => SameUser(cachedUserInfo, cookies)

\* A login takes effect: the retry that follows posts as the person, because the
\* cookies are stored ahead of the retry's own request for them (user.js:142-144
\* and 69-83; login-page.js:33-39 and 77-82).  No temporary user that other flows
\* are given meanwhile gets in between, except after a login on the Antenna site.
LoginTakesEffect ==
    \A f \in loggedIn : pc[f] = "posting" => user[f].kind \notin {"nobody", "temporary"}

\* Every attempt to react ends, or waits for the reader on the login page, or
\* learns that its token is no good (user.js:8-55, reactions-widget.js:236-252).
FlowSettles ==
    \A f \in Flows : (pc[f] = "getCookies") ~> (pc[f] \in {"done", "loginPage", "tokenInvalid"})

\* After a token error the widget asks for a new token, or for a login
\* (user.js:90, "Attempts to create a new authorization token for the
\* logged-in user"; reactions-widget.js:242-248).
TokenErrorAnswered ==
    \A f \in Flows : (pc[f] = "tokenInvalid") ~>
        (pc[f] \in {"fbToken", "creating", "getCookies", "loginPage"})
=============================================================================
