------------------------------ MODULE Sessions ------------------------------
(***************************************************************************)
(* The session of one account: the refresh token whose hash its row keeps, *)
(* the cookies of the browsers and the tabs that share them.               *)
(*                                                                         *)
(* A refresh rotates the token and the CSRF cookie, and a token that is    *)
(* not the one stored ends the session.  A tab sends one refresh at a time *)
(* (refreshInFlight); tabs do not know of each other.  On the server a     *)
(* refresh reads the row and writes it later, holding nothing.             *)
(*                                                                         *)
(* An access token may run out at any moment, so any call may be denied.   *)
(***************************************************************************)
EXTENDS Integers, FiniteSets

CONSTANTS
  Browsers, Tabs,
  Slots,               \* calls a tab may have under way at once
  MaxMinted, MaxLost   \* bounds: tokens, answers that never arrive

ASSUME SessionsAssumption == MaxMinted \in Nat /\ MaxLost \in Nat

VARIABLES
  jarOf,       \* [Tabs -> Browsers]
  jar,         \* [Browsers -> the refresh and CSRF cookies], 0 for none
  tab,         \* [Tabs -> [signedIn, csrf]]: accessToken and the cached csrfToken
  call,        \* [Tabs -> [Slots -> Call]]
  row,         \* the user row: the token whose hash it keeps
  minted,
  ended,       \* history: logins up to this one were ended
  lost,
  acted,       \* history: tabs that did anything
  crossed,     \* history: a tab signed in or out beside another call of its own
  fetchedTwice,  \* history: a tab fetched a CSRF token beside another fetch of its own
  revived,     \* history: a refresh wrote over what came after it had read
  refused      \* history: why refreshes and logouts were refused

sessionVars ==
  <<jarOf, jar, tab, call, row, minted, ended, lost, acted, crossed, fetchedTwice, revived,
    refused>>

Tokens == 0 .. MaxMinted

(* login is history: the login a session goes back to. *)
UserRow == [token: Tokens, login: Tokens]
Jar == [refresh: Tokens, csrf: Tokens]
Tab == [signedIn: BOOLEAN, csrf: Tokens]

(* Steps of a call: its CSRF token is fetched, it is at the server, its     *)
(* answer's headers and then its body arrive.                              *)
Fetches == {"fetching", "fetched"}
AtServer == {"refresh", "granted", "mismatch", "changing", "left"}
Answers == {"answered", "arrived", "failed", "leaving"}
Steps == {"idle", "denied", "waiting", "opening"} \cup Fetches \cup AtServer \cup Answers
Call == [at: Steps, refresh: BOOLEAN, token: Tokens, login: Tokens]
NoCall == [at |-> "idle", refresh |-> FALSE, token |-> 0, login |-> 0]

SessionsTypeOK ==
  /\ jarOf \in [Tabs -> Browsers]
  /\ jar \in [Browsers -> Jar]
  /\ tab \in [Tabs -> Tab]
  /\ call \in [Tabs -> [Slots -> Call]]
  /\ row \in UserRow
  /\ minted \in Tokens /\ ended \in Tokens
  /\ lost \in Nat
  /\ acted \subseteq Tabs
  /\ crossed \in BOOLEAN /\ fetchedTwice \in BOOLEAN /\ revived \in BOOLEAN
  /\ refused \subseteq {"csrf", "reused"}

SignedOut == [signedIn |-> FALSE, csrf |-> 0]
NoCookies == [refresh |-> 0, csrf |-> 0]

SessionsInit ==
  /\ jarOf \in [Tabs -> Browsers]
  /\ jar = [b \in Browsers |-> NoCookies]
  /\ tab = [t \in Tabs |-> SignedOut]
  /\ call = [t \in Tabs |-> [k \in Slots |-> NoCall]]
  /\ row = [token |-> 0, login |-> 0]
  /\ minted = 0 /\ ended = 0 /\ lost = 0
  /\ acted = {} /\ refused = {}
  /\ crossed = FALSE /\ fetchedTwice = FALSE /\ revived = FALSE

history == <<ended, lost, acted, crossed, fetchedTwice, revived, refused>>

Calling(t, k, held) == call' = [call EXCEPT ![t][k] = held]

(* The call k is over, and with it those that waited for its refresh. *)
Over(t, k) ==
  call' = [call EXCEPT ![t] = [j \in Slots |->
            IF j = k \/ (call[t][k].refresh /\ @[j].at = "waiting") THEN NoCall ELSE @[j]]]

Begins(t, k) ==
  /\ call[t][k].at = "idle"
  /\ acted' = acted \cup {t}
  /\ crossed' = (crossed \/ \E j \in Slots : call[t][j].at # "idle")

(* requireCsrfToken(): the header beside the cookie. *)
CsrfMatches(t, header) == header # 0 /\ header = jar[jarOf[t]].csrf

-----------------------------------------------------------------------------
(* The client. *)

(* ensureCsrfToken(): a refresh or any POST that finds no token fetches     *)
(* one, whoever else is fetching ...                                        *)
FetchCsrf(t, k) ==
  /\ tab[t].csrf = 0 /\ call[t][k].at \in {"opening", "idle"}
  /\ Calling(t, k, [call[t][k] EXCEPT !.at = "fetching"])
  /\ acted' = acted \cup {t}
  /\ fetchedTwice' = (fetchedTwice \/ \E j \in Slots : call[t][j].at \in Fetches)
  /\ UNCHANGED <<jarOf, jar, tab, row, minted, ended, lost, crossed, revived, refused>>

(* ... each answer mints a token and sets the cookie to it ...              *)
MintCsrf(t, k) ==
  /\ call[t][k].at = "fetching" /\ minted < MaxMinted
  /\ minted' = minted + 1
  /\ jar' = [jar EXCEPT ![jarOf[t]].csrf = minted']
  /\ Calling(t, k, [call[t][k] EXCEPT !.at = "fetched", !.token = minted'])
  /\ UNCHANGED <<jarOf, tab, row, history>>

(* The cookies go with the request; the guard compares one with the header. *)
Send(t, k, header) ==
  IF CsrfMatches(t, header)
  THEN Calling(t, k, [call[t][k] EXCEPT !.at = "refresh", !.token = jar[jarOf[t]].refresh])
       /\ UNCHANGED refused
  ELSE Calling(t, k, [call[t][k] EXCEPT !.at = "failed"])
       /\ refused' = refused \cup {"csrf"}

(* ... and once its body is read, that token is cached and sent. *)
UseFetched(t, k) ==
  /\ call[t][k].at = "fetched"
  /\ tab' = [tab EXCEPT ![t].csrf = call[t][k].token]
  /\ IF call[t][k].refresh THEN Send(t, k, call[t][k].token)
     ELSE Calling(t, k, NoCall) /\ UNCHANGED refused
  /\ UNCHANGED <<jarOf, jar, row, minted, ended, lost, acted, crossed, fetchedTwice, revived>>

(* A call is answered 401: at first load, or because its token ran out. *)
Deny(t, k) ==
  /\ call[t][k].at = "idle"
  /\ \A j \in Slots : call[t][j].at \notin {"changing", "leaving", "left"}
  /\ Calling(t, k, [NoCall EXCEPT !.at = "denied"])
  /\ acted' = acted \cup {t}
  /\ UNCHANGED <<jarOf, jar, tab, row, minted, ended, lost, crossed, fetchedTwice, revived, refused>>

(* Mutant: every call that is denied refreshes for itself. *)
NobodyRefreshes(t) == TRUE

NoneRefreshing(t) == \A j \in Slots : ~call[t][j].refresh

(* refreshAccessToken(): one at a time, and the others wait for it. *)
Refresh(t, k) ==
  /\ call[t][k].at = "denied"
  /\ Calling(t, k, IF NoneRefreshing(t)
                   THEN [NoCall EXCEPT !.at = "opening", !.refresh = TRUE]
                   ELSE [NoCall EXCEPT !.at = "waiting"])
  /\ crossed' = (crossed \/ \E j \in Slots :
                  call[t][j].at \in {"answered", "arrived"} /\ ~call[t][j].refresh)
  /\ UNCHANGED <<jarOf, jar, tab, row, minted, ended, lost, acted, fetchedTwice, revived, refused>>

SendRefresh(t, k) ==
  /\ call[t][k].at = "opening" /\ tab[t].csrf # 0
  /\ Send(t, k, tab[t].csrf)
  /\ UNCHANGED <<jarOf, jar, tab, row, minted, ended, lost, acted, crossed, fetchedTwice, revived>>

(* A session arrives: its cookies with the headers ... *)
SetCookies(t, k) ==
  /\ call[t][k].at = "answered"
  /\ jar' = [jar EXCEPT ![jarOf[t]] = [refresh |-> call[t][k].token, csrf |-> call[t][k].token]]
  /\ Calling(t, k, [call[t][k] EXCEPT !.at = "arrived"])
  /\ UNCHANGED <<jarOf, tab, row, minted, history>>

(* ... the access token and the rotated CSRF token with the body. *)
AdoptSession(t, k) ==
  /\ call[t][k].at = "arrived"
  /\ tab' = [tab EXCEPT ![t] = [signedIn |-> TRUE, csrf |-> call[t][k].token]]
  /\ Over(t, k)
  /\ UNCHANGED <<jarOf, jar, row, minted, history>>

(* A refresh failed: tokens are dropped and the user is sent to /login. *)
LoseSession(t, k) ==
  /\ call[t][k].at = "failed"
  /\ tab' = [tab EXCEPT ![t] = SignedOut]
  /\ Over(t, k)
  /\ UNCHANGED <<jarOf, jar, row, minted, history>>

(* The answer to a refresh or to a fetch does not arrive, or only in part.  *)
LoseAnswer(t, k) ==
  /\ lost < MaxLost
  /\ \/ call[t][k].at \in Fetches
     \/ call[t][k].at \in {"answered", "arrived"} /\ call[t][k].refresh
  /\ lost' = lost + 1
  /\ Calling(t, k, IF call[t][k].refresh THEN [call[t][k] EXCEPT !.at = "failed"] ELSE NoCall)
  /\ UNCHANGED <<jarOf, jar, tab, row, minted, ended, acted, crossed, fetchedTwice, revived, refused>>

(* The page is loaded again: memory is gone, the cookies stay. *)
ReloadPage(t) ==
  /\ lost < MaxLost
  /\ \A k \in Slots : call[t][k].at \notin {"granted", "mismatch", "changing", "left"}
  /\ tab' = [tab EXCEPT ![t] = SignedOut]
  /\ call' = [call EXCEPT ![t] = [k \in Slots |-> NoCall]]
  /\ lost' = IF \E k \in Slots : call[t][k].at = "answered" THEN lost + 1 ELSE lost
  /\ UNCHANGED <<jarOf, jar, row, minted, ended, acted, crossed, fetchedTwice, revived, refused>>

-----------------------------------------------------------------------------
(* The server. *)

(* refresh(): the row is read ... *)
ReadUserRow(t, k) ==
  LET token == call[t][k].token
  IN  /\ call[t][k].at = "refresh"
      /\ Calling(t, k, [call[t][k] EXCEPT
           !.at = IF token = 0 \/ row.token = 0 THEN "failed"
                  ELSE IF token # row.token THEN "mismatch" ELSE "granted",
           !.login = row.login])
      /\ UNCHANGED <<jarOf, jar, tab, row, minted, history>>

(* ... a token it does not know ends the session, whoever's it is by now; *)
EndReused(t, k) ==
  /\ call[t][k].at = "mismatch"
  /\ row' = [row EXCEPT !.token = 0]
  /\ refused' = refused \cup {"reused"}
  /\ Calling(t, k, [call[t][k] EXCEPT !.at = "failed"])
  /\ UNCHANGED <<jarOf, jar, tab, minted, ended, lost, acted, crossed, fetchedTwice, revived>>

(* ... the right one is rotated. *)
Rotate(t, k) ==
  /\ call[t][k].at = "granted" /\ minted < MaxMinted
  /\ minted' = minted + 1
  /\ row' = [token |-> minted', login |-> call[t][k].login]
  /\ revived' = (revived \/ row.token # call[t][k].token)
  /\ Calling(t, k, [call[t][k] EXCEPT !.at = "answered", !.token = minted'])
  /\ UNCHANGED <<jarOf, jar, tab, ended, lost, acted, crossed, fetchedTwice, refused>>

IssueSession(t, k) ==
  /\ minted < MaxMinted
  /\ minted' = minted + 1
  /\ row' = [token |-> minted', login |-> minted']
  /\ Calling(t, k, [NoCall EXCEPT !.at = "answered", !.token = minted'])

Login(t, k) ==
  /\ Begins(t, k)
  /\ ~tab[t].signedIn /\ tab[t].csrf # 0
  /\ IssueSession(t, k)
  /\ UNCHANGED <<jarOf, jar, tab, ended, lost, fetchedTwice, revived, refused>>

(* Mutant: signing out is left to the cookies. *)
EndedByCookie == UNCHANGED row /\ ended' = minted

EndEverySession == row' = [row EXCEPT !.token = 0] /\ ended' = minted

(* logout(): guarded like a refresh. *)
Logout(t, k) ==
  /\ Begins(t, k)
  /\ tab[t].signedIn /\ tab[t].csrf # 0
  /\ IF CsrfMatches(t, tab[t].csrf)
     THEN /\ EndEverySession
          /\ Calling(t, k, [NoCall EXCEPT !.at = "left"])
          /\ UNCHANGED refused
     ELSE /\ refused' = refused \cup {"csrf"}
          /\ Calling(t, k, [NoCall EXCEPT !.at = "leaving"])
          /\ UNCHANGED <<row, ended>>
  /\ UNCHANGED <<jarOf, jar, tab, minted, lost, fetchedTwice, revived>>

ClearCookies(t, k) ==
  /\ call[t][k].at = "left"
  /\ jar' = [jar EXCEPT ![jarOf[t]] = NoCookies]
  /\ Calling(t, k, [call[t][k] EXCEPT !.at = "leaving"])
  /\ UNCHANGED <<jarOf, tab, row, minted, history>>

(* The tab forgets the session whether or not the server has. *)
LeaveApp(t, k) ==
  /\ call[t][k].at = "leaving"
  /\ tab' = [tab EXCEPT ![t] = SignedOut]
  /\ Over(t, k)
  /\ UNCHANGED <<jarOf, jar, row, minted, history>>

(* changePassword(): every session ends, then the caller gets a new one. *)
ChangePassword(t, k) ==
  /\ Begins(t, k)
  /\ tab[t].signedIn /\ tab[t].csrf # 0
  /\ EndEverySession
  /\ Calling(t, k, [NoCall EXCEPT !.at = "changing"])
  /\ UNCHANGED <<jarOf, jar, tab, minted, lost, fetchedTwice, revived, refused>>

SessionAfterChange(t, k) ==
  /\ call[t][k].at = "changing"
  /\ IssueSession(t, k)
  /\ UNCHANGED <<jarOf, jar, tab, history>>

(* resetPassword(), through the link that was mailed. *)
ResetPassword(b) ==
  /\ EndEverySession
  /\ jar' = [jar EXCEPT ![b].refresh = 0]
  /\ UNCHANGED <<jarOf, tab, call, minted, lost, acted, crossed, fetchedTwice, revived, refused>>

CallStep(t, k) ==
  \/ FetchCsrf(t, k) \/ MintCsrf(t, k) \/ UseFetched(t, k)
  \/ Deny(t, k) \/ Refresh(t, k) \/ SendRefresh(t, k)
  \/ SetCookies(t, k) \/ AdoptSession(t, k) \/ LoseSession(t, k) \/ LoseAnswer(t, k)
  \/ ReadUserRow(t, k) \/ EndReused(t, k) \/ Rotate(t, k)
  \/ Login(t, k) \/ Logout(t, k) \/ ClearCookies(t, k) \/ LeaveApp(t, k)
  \/ ChangePassword(t, k) \/ SessionAfterChange(t, k)

SessionsNext ==
  \/ \E t \in Tabs : ReloadPage(t) \/ \E k \in Slots : CallStep(t, k)
  \/ \E b \in Browsers : ResetPassword(b)

SessionsSpec == SessionsInit /\ [][SessionsNext]_sessionVars

-----------------------------------------------------------------------------
(* Properties. *)

(* A busy page does not sign its user out: while one tab is all there is   *)
(* of the account, no answer is lost and it does not sign in or out beside *)
(* other calls, no refresh is taken for a reuse, however many calls are    *)
(* denied at once.  Nor is any refused for its CSRF token, as long as no   *)
(* two calls of a tab without one fetch theirs at the same time, which     *)
(* ensureCsrfToken() does not prevent.                                     *)
AloneNeverRefused ==
  Cardinality(acted) <= 1 /\ lost = 0 /\ ~crossed =>
    /\ "reused" \notin refused
    /\ "csrf" \in refused => fetchedTwice

(* A session that was ended by a logout, a password change or a reset does *)
(* not come back, unless a refresh had read the row before and writes it   *)
(* after.                                                                  *)
EndedStaysEnded == row.token # 0 /\ ~revived => row.login > ended
=============================================================================
