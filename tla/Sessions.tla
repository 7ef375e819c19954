------------------------------ MODULE Sessions ------------------------------
(***************************************************************************)
(* The sessions of the account of module Accounts: AuthService's rotation  *)
(* of refresh tokens, the Next route handlers that keep the token in an    *)
(* httpOnly cookie, and the tabs of one browser, which share that cookie   *)
(* and hold an access token each.                                          *)
(*                                                                         *)
(* A call of a tab runs through its route to the backend and back; the     *)
(* cookie changes when the answer arrives.  login and refresh set the      *)
(* cookie for the domain .ticketall.eu, register sets one for the host;    *)
(* only the former is ever cleared.                                        *)
(***************************************************************************)
EXTENDS Accounts

CONSTANTS
  Tabs,       \* tabs of the browser
  MaxTokens   \* bound: refresh tokens ever issued

ASSUME SessionsAssumption == MaxTokens \in Nat

VARIABLES
  tokens,     \* RefreshToken rows, live or not, with their session (its first
              \* token), the value of resets when it began, and whether a
              \* pair of it was just being made when a reset committed
  resets,     \* committed resetPassword transactions
  jar,        \* the two cookies named refresh_token: their token or 0
  access,     \* tabs with an access token in their memory
  request,    \* the refresh, login or register call of each tab
  leaving     \* tabs whose logout call is under way

sessionVars == <<tokens, resets, jar, access, request, leaving>>
vars == <<accountVars, sessionVars>>

NoRequest == [kind |-> "none"]
Cookie == IF jar.domain # 0 THEN jar.domain ELSE jar.host
Live(n) == tokens[n].live
At(b, place) == request[b].kind # "none" /\ request[b].at = place
Pending == {b \in Tabs : At(b, "find") \/ At(b, "claim") \/ At(b, "issue")}
Room == Len(tokens) + Cardinality(Pending) < MaxTokens

Init ==
  /\ AccountsInit
  /\ tokens = <<>>
  /\ resets = 0
  /\ jar = [host |-> 0, domain |-> 0]
  /\ access = {}
  /\ request = [b \in Tabs |-> NoRequest]
  /\ leaving = {}

Advance(b, r) ==
  /\ request' = [request EXCEPT ![b] = r]
  /\ UNCHANGED <<accountVars, tokens, resets, jar, access, leaving>>

(***************************************************************************)
(* getValidToken: without a fresh access token a tab asks for one, once at *)
(* a time (_refreshPromise).  Without a cookie the route answers 401 by    *)
(* itself, which changes nothing.  apiFetch does the same, once, when the  *)
(* API answers 401.                                                        *)
(***************************************************************************)
GetValidToken(b) ==
  /\ b \notin access
  /\ request[b] = NoRequest
  /\ Cookie # 0
  /\ Live(Cookie) => Room
  /\ Advance(b, [kind |-> "refresh", at |-> "find", token |-> Cookie])

\* AuthService.refresh reads the row of the token ...
FindToken(b) ==
  /\ At(b, "find")
  /\ Advance(b, [request[b] EXCEPT !.at =
                   IF Live(request[b].token) THEN "claim" ELSE "denied"])

Revoke(b, next) ==
  /\ At(b, "claim")
  /\ tokens' = [tokens EXCEPT ![request[b].token].live = FALSE]
  /\ request' = [request EXCEPT ![b] = next]
  /\ UNCHANGED <<accountVars, resets, jar, access, leaving>>

Successor(b) == [kind |-> "refresh", at |-> "issue",
                 pair |-> [tokens[request[b].token] EXCEPT !.live = TRUE]]

\* (mutant: the token is revoked by id alone)
RevokeById(b) == Revoke(b, Successor(b))

\* ... and claims the rotation, unless another refresh has meanwhile.
ClaimRotation(b) ==
  Revoke(b, IF Live(request[b].token) THEN Successor(b)
            ELSE [request[b] EXCEPT !.at = "denied"])

\* issueTokenPair; the user is read once more, and must exist.
IssueTokenPair(b) ==
  /\ At(b, "issue")
  /\ Exists
  /\ tokens' = Append(tokens,
                IF request[b].kind = "refresh" THEN request[b].pair
                ELSE [request[b].pair EXCEPT !.session = Len(tokens) + 1])
  /\ request' = [request EXCEPT ![b] =
                   [kind |-> @.kind, at |-> "granted",
                    token |-> Len(tokens) + 1]]
  /\ UNCHANGED <<accountVars, resets, jar, access, leaving>>

\* A failure or a restart of the backend; a claim stays.
Unavailable(b) ==
  /\ b \in Pending
  /\ Advance(b, [kind |-> request[b].kind, at |-> "unavailable"])

(***************************************************************************)
(* login and the two registrations start a session.                        *)
(***************************************************************************)
NewSession(b, kind) ==
  /\ request[b] = NoRequest
  /\ Room
  /\ request' = [request EXCEPT ![b] =
                   [kind |-> kind, at |-> "issue",
                    pair |-> [session |-> 0, live |-> TRUE, born |-> resets,
                              spared |-> FALSE]]]
  /\ UNCHANGED <<tokens, resets, jar, access, leaving>>

\* The account is read, active, and the password compared.
Login(b) ==
  /\ Exists
  /\ account.active /\ account.password
  /\ NewSession(b, "login")
  /\ UNCHANGED accountVars

\* registerOrganizer (user, organizer, accepted terms) and registerCustomer:
\* the transaction, after the check for an existing e-mail (a race for it the
\* unique index decides).
NewOrganizer == Row("ORGANIZER_OWNER", TRUE)
NewCustomer == Row("CUSTOMER", TRUE)

Register(b) ==
  /\ ~Exists /\ ~deleted
  /\ account' \in {r \in {NewOrganizer, NewCustomer} : r.role \in NewRoles}
  /\ NewSession(b, "register")
  /\ UNCHANGED <<deleted, links, call, form, forgot>>

(***************************************************************************)
(* The answers arrive.                                                     *)
(***************************************************************************)
Done(b) ==
  /\ request' = [request EXCEPT ![b] = NoRequest]
  /\ UNCHANGED <<accountVars, tokens, resets, leaving>>

Granted(b) ==
  /\ At(b, "granted")
  /\ jar' = IF request[b].kind = "register"
            THEN [jar EXCEPT !.host = request[b].token]
            ELSE [jar EXCEPT !.domain = request[b].token]
  /\ access' = access \cup {b}
  /\ Done(b)

\* 401: the route clears the cookie the browser has by now.
Denied(b) ==
  /\ At(b, "denied")
  /\ jar' = [jar EXCEPT !.domain = 0]
  /\ UNCHANGED access
  /\ Done(b)

\* 503 of the refresh route, an error message of the forms; or an answer the
\* browser does not take (the tab was reloaded).
NoAnswer(b) ==
  /\ At(b, "unavailable") \/ At(b, "granted")
  /\ UNCHANGED <<jar, access>>
  /\ Done(b)

(***************************************************************************)
(* Signing out drops the tab's token and, when the route has answered, the *)
(* domain's cookie; the backend is not told.                               *)
(***************************************************************************)
Logout(b) ==
  /\ b \in access \ leaving
  /\ access' = access \ {b}
  /\ leaving' = leaving \cup {b}
  /\ UNCHANGED <<accountVars, tokens, resets, jar, request>>

LogoutAnswered(b) ==
  /\ b \in leaving
  /\ jar' = [jar EXCEPT !.domain = 0]
  /\ leaving' = leaving \ {b}
  /\ UNCHANGED <<accountVars, tokens, resets, access, request>>

\* Less than a minute of the access token's 15 is left, or the page is
\* loaded anew.
Expire(b) ==
  /\ b \in access
  /\ access' = access \ {b}
  /\ UNCHANGED <<accountVars, tokens, resets, jar, request, leaving>>

(***************************************************************************)
(* Changes of the account that end sessions.                               *)
(***************************************************************************)
RevokeAll ==
  tokens' = [n \in DOMAIN tokens |-> [tokens[n] EXCEPT !.live = FALSE]]

Reset(f) ==
  /\ ResetPassword(f)
  /\ resets' = resets + 1
  /\ request' = [b \in Tabs |-> IF At(b, "issue")
                                 THEN [request[b] EXCEPT !.pair.spared = TRUE]
                                 ELSE request[b]]
  /\ UNCHANGED <<jar, access, leaving>>

\* (mutant: the reset leaves the refresh tokens alone)
ResetPasswordOnly(f) == Reset(f) /\ UNCHANGED tokens

ResetAndRevoke(f) == Reset(f) /\ RevokeAll

\* (mutant: the tokens have no foreign key on the user)
DeleteOnly(s) == Delete(s) /\ UNCHANGED sessionVars

DeleteWithTokens(s) ==
  /\ Delete(s)
  /\ RevokeAll
  /\ UNCHANGED <<resets, jar, access, request, leaving>>

Server(b) == FindToken(b) \/ ClaimRotation(b) \/ IssueTokenPair(b)
Arrive(b) == Granted(b) \/ Denied(b) \/ NoAnswer(b)

Next ==
  \/ \E b \in Tabs :
       \/ GetValidToken(b) \/ Server(b) \/ Unavailable(b) \/ Arrive(b)
       \/ Login(b) \/ Register(b)
       \/ Logout(b) \/ LogoutAnswered(b) \/ Expire(b)
  \/ \E f \in Forms : ResetAndRevoke(f)
  \/ \E s \in Staff : DeleteWithTokens(s)
  \/ Administer /\ UNCHANGED sessionVars

Spec == Init /\ [][Next]_vars

-----------------------------------------------------------------------------
(***************************************************************************)
(* Properties.                                                             *)
(***************************************************************************)
\* Rows, cookies and calls are well formed; both cookies hold issued tokens,
\* and a live token has its account.
SessionsTypeOK ==
  /\ AccountsTypeOK
  /\ tokens \in Seq([session : 1..Len(tokens), live : BOOLEAN,
                     born : 0..resets, spared : BOOLEAN])
  /\ Len(tokens) <= MaxTokens
  /\ jar \in [host : 0..Len(tokens), domain : 0..Len(tokens)]
  /\ leaving \subseteq Tabs
  /\ access \subseteq Tabs
  /\ (\E n \in DOMAIN tokens : Live(n)) => Exists

\* A session has one live refresh token at most, whichever tabs refresh it at
\* the same time and whatever answers are lost: rotation never forks it.
OneLiveToken ==
  \A m, n \in DOMAIN tokens :
    Live(m) /\ Live(n) /\ tokens[m].session = tokens[n].session => m = n

\* A password reset ends every session begun before it, except one whose
\* next pair was just being made when the reset committed.
ResetEndsSessions ==
  \A n \in DOMAIN tokens :
    Live(n) => tokens[n].born = resets \/ tokens[n].spared

=============================================================================
