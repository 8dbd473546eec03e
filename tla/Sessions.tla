------------------------------ MODULE Sessions -------------------------------
(***************************************************************************)
(* The session cookies of identity: login, the single-use refresh token    *)
(* and its rotation, logout, and the password reset that ends sessions.    *)
(*                                                                         *)
(* A browser keeps one pair of cookies for all of its tabs.  A refresh is  *)
(* three statements on the database with no transaction around them (read  *)
(* the row, save its revocation, insert the next one); between any two of  *)
(* them another tab, a logout or a reset may run, the process may die, and *)
(* the tab may be closed while the server works on.  No account is ever    *)
(* suspended, so that check does not appear.                               *)
(***************************************************************************)
EXTENDS Integers, FiniteSets, Sequences

CONSTANTS
  Tabs,       \* the tabs people have open
  Browser,    \* Browser[t]: whose cookies a tab sends
  User,       \* User[b]: who logs in with a browser
  MaxLogins,  \* bound: logins begun
  MaxTokens,  \* bound: refresh tokens issued
  MaxResets,  \* bound: password resets
  MaxMishaps  \* bound: failing statements, tabs closed early, dying processes, idle months

Browsers == { Browser[t] : t \in Tabs }
People == { User[b] : b \in Browsers }

ASSUME SessionsAssumption ==
  /\ Browsers \subseteq DOMAIN User
  /\ MaxLogins \in Nat /\ MaxTokens \in Nat /\ MaxResets \in Nat /\ MaxMishaps \in Nat

VARIABLES
  tokens,    \* refresh_tokens, in the order they were issued
  cookie,    \* each browser's refresh_token cookie, a place in tokens or 0
  access,    \* its access_token cookie: the token issued with it, or 0
  req,       \* what each tab has the server do
  password,  \* how often each user has changed the password
  logins,    \* logins begun; the number of a login names its family
  mishaps,   \* those that have happened
  \* Three that the program does not have.
  calm,      \* browsers signed in by a login that nothing has disturbed since
  forked,    \* families of a token that two refreshes held at once
  overtaken  \* families at work while their user's password was reset
vars == <<tokens, cookie, access, req, password, logins, mishaps, calm, forked, overtaken>>
jar == <<cookie, access>>

Idle == [at |-> "idle", token |-> 0, family |-> 0, opened |-> 0, heard |-> TRUE]
Working == {"sent", "replayed", "fresh", "rotating", "checking", "leaving", "issued", "refused", "left"}

Live(i) == ~tokens[i].revoked /\ ~tokens[i].expired
Revoked(which) == [i \in DOMAIN tokens |-> [tokens[i] EXCEPT !.revoked = @ \/ i \in which]]
TokensOf(u) == { i \in DOMAIN tokens : tokens[i].user = u }
InFamily(f) == { i \in DOMAIN tokens : tokens[i].family = f }

(* AuthGuard looks at the access token's signature and expiry, at no row. *)
LetIn(b) == access[b] # 0

Busy(b) == { t \in Tabs : Browser[t] = b /\ req[t].at \in Working }
Becomes(t, at) == req' = [req EXCEPT ![t].at = at]
(* The handler is done with the row; only the answer is left. *)
Ends(t, at) == req' = [req EXCEPT ![t] = [Idle EXCEPT !.at = at, !.heard = req[t].heard]]

Init ==
  /\ tokens = <<>>
  /\ cookie = [b \in Browsers |-> 0] /\ access = [b \in Browsers |-> 0]
  /\ req = [t \in Tabs |-> Idle]
  /\ password = [u \in People |-> 0] /\ logins = 0 /\ mishaps = 0
  /\ calm = {} /\ forked = {} /\ overtaken = {}

(***************************************************************************)
(* Login.                                                                  *)
(***************************************************************************)
(* The password is compared with the hash that was read. *)
Login(t) ==
  /\ req[t] = Idle
  /\ logins < MaxLogins /\ logins' = logins + 1
  /\ req' = [req EXCEPT ![t] = [Idle EXCEPT !.at = "checking", !.family = logins + 1,
                                            !.opened = password[User[Browser[t]]]]]
  /\ calm' = calm \ {Browser[t]}
  /\ UNCHANGED <<tokens, jar, password, forked, overtaken, mishaps>>

(* createSession: the next row; its token goes into the answer. *)
CreateSession(t) ==
  /\ Len(tokens) < MaxTokens
  /\ tokens' = Append(tokens, [user |-> User[Browser[t]], family |-> req[t].family,
                               opened |-> req[t].opened, revoked |-> FALSE, expired |-> FALSE])
  /\ req' = [req EXCEPT ![t].at = "issued", ![t].token = Len(tokens) + 1]

(* issueSession: a family of its own. *)
IssueSession(t) ==
  /\ req[t].at = "checking"
  /\ CreateSession(t)
  /\ UNCHANGED <<jar, password, logins, calm, forked, overtaken, mishaps>>

(***************************************************************************)
(* Refresh.                                                                *)
(***************************************************************************)
(* Any other request of the tab is answered 401. *)
TurnedAway(t) ==
  /\ req[t] = Idle /\ ~LetIn(Browser[t]) /\ cookie[Browser[t]] # 0
  /\ Becomes(t, "turned away")
  /\ UNCHANGED <<tokens, jar, password, logins, calm, forked, overtaken, mishaps>>

(* The refresh carries the cookie as it is by now; with none it is refused *)
(* before anything else.                                                   *)
Refresh(t) ==
  /\ req[t].at = "turned away"
  /\ req' = [req EXCEPT ![t] = IF cookie[Browser[t]] = 0 THEN Idle
                               ELSE [Idle EXCEPT !.at = "sent", !.token = cookie[Browser[t]]]]
  /\ calm' = IF Busy(Browser[t]) = {} THEN calm ELSE calm \ {Browser[t]}
  /\ UNCHANGED <<tokens, jar, password, logins, forked, overtaken, mishaps>>

Found(t, at) ==
  req' = [req EXCEPT ![t].at = at, ![t].family = tokens[req[t].token].family,
                     ![t].opened = tokens[req[t].token].opened]

(* The row is read.  Two refreshes that both find it unrevoked both go on. *)
ReadFresh(t) ==
  /\ req[t].at = "sent" /\ Live(req[t].token)
  /\ Found(t, "fresh")
  /\ forked' = IF \E s \in Tabs : req[s].at = "fresh" /\ req[s].token = req[t].token
               THEN forked \cup {tokens[req[t].token].family} ELSE forked
  /\ UNCHANGED <<tokens, jar, password, logins, calm, overtaken, mishaps>>

ReadReplayed(t) ==
  /\ req[t].at = "sent" /\ tokens[req[t].token].revoked
  /\ Found(t, "replayed")
  /\ UNCHANGED <<tokens, jar, password, logins, calm, forked, overtaken, mishaps>>

ReadExpired(t) ==
  /\ req[t].at = "sent" /\ tokens[req[t].token].expired /\ ~tokens[req[t].token].revoked
  /\ Ends(t, "refused")
  /\ UNCHANGED <<tokens, jar, password, logins, calm, forked, overtaken, mishaps>>

(* Mutant: a revoked token is taken like any other. *)
ReplayAccepted(t) ==
  /\ req[t].at = "replayed"
  /\ Becomes(t, "fresh")
  /\ UNCHANGED <<tokens, jar, password, logins, calm, forked, overtaken, mishaps>>

(* Whoever presents a revoked token ends the whole family. *)
RevokeFamily(t) ==
  /\ req[t].at = "replayed"
  /\ tokens' = Revoked(InFamily(req[t].family))
  /\ Ends(t, "refused")
  /\ UNCHANGED <<jar, password, logins, calm, forked, overtaken, mishaps>>

(* Mutant: the old token stays good. *)
KeepPresented(t) ==
  /\ req[t].at = "fresh"
  /\ Becomes(t, "rotating")
  /\ UNCHANGED <<tokens, jar, password, logins, calm, forked, overtaken, mishaps>>

RevokePresented(t) ==
  /\ req[t].at = "fresh"
  /\ tokens' = Revoked({req[t].token})
  /\ Becomes(t, "rotating")
  /\ UNCHANGED <<jar, password, logins, calm, forked, overtaken, mishaps>>

RotateSession(t) ==
  /\ req[t].at = "rotating"
  /\ CreateSession(t)
  /\ UNCHANGED <<jar, password, logins, calm, forked, overtaken, mishaps>>

(***************************************************************************)
(* Logout.                                                                 *)
(***************************************************************************)
SendLogout(t) ==
  /\ req[t] = Idle
  /\ req' = [req EXCEPT ![t] = [Idle EXCEPT !.at = "leaving", !.token = cookie[Browser[t]]]]
  /\ calm' = calm \ {Browser[t]}
  /\ UNCHANGED <<tokens, jar, password, logins, forked, overtaken, mishaps>>

(* Mutant: it signs the user out everywhere. *)
LogoutEverywhere(t) ==
  /\ req[t].at = "leaving"
  /\ tokens' = IF req[t].token = 0 THEN tokens ELSE Revoked(TokensOf(User[Browser[t]]))
  /\ Ends(t, "left")
  /\ UNCHANGED <<jar, password, logins, calm, forked, overtaken, mishaps>>

(* Only the token that came with the request. *)
Logout(t) ==
  /\ req[t].at = "leaving"
  /\ tokens' = Revoked({req[t].token})
  /\ Ends(t, "left")
  /\ UNCHANGED <<jar, password, logins, calm, forked, overtaken, mishaps>>

(***************************************************************************)
(* Answers.                                                                *)
(***************************************************************************)
Done(t) == req' = [req EXCEPT ![t] = Idle]
SetCookies(b, i) == cookie' = [cookie EXCEPT ![b] = i] /\ access' = [access EXCEPT ![b] = i]

(* A new session: both cookies. *)
AnswerIssued(t) ==
  /\ req[t].at = "issued"
  /\ IF req[t].heard THEN SetCookies(Browser[t], req[t].token) ELSE UNCHANGED jar
  /\ calm' = IF req[t].heard /\ req[t].family = logins /\ Busy(Browser[t]) = {t} /\ Live(req[t].token)
             THEN calm \cup {Browser[t]} ELSE calm
  /\ Done(t)
  /\ UNCHANGED <<tokens, password, logins, forked, overtaken, mishaps>>

(* A refused refresh and every logout clear both; a refused login does not *)
(* come this far.                                                          *)
AnswerCleared(t) ==
  /\ req[t].at \in {"refused", "left"}
  /\ IF req[t].heard THEN SetCookies(Browser[t], 0) ELSE UNCHANGED jar
  /\ Done(t)
  /\ UNCHANGED <<tokens, password, logins, calm, forked, overtaken, mishaps>>

(* A statement fails: the refresh is answered as refused; a login or a     *)
(* logout is answered with an error and leaves the cookies alone.          *)
StatementFails(t) ==
  /\ mishaps < MaxMishaps /\ mishaps' = mishaps + 1
  /\ req[t].at \in {"sent", "replayed", "fresh", "rotating", "checking", "leaving"}
  /\ IF req[t].at \in {"checking", "leaving"} THEN Done(t) ELSE Ends(t, "refused")
  /\ calm' = calm \ {Browser[t]}
  /\ UNCHANGED <<tokens, jar, password, logins, forked, overtaken>>

(* The tab is closed or gives up; the server does not notice. *)
TabGivesUp(t) ==
  /\ mishaps < MaxMishaps /\ mishaps' = mishaps + 1
  /\ req[t].at \in Working /\ req[t].heard
  /\ req' = [req EXCEPT ![t].heard = FALSE]
  /\ calm' = calm \ {Browser[t]}
  /\ UNCHANGED <<tokens, jar, password, logins, forked, overtaken>>

(* The process dies and nobody answers. *)
ServerDies ==
  /\ mishaps < MaxMishaps /\ mishaps' = mishaps + 1
  /\ \E t \in Tabs : req[t].at \in Working
  /\ req' = [t \in Tabs |-> IF req[t].at \in Working THEN Idle ELSE req[t]]
  /\ calm' = calm \ { Browser[t] : t \in { s \in Tabs : req[s].at \in Working } }
  /\ UNCHANGED <<tokens, jar, password, logins, forked, overtaken>>

(***************************************************************************)
(* What happens to sessions from outside.                                  *)
(***************************************************************************)
(* A family's refreshes and logins between their read and their insert. *)
UnderWay(f) == \E t \in Tabs : req[t].family = f /\ req[t].at \in {"fresh", "rotating", "checking"}

BrowsersOf(u) == { b \in Browsers : User[b] = u }

(* Mutant: a new password leaves the sessions as they are. *)
ResetPasswordOnly(u) ==
  /\ password[u] < MaxResets
  /\ password' = [password EXCEPT ![u] = @ + 1]
  /\ calm' = calm \ BrowsersOf(u)
  /\ UNCHANGED <<tokens, jar, req, logins, forked, overtaken, mishaps>>

(* confirmReset: one transaction. *)
ResetPassword(u) ==
  /\ password[u] < MaxResets
  /\ password' = [password EXCEPT ![u] = @ + 1]
  /\ tokens' = Revoked(TokensOf(u))
  /\ calm' = calm \ BrowsersOf(u)
  /\ overtaken' = overtaken \cup { f \in 1 .. logins : UnderWay(f) }
  /\ UNCHANGED <<jar, req, logins, forked, mishaps>>

(* Fifteen minutes: the browser drops the access cookie. *)
AccessExpires(b) ==
  /\ access[b] # 0
  /\ access' = [access EXCEPT ![b] = 0]
  /\ UNCHANGED <<tokens, cookie, req, password, logins, calm, forked, overtaken, mishaps>>

(* Thirty days: the row, and the cookie that holds it.  A revoked row's    *)
(* date is never looked at.                                                *)
RefreshTokenExpires(i) ==
  /\ mishaps < MaxMishaps /\ mishaps' = mishaps + 1
  /\ Live(i) /\ \A b \in Browsers : access[b] # i
  /\ tokens' = [tokens EXCEPT ![i].expired = TRUE]
  /\ cookie' = [b \in Browsers |-> IF cookie[b] = i THEN 0 ELSE cookie[b]]
  /\ calm' = { b \in calm : cookie[b] # i /\ \A t \in Busy(b) : req[t].token # i }
  /\ UNCHANGED <<access, req, password, logins, forked, overtaken>>

Next ==
  \/ \E t \in Tabs :
       \/ Login(t) \/ IssueSession(t)
       \/ TurnedAway(t) \/ Refresh(t)
       \/ ReadFresh(t) \/ ReadReplayed(t) \/ ReadExpired(t)
       \/ RevokeFamily(t) \/ RevokePresented(t) \/ RotateSession(t)
       \/ SendLogout(t) \/ Logout(t)
       \/ AnswerIssued(t) \/ AnswerCleared(t)
       \/ StatementFails(t) \/ TabGivesUp(t)
  \/ ServerDies
  \/ \E u \in People : ResetPassword(u)
  \/ \E b \in Browsers : AccessExpires(b)
  \/ \E i \in DOMAIN tokens : RefreshTokenExpires(i)

Spec == Init /\ [][Next]_vars

TypeOK ==
  /\ tokens \in Seq([user : People, family : 1 .. logins, opened : 0 .. MaxResets,
                     revoked : BOOLEAN, expired : BOOLEAN])
  /\ Len(tokens) <= MaxTokens /\ logins \in 0 .. MaxLogins /\ mishaps \in 0 .. MaxMishaps
  /\ cookie \in [Browsers -> 0 .. Len(tokens)] /\ access \in [Browsers -> 0 .. Len(tokens)]
  /\ req \in [Tabs -> [at : Working \cup {"idle", "turned away"}, token : 0 .. Len(tokens),
                       family : 0 .. logins, opened : 0 .. MaxResets, heard : BOOLEAN]]
  /\ password \in [People -> 0 .. MaxResets]
  /\ calm \subseteq Browsers /\ forked \subseteq 1 .. logins /\ overtaken \subseteq 1 .. logins

(* A browser whose login was never disturbed - by a second request at the  *)
(* same time, a lost answer, a failing statement, a logout of its own, a   *)
(* reset or thirty idle days - is still signed in whenever it is quiet:    *)
(* its refresh cookie is live and its cookies belong together.  What other *)
(* browsers of the user do (logout-user.service.ts: "Logging out of one    *)
(* device shouldn't sign every other device out") is no disturbance.       *)
KeepsItsSession ==
  /\ TypeOK
  /\ \A b \in calm :
       Busy(b) = {} => cookie[b] # 0 /\ Live(cookie[b]) /\ access[b] \in {0, cookie[b]}

(* Rotation keeps one live token in a family, counting the one about to be *)
(* inserted, unless two refreshes read the same token before either of     *)
(* them had saved its revocation (refresh-session.service.ts).             *)
ForkNeedsOverlap ==
  \A f \in 1 .. logins \ forked :
    Cardinality({ i \in InFamily(f) : Live(i) })
      + Cardinality({ t \in Tabs : req[t].at = "rotating" /\ req[t].family = f }) <= 1

(* "A password reset invalidates every session"                            *)
(* (confirm-password-reset.service.ts): whatever is still live was opened  *)
(* with the present password, or a login or refresh of its family was      *)
(* between its read and its insert when the password changed.              *)
OldPasswordOpensNothing ==
  \A i \in DOMAIN tokens :
    Live(i) => tokens[i].opened = password[tokens[i].user] \/ tokens[i].family \in overtaken

(* A session that is over stays over: once no token of a family is live    *)
(* and none of its refreshes has read one that was, neither a replay nor a *)
(* second device, a late answer or a reset ever makes one live again.      *)
Over(f) == ~UnderWay(f) /\ \A i \in InFamily(f) : ~Live(i)
SignedOutStaysOut == [][\A f \in 1 .. logins : Over(f) => Over(f)']_vars
==============================================================================
