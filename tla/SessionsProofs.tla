---------------------------- MODULE SessionsProofs -----------------------------
(***************************************************************************)
(* Sessions, for any tabs, browsers, users and bounds: a password reset    *)
(* leaves no session of the old password, a session that is over stays     *)
(* over, a family is forked only by two refreshes that hold one token at   *)
(* once, and an undisturbed browser stays signed in.                       *)
(***************************************************************************)
EXTENDS Sessions, SequenceTheorems, FiniteSetTheorems, TLAPS

Token == [user : People, family : Nat, opened : Nat, revoked : BOOLEAN, expired : BOOLEAN]
Request == [at : Working \cup {"idle", "turned away"}, token : Nat, family : Nat,
            opened : Nat, heard : BOOLEAN]

(* Where a request has a token of its browser's user; where it is between  *)
(* its read and its insert.                                                *)
HasToken == {"sent", "replayed", "fresh", "rotating", "issued"}
Between == {"fresh", "rotating", "checking"}

Typed ==
  /\ tokens \in Seq(Token) /\ req \in [Tabs -> Request]
  /\ cookie \in [Browsers -> 0 .. Len(tokens)]
  /\ password \in [People -> Nat] /\ logins \in Nat

Numbered ==
  /\ \A i \in 1 .. Len(tokens) : tokens[i].family \in 1 .. logins
  /\ \A t \in Tabs : req[t].at \in Between => req[t].family \in 1 .. logins

TokensStayAtHome ==
  /\ \A b \in Browsers : cookie[b] # 0 => tokens[cookie[b]].user = User[b]
  /\ \A t \in Tabs : req[t].at \in HasToken =>
       req[t].token \in 1 .. Len(tokens) /\ tokens[req[t].token].user = User[Browser[t]]

(* What a request is about to issue a token for is the present password,   *)
(* or it was overtaken by the reset.                                       *)
UpToDate ==
  /\ \A t \in Tabs : req[t].at \in Between =>
       req[t].opened = password[User[Browser[t]]] \/ req[t].family \in overtaken
  /\ OldPasswordOpensNothing

SessionInv == Typed /\ Numbered /\ TokensStayAtHome /\ UpToDate

LEMMA Domains ==
  ASSUME Typed
  PROVE  /\ Len(tokens) \in Nat /\ DOMAIN tokens = 1 .. Len(tokens)
         /\ \A i \in 1 .. Len(tokens) : tokens[i] \in Token
BY LenProperties, ElementOfSeq DEF Typed

LEMMA Homes == \A t \in Tabs : Browser[t] \in Browsers /\ User[Browser[t]] \in People
BY DEF Browsers, People

-----------------------------------------------------------------------------
(* Steps that issue nothing.                                               *)

(* The rows that were there are there, and none comes back to life. *)
RowsOnlyDie(before, after) ==
  /\ Len(after) = Len(before)
  /\ \A i \in 1 .. Len(before) :
       /\ after[i].user = before[i].user /\ after[i].family = before[i].family
       /\ after[i].opened = before[i].opened
       /\ ~after[i].revoked /\ ~after[i].expired => ~before[i].revoked /\ ~before[i].expired

RequestsGoOn(before, after) ==
  \A t \in Tabs :
    /\ after[t].at \in HasToken =>
         before[t].at \in HasToken /\ after[t].token = before[t].token
    /\ after[t].at \in Between =>
         /\ before[t].at \in Between
         /\ after[t].family = before[t].family /\ after[t].opened = before[t].opened

CookiesOnlyGo(before, after) == \A b \in Browsers : after[b] \in {0, before[b]}

IssuesNothing ==
  /\ Typed' /\ RowsOnlyDie(tokens, tokens') /\ RequestsGoOn(req, req')
  /\ CookiesOnlyGo(cookie, cookie')
  /\ UNCHANGED <<password, logins, overtaken>>

LEMMA NothingIssued ==
  ASSUME SessionInv, IssuesNothing
  PROVE  SessionInv'
<1>1. /\ Len(tokens) \in Nat /\ DOMAIN tokens = 1 .. Len(tokens)
      /\ DOMAIN tokens' = 1 .. Len(tokens) /\ Len(tokens') = Len(tokens)
  <2>1. Typed /\ Typed' /\ Len(tokens') = Len(tokens)
    BY DEF SessionInv, IssuesNothing, RowsOnlyDie
  <2> QED BY <2>1, LenProperties DEF Typed
<1>2. Numbered'
  BY <1>1 DEF SessionInv, IssuesNothing, RowsOnlyDie, RequestsGoOn, Numbered
<1>3. TokensStayAtHome'
  <2>1. \A b \in Browsers : cookie'[b] # 0 =>
          cookie'[b] \in 1 .. Len(tokens) /\ tokens'[cookie'[b]].user = User[b]
    <3> SUFFICES ASSUME NEW b \in Browsers, cookie'[b] # 0
                 PROVE  cookie'[b] \in 1 .. Len(tokens) /\ tokens'[cookie'[b]].user = User[b]
      OBVIOUS
    <3>1. cookie'[b] = cookie[b] /\ cookie[b] \in 1 .. Len(tokens)
      BY <1>1 DEF SessionInv, Typed, IssuesNothing, CookiesOnlyGo
    <3> QED BY <3>1 DEF SessionInv, TokensStayAtHome, IssuesNothing, RowsOnlyDie
  <2>2. \A t \in Tabs : req'[t].at \in HasToken =>
          req'[t].token \in 1 .. Len(tokens') /\ tokens'[req'[t].token].user = User[Browser[t]]
    BY <1>1 DEF SessionInv, TokensStayAtHome, IssuesNothing, RowsOnlyDie, RequestsGoOn
  <2> QED BY <2>1, <2>2 DEF TokensStayAtHome
<1>4. OldPasswordOpensNothing'
  BY <1>1 DEF SessionInv, UpToDate, OldPasswordOpensNothing, Live, IssuesNothing, RowsOnlyDie
<1>5. \A t \in Tabs : req'[t].at \in Between =>
        req'[t].opened = password'[User[Browser[t]]] \/ req'[t].family \in overtaken'
  BY DEF SessionInv, UpToDate, IssuesNothing, RequestsGoOn
<1> QED BY <1>2, <1>3, <1>4, <1>5 DEF SessionInv, UpToDate, IssuesNothing

(* A revocation is one of them. *)
LEMMA RevokedRows ==
  ASSUME Typed, NEW which
  PROVE  Revoked(which) \in Seq(Token) /\ RowsOnlyDie(tokens, Revoked(which))
<1> DEFINE row(i) == [tokens[i] EXCEPT !.revoked = @ \/ i \in which]
<1>1. Len(tokens) \in Nat /\ DOMAIN tokens = 1 .. Len(tokens)
  BY Domains
<1>2. \A i \in 1 .. Len(tokens) :
        /\ row(i) \in Token
        /\ row(i).user = tokens[i].user /\ row(i).family = tokens[i].family
        /\ row(i).opened = tokens[i].opened /\ row(i).expired = tokens[i].expired
        /\ ~row(i).revoked => ~tokens[i].revoked
  BY Domains DEF Token
<1>3. Revoked(which) = [i \in 1 .. Len(tokens) |-> row(i)]
  BY <1>1 DEF Revoked
<1>4. Revoked(which) \in Seq(Token) /\ Len(Revoked(which)) = Len(tokens)
  <2> HIDE DEF row
  <2>1. [i \in 1 .. Len(tokens) |-> row(i)] \in Seq(Token)
    BY <1>1, <1>2
  <2>2. Len([i \in 1 .. Len(tokens) |-> row(i)]) = Len(tokens)
    BY <1>1, <1>2
  <2> QED BY <1>3, <2>1, <2>2
<1>5. \A i \in 1 .. Len(tokens) : Revoked(which)[i] = row(i)
  BY <1>3
<1> HIDE DEF row
<1> QED BY <1>2, <1>4, <1>5 DEF RowsOnlyDie

GoesOn(r, q) ==
  /\ r \in Request
  /\ r.at \in HasToken => q.at \in HasToken /\ r.token = q.token
  /\ r.at \in Between => q.at \in Between /\ r.family = q.family /\ r.opened = q.opened

(* One request goes on, and perhaps tokens are revoked or cookies dropped. *)
LEMMA OneRequest ==
  ASSUME SessionInv, NEW t \in Tabs, NEW r, req' = [req EXCEPT ![t] = r], GoesOn(r, req[t]),
         UNCHANGED tokens \/ \E which : tokens' = Revoked(which),
         cookie' = cookie \/ cookie' = [cookie EXCEPT ![Browser[t]] = 0],
         UNCHANGED <<password, logins, overtaken>>
  PROVE  IssuesNothing
<1>1. tokens' \in Seq(Token) /\ RowsOnlyDie(tokens, tokens') /\ Len(tokens') = Len(tokens)
  <2>1. Typed
    BY DEF SessionInv
  <2>2. CASE UNCHANGED tokens
    BY <2>1, <2>2 DEF Typed, RowsOnlyDie
  <2>3. CASE \E which : tokens' = Revoked(which)
    BY <2>1, <2>3, RevokedRows DEF RowsOnlyDie
  <2> QED BY <2>2, <2>3
<1>2. req' \in [Tabs -> Request] /\ RequestsGoOn(req, req')
  <2>1. \A s \in Tabs : req'[s] = IF s = t THEN r ELSE req[s]
    BY DEF SessionInv, Typed
  <2>2. req' \in [Tabs -> Request]
    BY DEF SessionInv, Typed, GoesOn
  <2>3. RequestsGoOn(req, req')
    BY <2>1 DEF GoesOn, RequestsGoOn
  <2> QED BY <2>2, <2>3
<1>3. cookie' \in [Browsers -> 0 .. Len(tokens)] /\ CookiesOnlyGo(cookie, cookie')
  <2>1. Len(tokens) \in Nat /\ cookie \in [Browsers -> 0 .. Len(tokens)]
    BY Domains DEF SessionInv, Typed
  <2> QED BY <2>1 DEF CookiesOnlyGo
<1>4. Typed'
  BY <1>1, <1>2, <1>3 DEF SessionInv, Typed
<1> QED BY <1>1, <1>2, <1>3, <1>4 DEF IssuesNothing

(* The handlers that end a request, answer it or send nothing to the table *)
(* of tokens but revocations.                                              *)
LEMMA QuietHandler ==
  ASSUME SessionInv, NEW t \in Tabs,
         \/ TurnedAway(t) \/ ReadExpired(t) \/ RevokeFamily(t) \/ RevokePresented(t)
         \/ SendLogout(t) \/ Logout(t) \/ AnswerCleared(t) \/ StatementFails(t) \/ TabGivesUp(t)
  PROVE  IssuesNothing
<1>1. req[t] \in Request /\ Browser[t] \in Browsers
  BY Homes DEF SessionInv, Typed
<1>2. CASE TurnedAway(t)
  <2>1. GoesOn([req[t] EXCEPT !.at = "turned away"], req[t])
    BY <1>1 DEF GoesOn, Request, HasToken, Between
  <2> QED BY <1>2, <2>1, OneRequest DEF TurnedAway, Becomes, jar
<1>3. CASE RevokePresented(t)
  <2>1. GoesOn([req[t] EXCEPT !.at = "rotating"], req[t])
    BY <1>1, <1>3 DEF RevokePresented, GoesOn, Request, HasToken, Between, Working
  <2> QED BY <1>3, <2>1, OneRequest DEF RevokePresented, Becomes, jar
<1>4. ASSUME NEW at \in {"refused", "left"}
      PROVE  GoesOn([Idle EXCEPT !.at = at, !.heard = req[t].heard], req[t])
  BY <1>1 DEF GoesOn, Request, HasToken, Between, Working, Idle
<1>5. CASE ReadExpired(t)
  BY <1>4, <1>5, OneRequest DEF ReadExpired, Ends, jar
<1>6. CASE RevokeFamily(t)
  BY <1>4, <1>6, OneRequest DEF RevokeFamily, Ends, jar
<1>7. CASE Logout(t)
  BY <1>4, <1>7, OneRequest DEF Logout, Ends, jar
<1>8. GoesOn(Idle, req[t])
  BY DEF GoesOn, Request, HasToken, Between, Working, Idle
<1>9. CASE AnswerCleared(t)
  BY <1>8, <1>9, OneRequest DEF AnswerCleared, SetCookies, Done, jar
<1>10. CASE StatementFails(t)
  BY <1>4, <1>8, <1>10, OneRequest DEF StatementFails, Done, Ends, jar
<1>11. CASE TabGivesUp(t)
  <2>1. GoesOn([req[t] EXCEPT !.heard = FALSE], req[t])
    BY <1>1 DEF GoesOn, Request
  <2> QED BY <1>11, <2>1, OneRequest DEF TabGivesUp, jar
<1>12. CASE SendLogout(t)
  <2>1. cookie[Browser[t]] \in Nat
    BY <1>1, Domains DEF SessionInv, Typed
  <2>2. GoesOn([Idle EXCEPT !.at = "leaving", !.token = cookie[Browser[t]]], req[t])
    BY <2>1 DEF GoesOn, Request, HasToken, Between, Working, Idle
  <2> QED BY <1>12, <2>2, OneRequest DEF SendLogout, jar
<1> QED BY <1>2, <1>3, <1>5, <1>6, <1>7, <1>9, <1>10, <1>11, <1>12

LEMMA ReplayStep ==
  ASSUME SessionInv, NEW t \in Tabs, ReadReplayed(t)
  PROVE  IssuesNothing
<1>1. req[t] \in Request /\ req[t].token \in 1 .. Len(tokens)
  BY DEF SessionInv, Typed, TokensStayAtHome, ReadReplayed, HasToken
<1>2. tokens[req[t].token] \in Token
  BY <1>1, Domains DEF SessionInv
<1>3. GoesOn([req[t] EXCEPT !.at = "replayed", !.family = tokens[req[t].token].family,
                            !.opened = tokens[req[t].token].opened], req[t])
  BY <1>1, <1>2 DEF ReadReplayed, GoesOn, Request, Token, HasToken, Between, Working
<1> QED BY <1>3, OneRequest DEF ReadReplayed, Found, jar

LEMMA ServerDiesStep ==
  ASSUME SessionInv, ServerDies
  PROVE  IssuesNothing
<1>1. RequestsGoOn(req, req') /\ req' \in [Tabs -> Request]
  BY DEF SessionInv, Typed, ServerDies, RequestsGoOn, Idle, Request, HasToken, Between
<1>2. Typed'
  BY <1>1 DEF SessionInv, Typed, ServerDies, jar
<1> QED BY <1>1, <1>2
        DEF ServerDies, IssuesNothing, RowsOnlyDie, CookiesOnlyGo, SessionInv, Typed, jar

LEMMA ExpiryStep ==
  ASSUME SessionInv, NEW i \in DOMAIN tokens, RefreshTokenExpires(i)
  PROVE  IssuesNothing
<1>1. i \in 1 .. Len(tokens) /\ Len(tokens) \in Nat /\ tokens[i] \in Token
  BY Domains DEF SessionInv
<1> DEFINE row == [tokens[i] EXCEPT !.expired = TRUE]
<1>2. row \in Token
  BY <1>1 DEF Token
<1>3. /\ tokens' \in Seq(Token) /\ Len(tokens') = Len(tokens)
      /\ \A j \in 1 .. Len(tokens) : tokens'[j] = IF j = i THEN row ELSE tokens[j]
  BY <1>1, <1>2, ExceptSeq DEF RefreshTokenExpires, SessionInv, Typed
<1>4. RowsOnlyDie(tokens, tokens')
  <2>1. row.user = tokens[i].user /\ row.family = tokens[i].family
        /\ row.opened = tokens[i].opened /\ row.expired
    BY <1>1 DEF Token
  <2> HIDE DEF row
  <2> QED BY <1>3, <2>1 DEF RowsOnlyDie
<1>5. CookiesOnlyGo(cookie, cookie') /\ cookie' \in [Browsers -> 0 .. Len(tokens)]
  BY <1>1 DEF RefreshTokenExpires, CookiesOnlyGo, SessionInv, Typed
<1>6. Typed'
  BY <1>3, <1>5 DEF RefreshTokenExpires, SessionInv, Typed
<1> QED BY <1>4, <1>5, <1>6
        DEF RefreshTokenExpires, IssuesNothing, RequestsGoOn

QuietStep ==
  \/ \E t \in Tabs :
       \/ TurnedAway(t) \/ ReadExpired(t) \/ RevokeFamily(t) \/ RevokePresented(t)
       \/ SendLogout(t) \/ Logout(t) \/ AnswerCleared(t) \/ StatementFails(t) \/ TabGivesUp(t)
       \/ ReadReplayed(t)
  \/ ServerDies
  \/ \E i \in DOMAIN tokens : RefreshTokenExpires(i)

LEMMA QuietStepIssuesNothing ==
  ASSUME SessionInv, QuietStep
  PROVE  IssuesNothing
BY QuietHandler, ReplayStep, ServerDiesStep, ExpiryStep DEF QuietStep

-----------------------------------------------------------------------------
(* Steps that start, issue or hand out.                                    *)

LEMMA LoginStep ==
  ASSUME SessionInv, NEW t \in Tabs, Login(t)
  PROVE  SessionInv'
<1> DEFINE r == [Idle EXCEPT !.at = "checking", !.family = logins + 1,
                             !.opened = password[User[Browser[t]]]]
<1>1. /\ r \in Request /\ r.at = "checking" /\ r.family = logins + 1
      /\ r.opened = password[User[Browser[t]]]
  <2>1. password[User[Browser[t]]] \in Nat /\ logins + 1 \in Nat
    BY Homes DEF SessionInv, Typed
  <2>2. Idle \in Request
    BY DEF Idle, Request
  <2>3. [Idle EXCEPT !.at = "checking"] \in Request
    BY <2>2 DEF Request, Working
  <2> QED BY <2>1, <2>2, <2>3 DEF Request, Working
<1>2. req' = [req EXCEPT ![t] = r]
  BY DEF Login
<1> HIDE DEF r
<1>3. \A s \in Tabs : req'[s] = IF s = t THEN r ELSE req[s]
  BY <1>2 DEF SessionInv, Typed
<1>4. UNCHANGED <<tokens, cookie, password, overtaken>> /\ logins' = logins + 1 /\ logins \in Nat
  BY DEF Login, jar, SessionInv, Typed
<1>5. Typed'
  BY <1>1, <1>2, <1>4 DEF SessionInv, Typed
<1>6. Numbered'
  <2>1. \A i \in 1 .. Len(tokens) : tokens[i].family \in 1 .. logins + 1
    BY <1>4 DEF SessionInv, Numbered
  <2>2. \A s \in Tabs : req'[s].at \in Between => req'[s].family \in 1 .. logins + 1
    BY <1>1, <1>3, <1>4 DEF SessionInv, Numbered
  <2> QED BY <2>1, <2>2, <1>4 DEF Numbered
<1>7. TokensStayAtHome'
  BY <1>1, <1>3, <1>4 DEF SessionInv, TokensStayAtHome, HasToken
<1>8. UpToDate'
  <2>1. OldPasswordOpensNothing'
    BY <1>4 DEF SessionInv, UpToDate, OldPasswordOpensNothing, Live
  <2>2. \A s \in Tabs : req'[s].at \in Between =>
          req'[s].opened = password[User[Browser[s]]] \/ req'[s].family \in overtaken
    BY <1>1, <1>3 DEF SessionInv, UpToDate
  <2> QED BY <1>4, <2>1, <2>2 DEF UpToDate
<1> QED BY <1>5, <1>6, <1>7, <1>8 DEF SessionInv

(* The refresh carries its browser's cookie. *)
LEMMA RefreshStep ==
  ASSUME SessionInv, NEW t \in Tabs, Refresh(t)
  PROVE  SessionInv'
<1> DEFINE b == Browser[t]
           r == IF cookie[b] = 0 THEN Idle ELSE [Idle EXCEPT !.at = "sent", !.token = cookie[b]]
<1>1. b \in Browsers /\ cookie[b] \in 0 .. Len(tokens) /\ Len(tokens) \in Nat
  BY Homes, Domains DEF SessionInv, Typed
<1>2. /\ r \in Request /\ r.at \notin Between
      /\ r.at \in HasToken => r.token \in 1 .. Len(tokens) /\ r.token = cookie[b] /\ cookie[b] # 0
  <2>1. CASE cookie[b] = 0
    <3>1. r = Idle
      BY <2>1
    <3> QED BY <3>1 DEF Request, Idle, HasToken, Between
  <2>2. CASE cookie[b] # 0
    <3>1. r = [at |-> "sent", token |-> cookie[b], family |-> 0, opened |-> 0, heard |-> TRUE]
      BY <2>2 DEF Idle
    <3> HIDE DEF r
    <3> QED BY <1>1, <2>2, <3>1 DEF Request, Working, HasToken, Between
  <2> QED BY <2>1, <2>2
<1>3. req' = [req EXCEPT ![t] = r]
  BY DEF Refresh
<1> HIDE DEF r
<1>4. \A s \in Tabs : req'[s] = IF s = t THEN r ELSE req[s]
  BY <1>3 DEF SessionInv, Typed
<1>5. UNCHANGED <<tokens, cookie, password, overtaken, logins>>
  BY DEF Refresh, jar
<1>6. Typed'
  BY <1>2, <1>3, <1>5 DEF SessionInv, Typed
<1>7. Numbered'
  BY <1>2, <1>4, <1>5 DEF SessionInv, Numbered
<1>8. TokensStayAtHome'
  BY <1>1, <1>2, <1>4, <1>5 DEF SessionInv, TokensStayAtHome
<1>9. UpToDate'
  BY <1>2, <1>4, <1>5 DEF SessionInv, UpToDate, OldPasswordOpensNothing, Live
<1> QED BY <1>6, <1>7, <1>8, <1>9 DEF SessionInv

(* The token was live when it was read, so it was opened with the present  *)
(* password.                                                               *)
LEMMA ReadFreshStep ==
  ASSUME SessionInv, NEW t \in Tabs, ReadFresh(t)
  PROVE  SessionInv'
<1> DEFINE i == req[t].token
           r == [req[t] EXCEPT !.at = "fresh", !.family = tokens[i].family, !.opened = tokens[i].opened]
<1>1. /\ req[t] \in Request /\ i \in 1 .. Len(tokens) /\ Live(i)
      /\ tokens[i].user = User[Browser[t]]
  BY DEF SessionInv, Typed, TokensStayAtHome, ReadFresh, HasToken
<1>2. tokens[i] \in Token /\ DOMAIN tokens = 1 .. Len(tokens)
  BY <1>1, Domains DEF SessionInv
<1>3. /\ r \in Request /\ r.at = "fresh" /\ r.token = i
      /\ r.family = tokens[i].family /\ r.opened = tokens[i].opened
  BY <1>1, <1>2 DEF Request, Token, Working
<1>4. req' = [req EXCEPT ![t] = r]
  BY DEF ReadFresh, Found
<1>5. tokens[i].opened = password[User[Browser[t]]] \/ tokens[i].family \in overtaken
  BY <1>1, <1>2 DEF SessionInv, UpToDate, OldPasswordOpensNothing
<1>6. tokens[i].family \in 1 .. logins
  BY <1>1 DEF SessionInv, Numbered
<1> HIDE DEF i, r
<1>7. \A s \in Tabs : req'[s] = IF s = t THEN r ELSE req[s]
  BY <1>4 DEF SessionInv, Typed
<1>8. UNCHANGED <<tokens, cookie, password, overtaken, logins>>
  BY DEF ReadFresh, jar
<1>9. Typed'
  BY <1>3, <1>4, <1>8 DEF SessionInv, Typed
<1>10. Numbered'
  BY <1>3, <1>6, <1>7, <1>8 DEF SessionInv, Numbered
<1>11. TokensStayAtHome'
  BY <1>1, <1>3, <1>7, <1>8 DEF SessionInv, TokensStayAtHome
<1>12. UpToDate'
  BY <1>3, <1>5, <1>7, <1>8 DEF SessionInv, UpToDate, OldPasswordOpensNothing, Live
<1> QED BY <1>9, <1>10, <1>11, <1>12 DEF SessionInv

(* The token that is inserted. *)
Issued(t) == [user |-> User[Browser[t]], family |-> req[t].family, opened |-> req[t].opened,
              revoked |-> FALSE, expired |-> FALSE]

LEMMA Appended ==
  ASSUME SessionInv, NEW t \in Tabs, CreateSession(t)
  PROVE  /\ Issued(t) \in Token /\ tokens' \in Seq(Token) /\ Len(tokens') = Len(tokens) + 1
         /\ \A i \in 1 .. Len(tokens) + 1 : tokens'[i] = IF i <= Len(tokens) THEN tokens[i] ELSE Issued(t)
<1>1. tokens \in Seq(Token) /\ Issued(t) \in Token
  BY Homes DEF SessionInv, Typed, Issued, Token, Request
<1>2. tokens' = Append(tokens, Issued(t))
  BY DEF CreateSession, Issued
<1> QED BY <1>1, <1>2

LEMMA IssueStep ==
  ASSUME SessionInv, NEW t \in Tabs, req[t].at \in Between, CreateSession(t),
         UNCHANGED <<cookie, password, logins, overtaken>>
  PROVE  SessionInv'
<1> DEFINE n == Len(tokens) + 1
           r == [req[t] EXCEPT !.at = "issued", !.token = n]
<1>1. req[t] \in Request /\ Len(tokens) \in Nat /\ n \in Nat
  BY Domains DEF SessionInv, Typed
<1>2. r \in Request /\ r.at = "issued" /\ r.token = n
  BY <1>1 DEF Request, Working
<1>3. req' = [req EXCEPT ![t] = r]
  BY DEF CreateSession
<1>4. /\ tokens' \in Seq(Token) /\ Len(tokens') = n
      /\ \A i \in 1 .. Len(tokens) : tokens'[i] = tokens[i]
      /\ tokens'[n] = Issued(t)
      /\ DOMAIN tokens' = 1 .. n /\ DOMAIN tokens = 1 .. Len(tokens)
  BY <1>1, Appended, LenProperties, Domains DEF SessionInv
<1>5. /\ Issued(t).user = User[Browser[t]] /\ Issued(t).family = req[t].family
      /\ Issued(t).opened = req[t].opened
  BY DEF Issued
<1> HIDE DEF r
<1>6. \A s \in Tabs : req'[s] = IF s = t THEN r ELSE req[s]
  BY <1>3 DEF SessionInv, Typed
<1>7. \A i \in 1 .. n : i \in 1 .. Len(tokens) \/ i = n
  BY <1>1
<1>8. 1 .. Len(tokens) \subseteq 1 .. n /\ n \in 1 .. n /\ 0 .. Len(tokens) \subseteq 0 .. n
  BY <1>1
<1> HIDE DEF n
<1>9. Typed'
  BY <1>2, <1>3, <1>4, <1>8 DEF SessionInv, Typed
<1>10. Numbered'
  <2>1. \A i \in 1 .. n : tokens'[i].family \in 1 .. logins
    BY <1>4, <1>5, <1>7 DEF SessionInv, Numbered
  <2>2. \A s \in Tabs : req'[s].at \in Between => req'[s].family \in 1 .. logins
    BY <1>2, <1>6 DEF SessionInv, Numbered, Between
  <2> QED BY <1>4, <2>1, <2>2 DEF Numbered
<1>11. TokensStayAtHome'
  <2>1. \A b \in Browsers : cookie[b] # 0 => tokens'[cookie[b]].user = User[b]
    <3> SUFFICES ASSUME NEW b \in Browsers, cookie[b] # 0 PROVE tokens'[cookie[b]].user = User[b]
      OBVIOUS
    <3>1. cookie[b] \in 1 .. Len(tokens)
      BY <1>1 DEF SessionInv, Typed
    <3> QED BY <1>4, <3>1 DEF SessionInv, TokensStayAtHome
  <2>2. \A s \in Tabs : req'[s].at \in HasToken =>
          req'[s].token \in 1 .. n /\ tokens'[req'[s].token].user = User[Browser[s]]
    BY <1>2, <1>4, <1>5, <1>6, <1>8 DEF SessionInv, TokensStayAtHome
  <2> QED BY <1>4, <2>1, <2>2 DEF TokensStayAtHome
<1>12. UpToDate'
  <2>1. \A s \in Tabs : req'[s].at \in Between =>
          req'[s].opened = password[User[Browser[s]]] \/ req'[s].family \in overtaken
    BY <1>2, <1>6 DEF SessionInv, UpToDate, Between
  <2>2. \A i \in 1 .. n : ~tokens'[i].revoked /\ ~tokens'[i].expired =>
          tokens'[i].opened = password[tokens'[i].user] \/ tokens'[i].family \in overtaken
    BY <1>4, <1>5, <1>7 DEF SessionInv, UpToDate, OldPasswordOpensNothing, Live
  <2>3. OldPasswordOpensNothing'
    BY <1>4, <2>2 DEF OldPasswordOpensNothing, Live
  <2> QED BY <2>1, <2>3 DEF UpToDate
<1> QED BY <1>9, <1>10, <1>11, <1>12 DEF SessionInv

LEMMA AnswerStep ==
  ASSUME SessionInv, NEW t \in Tabs, AnswerIssued(t)
  PROVE  SessionInv'
<1> DEFINE b == Browser[t]
           i == req[t].token
<1>1. /\ b \in Browsers /\ i \in 1 .. Len(tokens) /\ i \in 0 .. Len(tokens)
      /\ tokens[i].user = User[b]
  <2>1. i \in 1 .. Len(tokens) /\ tokens[i].user = User[b]
    BY DEF SessionInv, TokensStayAtHome, AnswerIssued, HasToken
  <2> QED BY <2>1, Homes, Domains DEF SessionInv
<1>2. cookie' = cookie \/ cookie' = [cookie EXCEPT ![b] = i]
  BY DEF AnswerIssued, SetCookies, jar
<1>3. UNCHANGED <<tokens, password, logins, overtaken>> /\ req' = [req EXCEPT ![t] = Idle]
  BY DEF AnswerIssued, Done
<1>4. Idle \in Request /\ Idle.at \notin HasToken /\ Idle.at \notin Between
  BY DEF Idle, Request, HasToken, Between
<1> HIDE DEF i
<1>5. \A s \in Tabs : req'[s] = IF s = t THEN Idle ELSE req[s]
  BY <1>3 DEF SessionInv, Typed
<1>6. \A c \in Browsers : cookie'[c] = cookie[c] \/ (c = b /\ cookie'[c] = i)
  BY <1>2 DEF SessionInv, Typed
<1>7. Typed'
  BY <1>1, <1>2, <1>3, <1>4 DEF SessionInv, Typed
<1>8. Numbered'
  BY <1>3, <1>4, <1>5 DEF SessionInv, Numbered
<1>9. TokensStayAtHome'
  BY <1>1, <1>3, <1>4, <1>5, <1>6 DEF SessionInv, TokensStayAtHome
<1>10. UpToDate'
  BY <1>3, <1>4, <1>5 DEF SessionInv, UpToDate, OldPasswordOpensNothing, Live
<1> QED BY <1>7, <1>8, <1>9, <1>10 DEF SessionInv

(* A reset revokes every token of its user, and what is under way is       *)
(* overtaken.                                                              *)
LEMMA ResetStep ==
  ASSUME SessionInv, NEW u \in People, ResetPassword(u)
  PROVE  SessionInv'
<1> DEFINE which == TokensOf(u)
<1>1. tokens' \in Seq(Token) /\ RowsOnlyDie(tokens, tokens') /\ Len(tokens') = Len(tokens)
  BY RevokedRows DEF ResetPassword, SessionInv, RowsOnlyDie
<1>2. /\ DOMAIN tokens = 1 .. Len(tokens) /\ DOMAIN tokens' = 1 .. Len(tokens)
      /\ \A i \in 1 .. Len(tokens) : tokens[i] \in Token
      /\ Len(tokens) \in Nat
  BY <1>1, Domains, LenProperties DEF SessionInv
<1>3. \A v \in People : password'[v] = IF v = u THEN password[v] + 1 ELSE password[v]
  BY DEF ResetPassword, SessionInv, Typed
<1>4. /\ UNCHANGED <<cookie, req, logins>> /\ password' \in [People -> Nat]
      /\ overtaken' = overtaken \cup { f \in 1 .. logins : UnderWay(f) }
  BY DEF ResetPassword, jar, SessionInv, Typed
<1>5. Typed'
  BY <1>1, <1>4 DEF SessionInv, Typed
<1>6. Numbered'
  BY <1>1, <1>4 DEF SessionInv, Numbered, RowsOnlyDie
<1>7. TokensStayAtHome'
  <2>1. \A b \in Browsers : cookie[b] # 0 => tokens'[cookie[b]].user = User[b]
    <3> SUFFICES ASSUME NEW b \in Browsers, cookie[b] # 0 PROVE tokens'[cookie[b]].user = User[b]
      OBVIOUS
    <3>1. cookie[b] \in 1 .. Len(tokens)
      BY <1>2 DEF SessionInv, Typed
    <3> QED BY <1>1, <3>1 DEF SessionInv, TokensStayAtHome, RowsOnlyDie
  <2> QED BY <1>1, <1>4, <2>1 DEF SessionInv, TokensStayAtHome, RowsOnlyDie
<1>8. \A i \in 1 .. Len(tokens) : tokens[i].user = u => tokens'[i].revoked
  <2> SUFFICES ASSUME NEW i \in 1 .. Len(tokens), tokens[i].user = u PROVE tokens'[i].revoked
    OBVIOUS
  <2>1. i \in which
    BY <1>2 DEF TokensOf
  <2>2. tokens'[i] = [tokens[i] EXCEPT !.revoked = @ \/ i \in which]
    BY <1>2 DEF ResetPassword, Revoked
  <2>3. tokens[i] \in Token
    BY <1>2
  <2> QED BY <2>1, <2>2, <2>3 DEF Token
<1>9. OldPasswordOpensNothing'
  <2> SUFFICES ASSUME NEW i \in 1 .. Len(tokens), ~tokens'[i].revoked, ~tokens'[i].expired
               PROVE  tokens'[i].opened = password'[tokens'[i].user] \/ tokens'[i].family \in overtaken'
    BY <1>2 DEF OldPasswordOpensNothing, Live
  <2>1. /\ tokens'[i].user = tokens[i].user /\ tokens'[i].family = tokens[i].family
        /\ tokens'[i].opened = tokens[i].opened /\ Live(i)
    BY <1>1 DEF RowsOnlyDie, Live
  <2>2. tokens[i].user # u /\ tokens[i].user \in People
    BY <1>2, <1>8 DEF Token
  <2>3. tokens[i].opened = password[tokens[i].user] \/ tokens[i].family \in overtaken
    BY <1>2, <2>1 DEF SessionInv, UpToDate, OldPasswordOpensNothing
  <2> QED BY <1>3, <1>4, <2>1, <2>2, <2>3
<1>10. \A t \in Tabs : req'[t].at \in Between => req'[t].family \in overtaken'
  BY <1>4 DEF SessionInv, Numbered, UnderWay, Between
<1> QED BY <1>5, <1>6, <1>7, <1>9, <1>10 DEF SessionInv, UpToDate

LEMMA AccessExpiresStep ==
  ASSUME SessionInv, NEW b \in Browsers, AccessExpires(b)
  PROVE  SessionInv'
BY DEF AccessExpires, SessionInv, Typed, Numbered, TokensStayAtHome, UpToDate,
       OldPasswordOpensNothing, Live

-----------------------------------------------------------------------------
LEMMA SessionInit == Init => SessionInv
<1> SUFFICES ASSUME Init PROVE SessionInv
  OBVIOUS
<1>1. tokens \in Seq(Token) /\ Len(tokens) = 0 /\ DOMAIN tokens = 1 .. 0
  BY EmptySeq, LenProperties DEF Init
<1>2. Idle \in Request /\ Idle.at \notin HasToken /\ Idle.at \notin Between
  BY DEF Idle, Request, HasToken, Between
<1>3. Typed
  BY <1>1, <1>2 DEF Init, Typed
<1>4. Numbered /\ TokensStayAtHome
  BY <1>1, <1>2 DEF Init, Numbered, TokensStayAtHome
<1>5. UpToDate
  BY <1>1, <1>2 DEF Init, UpToDate, OldPasswordOpensNothing
<1> QED BY <1>3, <1>4, <1>5 DEF SessionInv

LEMMA SessionStep == SessionInv /\ [Next]_vars => SessionInv'
<1> SUFFICES ASSUME SessionInv, [Next]_vars PROVE SessionInv'
  OBVIOUS
<1>1. CASE UNCHANGED vars
  BY <1>1 DEF vars, SessionInv, Typed, Numbered, TokensStayAtHome, UpToDate,
              OldPasswordOpensNothing, Live
<1>2. ASSUME NEW t \in Tabs, Login(t) PROVE SessionInv'
  BY <1>2, LoginStep
<1>3. ASSUME NEW t \in Tabs, IssueSession(t) \/ RotateSession(t) PROVE SessionInv'
  BY <1>3, IssueStep DEF IssueSession, RotateSession, Between, jar
<1>4. ASSUME NEW t \in Tabs, Refresh(t) PROVE SessionInv'
  BY <1>4, RefreshStep
<1>5. ASSUME NEW t \in Tabs, ReadFresh(t) PROVE SessionInv'
  BY <1>5, ReadFreshStep
<1>6. CASE QuietStep
  BY <1>6, QuietStepIssuesNothing, NothingIssued
<1>7. ASSUME NEW t \in Tabs, AnswerIssued(t) PROVE SessionInv'
  BY <1>7, AnswerStep
<1>8. ASSUME NEW u \in People, ResetPassword(u) PROVE SessionInv'
  BY <1>8, ResetStep
<1>9. ASSUME NEW b \in Browsers, AccessExpires(b) PROVE SessionInv'
  BY <1>9, AccessExpiresStep
<1> QED BY <1>1, <1>2, <1>3, <1>4, <1>5, <1>6, <1>7, <1>8, <1>9 DEF Next, QuietStep

(* "A password reset invalidates every session"                            *)
(* (confirm-password-reset.service.ts), but for what was between its read  *)
(* and its insert then: for any number of tabs, logins and resets.         *)
THEOREM ResetEndsSessions == Spec => []OldPasswordOpensNothing
<1>1. SessionInv => OldPasswordOpensNothing
  BY DEF SessionInv, UpToDate
<1> QED BY <1>1, SessionInit, SessionStep, PTL DEF Spec

-----------------------------------------------------------------------------
(* What is over stays over if rows only die and nobody joins the family.   *)
LEMMA OverKept ==
  ASSUME SessionInv, SessionInv', NEW f, Over(f), RowsOnlyDie(tokens, tokens'),
         \A t \in Tabs : req'[t].at \in Between /\ req'[t].family = f =>
           req[t].at \in Between /\ req[t].family = f
  PROVE  Over(f)'
<1>1. ~UnderWay(f)'
  BY DEF Over, UnderWay, Between
<1>2. DOMAIN tokens = 1 .. Len(tokens) /\ DOMAIN tokens' = 1 .. Len(tokens)
  BY Domains, LenProperties DEF SessionInv, Typed, RowsOnlyDie
<1>3. \A i \in 1 .. Len(tokens) :
        tokens'[i].family = f => tokens'[i].revoked \/ tokens'[i].expired
  BY <1>2 DEF RowsOnlyDie, Over, InFamily, Live
<1> QED BY <1>1, <1>2, <1>3 DEF Over, InFamily, Live

LEMMA OverStays ==
  ASSUME SessionInv, SessionInv', [Next]_vars, NEW f \in 1 .. logins, Over(f)
  PROVE  Over(f)'
<1>0. \A t \in Tabs : req[t].at \in Between => req[t].family # f
  BY DEF Over, UnderWay, Between
<1>1. CASE UNCHANGED vars
  BY <1>1 DEF vars, Over, UnderWay, InFamily, Live
<1>2. CASE QuietStep
  BY <1>2, QuietStepIssuesNothing, OverKept DEF IssuesNothing, RequestsGoOn
<1>3. ASSUME NEW t \in Tabs, Login(t) PROVE Over(f)'
  <2>1. RowsOnlyDie(tokens, tokens')
    BY <1>3 DEF Login, RowsOnlyDie
  <2>2. \A s \in Tabs \ {t} : req'[s] = req[s]
    BY <1>3 DEF Login, SessionInv, Typed
  <2>3. req'[t].family # f
    <3>1. logins \in Nat /\ password[User[Browser[t]]] \in Nat
      BY Homes DEF SessionInv, Typed
    <3>2. Idle \in Request /\ [Idle EXCEPT !.at = "checking"] \in Request
      BY DEF Idle, Request, Working
    <3>3. req'[t].family = logins + 1
      BY <1>3, <3>1, <3>2 DEF Login, SessionInv, Typed, Request
    <3> QED BY <3>1, <3>3
  <2> QED BY <2>1, <2>2, <2>3, OverKept
<1>4. ASSUME NEW t \in Tabs, IssueSession(t) \/ RotateSession(t) PROVE Over(f)'
  <2>1. req[t].at \in Between /\ CreateSession(t)
    BY <1>4 DEF IssueSession, RotateSession, Between
  <2>2. Issued(t).family # f
    BY <1>0, <2>1 DEF Issued
  <2>3. Len(tokens) \in Nat /\ DOMAIN tokens = 1 .. Len(tokens)
    BY Domains DEF SessionInv
  <2>4. /\ DOMAIN tokens' = 1 .. Len(tokens) + 1
        /\ \A i \in 1 .. Len(tokens) + 1 :
             tokens'[i] = IF i <= Len(tokens) THEN tokens[i] ELSE Issued(t)
    BY <2>1, Appended, LenProperties
  <2>5. \A i \in InFamily(f)' : ~Live(i)'
    <3> SUFFICES ASSUME NEW i \in 1 .. Len(tokens) + 1, tokens'[i].family = f
                 PROVE  tokens'[i].revoked \/ tokens'[i].expired
      BY <2>4 DEF InFamily, Live
    <3>1. i \in 1 .. Len(tokens) /\ tokens'[i] = tokens[i]
      BY <2>2, <2>3, <2>4
    <3> QED BY <2>3, <3>1 DEF Over, InFamily, Live
  <2>6. ~UnderWay(f)'
    <3>1. \A s \in Tabs \ {t} : req'[s] = req[s]
      BY <2>1 DEF CreateSession, SessionInv, Typed
    <3>2. req'[t].at = "issued"
      <4>1. Len(tokens) + 1 \in Nat /\ req[t] \in Request
        BY <2>3 DEF SessionInv, Typed
      <4>2. [req[t] EXCEPT !.at = "issued", !.token = Len(tokens) + 1].at = "issued"
        BY <4>1 DEF Request
      <4> QED BY <2>1, <4>2 DEF CreateSession, SessionInv, Typed
    <3> QED BY <1>0, <3>1, <3>2 DEF UnderWay, Between
  <2> QED BY <2>5, <2>6 DEF Over
<1>5. ASSUME NEW t \in Tabs, Refresh(t) PROVE Over(f)'
  <2>1. RowsOnlyDie(tokens, tokens')
    BY <1>5 DEF Refresh, RowsOnlyDie
  <2>2. \A s \in Tabs \ {t} : req'[s] = req[s]
    BY <1>5 DEF Refresh, SessionInv, Typed
  <2>3. req'[t].at \notin Between
    <3>1. cookie[Browser[t]] \in Nat
      BY Homes, Domains DEF SessionInv, Typed
    <3>2. Idle \in Request /\ Idle.at = "idle"
      BY DEF Idle, Request
    <3>3. req'[t].at \in {"idle", "sent"}
      BY <1>5, <3>1, <3>2 DEF Refresh, SessionInv, Typed, Request
    <3> QED BY <3>3 DEF Between
  <2> QED BY <2>1, <2>2, <2>3, OverKept
<1>6. ASSUME NEW t \in Tabs, ReadFresh(t) PROVE Over(f)'
  <2>1. RowsOnlyDie(tokens, tokens')
    BY <1>6 DEF ReadFresh, RowsOnlyDie
  <2>2. \A s \in Tabs \ {t} : req'[s] = req[s]
    BY <1>6 DEF ReadFresh, Found, SessionInv, Typed
  <2>3. req[t] \in Request /\ req[t].token \in DOMAIN tokens /\ tokens[req[t].token] \in Token
    BY <1>6, Domains DEF ReadFresh, SessionInv, Typed, TokensStayAtHome, HasToken
  <2>4. tokens[req[t].token].family # f
    BY <1>6, <2>3 DEF ReadFresh, Over, InFamily
  <2>5. req'[t].family # f
    BY <1>6, <2>3, <2>4 DEF ReadFresh, Found, SessionInv, Typed, Request, Token
  <2> QED BY <2>1, <2>2, <2>5, OverKept
<1>7. ASSUME NEW t \in Tabs, AnswerIssued(t) PROVE Over(f)'
  <2>1. RowsOnlyDie(tokens, tokens')
    BY <1>7 DEF AnswerIssued, RowsOnlyDie
  <2>2. \A s \in Tabs : req'[s] = IF s = t THEN Idle ELSE req[s]
    BY <1>7 DEF AnswerIssued, Done, SessionInv, Typed
  <2>3. Idle.at \notin Between
    BY DEF Idle, Between
  <2> QED BY <2>1, <2>2, <2>3, OverKept
<1>8. ASSUME NEW u \in People, ResetPassword(u) PROVE Over(f)'
  <2>1. RowsOnlyDie(tokens, tokens') /\ req' = req
    BY <1>8, RevokedRows DEF ResetPassword, SessionInv
  <2> QED BY <2>1, OverKept
<1>9. ASSUME NEW b \in Browsers, AccessExpires(b) PROVE Over(f)'
  <2>1. RowsOnlyDie(tokens, tokens') /\ req' = req
    BY <1>9 DEF AccessExpires, RowsOnlyDie
  <2> QED BY <2>1, OverKept
<1> QED BY <1>1, <1>2, <1>3, <1>4, <1>5, <1>6, <1>7, <1>8, <1>9 DEF Next, QuietStep

(* A session that nobody is about to renew and that has no live token is   *)
(* over for good, whatever old cookies are sent (refresh-session.service  *)
(* and logout-user.service).                                               *)
THEOREM OverForGood == Spec => SignedOutStaysOut
<1>1. SessionInv /\ SessionInv' /\ [Next]_vars
        => [\A f \in 1 .. logins : Over(f) => Over(f)']_vars
  BY OverStays
<1> QED BY <1>1, SessionInit, SessionStep, PTL DEF Spec, SignedOutStaysOut

-----------------------------------------------------------------------------
(***************************************************************************)
(* What a handler makes of its tab's request, field by field.              *)
(***************************************************************************)
Asks(r, at, token, family, opened, heard) ==
  r.at = at /\ r.token = token /\ r.family = family /\ r.opened = opened /\ r.heard = heard
Turns(t, at, token, family, opened, heard) ==
  /\ Asks(req'[t], at, token, family, opened, heard)
  /\ \A s \in Tabs \ {t} : req'[s] = req[s]
Kept(t, at) == Turns(t, at, req[t].token, req[t].family, req[t].opened, req[t].heard)

LEMMA TurnsTo ==
  ASSUME SessionInv, NEW t \in Tabs, NEW r, req' = [req EXCEPT ![t] = r],
         NEW at, NEW token, NEW family, NEW opened, NEW heard,
         Asks(r, at, token, family, opened, heard)
  PROVE  Turns(t, at, token, family, opened, heard)
BY DEF SessionInv, Typed, Turns

LEMMA LoginTurns ==
  ASSUME SessionInv, NEW t \in Tabs, Login(t)
  PROVE  Turns(t, "checking", 0, logins + 1, password[User[Browser[t]]], TRUE)
<1> DEFINE r == [Idle EXCEPT !.at = "checking", !.family = logins + 1,
                             !.opened = password[User[Browser[t]]]]
<1>1. Asks(r, "checking", 0, logins + 1, password[User[Browser[t]]], TRUE)
  BY DEF Idle, Asks
<1>2. req' = [req EXCEPT ![t] = r]
  BY DEF Login
<1> HIDE DEF r
<1> QED BY <1>1, <1>2, TurnsTo

LEMMA CreateTurns ==
  ASSUME SessionInv, NEW t \in Tabs, CreateSession(t)
  PROVE  Turns(t, "issued", Len(tokens) + 1, req[t].family, req[t].opened, req[t].heard)
<1> DEFINE r == [req[t] EXCEPT !.at = "issued", !.token = Len(tokens) + 1]
<1>1. Asks(r, "issued", Len(tokens) + 1, req[t].family, req[t].opened, req[t].heard)
  BY DEF SessionInv, Typed, Request, Asks
<1>2. req' = [req EXCEPT ![t] = r]
  BY DEF CreateSession
<1> HIDE DEF r
<1> QED BY <1>1, <1>2, TurnsTo

LEMMA RefreshTurns ==
  ASSUME SessionInv, NEW t \in Tabs, Refresh(t)
  PROVE  \/ cookie[Browser[t]] = 0 /\ Turns(t, "idle", 0, 0, 0, TRUE)
         \/ cookie[Browser[t]] # 0 /\ Turns(t, "sent", cookie[Browser[t]], 0, 0, TRUE)
<1> DEFINE c == cookie[Browser[t]]
           r == [Idle EXCEPT !.at = "sent", !.token = c]
<1>1. Asks(r, "sent", c, 0, 0, TRUE) /\ Asks(Idle, "idle", 0, 0, 0, TRUE)
  BY DEF Idle, Asks
<1>2. req' = [req EXCEPT ![t] = IF c = 0 THEN Idle ELSE r]
  BY DEF Refresh
<1> HIDE DEF r
<1> QED BY <1>1, <1>2, TurnsTo

LEMMA LogoutTurns ==
  ASSUME SessionInv, NEW t \in Tabs, SendLogout(t)
  PROVE  Turns(t, "leaving", cookie[Browser[t]], 0, 0, TRUE)
<1> DEFINE c == cookie[Browser[t]]
           r == [Idle EXCEPT !.at = "leaving", !.token = c]
<1>1. Asks(r, "leaving", c, 0, 0, TRUE)
  BY DEF Idle, Asks
<1>2. req' = [req EXCEPT ![t] = r]
  BY DEF SendLogout
<1> HIDE DEF r
<1> QED BY <1>1, <1>2, TurnsTo

LEMMA FoundTurns ==
  ASSUME SessionInv, NEW t \in Tabs, NEW at, Found(t, at)
  PROVE  Turns(t, at, req[t].token, tokens[req[t].token].family,
               tokens[req[t].token].opened, req[t].heard)
<1> DEFINE row == tokens[req[t].token]
           r == [req[t] EXCEPT !.at = at, !.family = row.family, !.opened = row.opened]
<1>1. Asks(r, at, req[t].token, row.family, row.opened, req[t].heard)
  BY DEF SessionInv, Typed, Request, Asks
<1>2. req' = [req EXCEPT ![t] = r]
  BY DEF Found
<1> HIDE DEF r
<1> QED BY <1>1, <1>2, TurnsTo

LEMMA BecomesTurns ==
  ASSUME SessionInv, NEW t \in Tabs, NEW at, Becomes(t, at)
  PROVE  Kept(t, at)
<1> DEFINE r == [req[t] EXCEPT !.at = at]
<1>1. Asks(r, at, req[t].token, req[t].family, req[t].opened, req[t].heard)
  BY DEF SessionInv, Typed, Request, Asks
<1>2. req' = [req EXCEPT ![t] = r]
  BY DEF Becomes
<1> HIDE DEF r
<1> QED BY <1>1, <1>2, TurnsTo DEF Kept

LEMMA EndsTurns ==
  ASSUME SessionInv, NEW t \in Tabs, NEW at, Ends(t, at)
  PROVE  Turns(t, at, 0, 0, 0, req[t].heard)
<1> DEFINE r == [Idle EXCEPT !.at = at, !.heard = req[t].heard]
<1>1. Asks(r, at, 0, 0, 0, req[t].heard)
  BY DEF Idle, Asks
<1>2. req' = [req EXCEPT ![t] = r]
  BY DEF Ends
<1> HIDE DEF r
<1> QED BY <1>1, <1>2, TurnsTo

LEMMA DoneTurns ==
  ASSUME SessionInv, NEW t \in Tabs, Done(t)
  PROVE  Turns(t, "idle", 0, 0, 0, TRUE)
<1>1. Asks(Idle, "idle", 0, 0, 0, TRUE)
  BY DEF Idle, Asks
<1> QED BY <1>1, TurnsTo DEF Done

LEMMA UnheardTurns ==
  ASSUME SessionInv, NEW t \in Tabs, TabGivesUp(t)
  PROVE  Turns(t, req[t].at, req[t].token, req[t].family, req[t].opened, FALSE)
<1> DEFINE r == [req[t] EXCEPT !.heard = FALSE]
<1>1. Asks(r, req[t].at, req[t].token, req[t].family, req[t].opened, FALSE)
  BY DEF SessionInv, Typed, Request, Asks
<1>2. req' = [req EXCEPT ![t] = r]
  BY DEF TabGivesUp
<1> HIDE DEF r
<1> QED BY <1>1, <1>2, TurnsTo

-----------------------------------------------------------------------------
(* Forks.                                                                  *)

LiveIn(i, f) == tokens[i].family = f /\ Live(i)
Renews(t, f) == req[t].at \in Between /\ req[t].family = f

(* A family that is not forked has one live token or one request that is   *)
(* about to insert one, and a request that has found the live token holds  *)
(* that very token.                                                        *)
OneHeir(f) ==
  /\ \A i, j \in 1 .. Len(tokens) : LiveIn(i, f) /\ LiveIn(j, f) => i = j
  /\ \A t, s \in Tabs : Renews(t, f) /\ Renews(s, f) => t = s
  /\ \A t \in Tabs, i \in 1 .. Len(tokens) :
       Renews(t, f) /\ LiveIn(i, f) => req[t].at = "fresh" /\ req[t].token = i
NoFork == \A f \in 1 .. logins \ forked : OneHeir(f)

SameWork(s) ==
  req'[s].at \in Between =>
    req'[s].at = req[s].at /\ req'[s].token = req[s].token /\ req'[s].family = req[s].family

LEMMA NoForkKept ==
  ASSUME SessionInv, NoFork, RowsOnlyDie(tokens, tokens'), \A s \in Tabs : SameWork(s),
         UNCHANGED <<logins, forked>>
  PROVE  NoFork'
<1> SUFFICES ASSUME NEW f \in 1 .. logins \ forked PROVE OneHeir(f)'
  BY DEF NoFork
<1>1. OneHeir(f)
  BY DEF NoFork
<1>2. /\ Len(tokens') = Len(tokens)
      /\ \A i \in 1 .. Len(tokens) : LiveIn(i, f)' => LiveIn(i, f)
  BY DEF RowsOnlyDie, LiveIn, Live
<1>3. \A t \in Tabs : Renews(t, f)' =>
        Renews(t, f) /\ req'[t].at = req[t].at /\ req'[t].token = req[t].token
  BY DEF Renews, SameWork
<1> QED BY <1>1, <1>2, <1>3 DEF OneHeir

LEMMA TurnsAway ==
  ASSUME NEW t \in Tabs, NEW at, NEW token, NEW family, NEW opened, NEW heard,
         Turns(t, at, token, family, opened, heard), at \notin Between
  PROVE  \A s \in Tabs : SameWork(s)
BY DEF Turns, Asks, SameWork

LEMMA LoginHeir ==
  ASSUME SessionInv, NoFork, NEW t \in Tabs, Login(t)
  PROVE  NoFork'
<1>1. Turns(t, "checking", 0, logins + 1, password[User[Browser[t]]], TRUE)
  BY LoginTurns
<1>2. UNCHANGED <<tokens, forked>> /\ logins' = logins + 1 /\ logins \in Nat /\ req[t] = Idle
  BY DEF Login, SessionInv, Typed
<1>3. \A s \in Tabs : req[s].at \in Between => req[s].family \in 1 .. logins
  BY DEF SessionInv, Numbered
<1>4. \A i \in 1 .. Len(tokens) : tokens[i].family \in 1 .. logins
  BY DEF SessionInv, Numbered
<1> SUFFICES ASSUME NEW f \in 1 .. (logins + 1) \ forked PROVE OneHeir(f)'
  BY <1>2 DEF NoFork
<1>5. \A i : LiveIn(i, f)' <=> LiveIn(i, f)
  BY <1>2 DEF LiveIn, Live
<1>6. CASE f = logins + 1
  <2>1. \A i \in 1 .. Len(tokens) : ~LiveIn(i, f)
    BY <1>2, <1>4, <1>6 DEF LiveIn
  <2>2. \A s \in Tabs : Renews(s, f)' => s = t
    BY <1>1, <1>2, <1>3, <1>6 DEF Turns, Renews
  <2> QED BY <1>2, <1>5, <2>1, <2>2 DEF OneHeir
<1>7. CASE f # logins + 1
  <2>1. OneHeir(f)
    BY <1>2, <1>7 DEF NoFork
  <2>2. \A s \in Tabs : Renews(s, f)' => s # t /\ req'[s] = req[s]
    BY <1>1, <1>7 DEF Turns, Asks, Renews
  <2>3. \A s \in Tabs : Renews(s, f)' => Renews(s, f) /\ req'[s] = req[s]
    BY <2>2 DEF Renews
  <2> QED BY <1>2, <1>5, <2>1, <2>3 DEF OneHeir
<1> QED BY <1>6, <1>7

(* What is inserted had no live token beside it. *)
LEMMA IssueHeir ==
  ASSUME SessionInv, NoFork, NEW t \in Tabs, req[t].at \in {"checking", "rotating"},
         CreateSession(t), UNCHANGED <<logins, forked>>
  PROVE  NoFork'
<1> DEFINE n == Len(tokens) + 1
<1>1. Turns(t, "issued", n, req[t].family, req[t].opened, req[t].heard)
  BY CreateTurns
<1>2. /\ Len(tokens) \in Nat /\ Len(tokens') = n
      /\ \A i \in 1 .. n : tokens'[i] = IF i <= Len(tokens) THEN tokens[i] ELSE Issued(t)
  BY Appended, Domains DEF SessionInv
<1> SUFFICES ASSUME NEW f \in 1 .. logins \ forked PROVE OneHeir(f)'
  BY DEF NoFork
<1>3. OneHeir(f)
  BY DEF NoFork
<1>4. \A i \in 1 .. n : i = n \/ (i \in 1 .. Len(tokens) /\ tokens'[i] = tokens[i])
  BY <1>2
<1>5. \A i \in 1 .. n : i = n \/ (i \in 1 .. Len(tokens) /\ (LiveIn(i, f)' => LiveIn(i, f)))
  BY <1>4 DEF LiveIn, Live
<1>6. n \in 1 .. n /\ tokens'[n].family = req[t].family
  BY <1>2 DEF Issued
<1>7. \A s \in Tabs : Renews(s, f)' => s # t /\ Renews(s, f) /\ req'[s] = req[s]
  <2>1. "issued" \notin Between
    BY DEF Between
  <2> QED BY <1>1, <2>1 DEF Turns, Asks, Renews
<1> HIDE DEF n
<1>8. CASE req[t].family = f
  <2>1. Renews(t, f) /\ req[t].at # "fresh"
    BY <1>8 DEF Renews, Between
  <2>2. \A i \in 1 .. Len(tokens) : ~LiveIn(i, f)
    BY <1>3, <2>1 DEF OneHeir
  <2>3. \A s \in Tabs : ~Renews(s, f)'
    BY <1>3, <1>7, <2>1 DEF OneHeir
  <2>4. \A i \in 1 .. n : LiveIn(i, f)' => i = n
    BY <1>5, <2>2
  <2> QED BY <1>2, <2>3, <2>4 DEF OneHeir
<1>9. CASE req[t].family # f
  <2>1. \A i \in 1 .. n : LiveIn(i, f)' => i \in 1 .. Len(tokens) /\ LiveIn(i, f)
    BY <1>5, <1>6, <1>9 DEF LiveIn
  <2> QED BY <1>2, <1>3, <1>7, <2>1 DEF OneHeir
<1> QED BY <1>8, <1>9

(* A second reader of the live token forks its family. *)
LEMMA ReadHeir ==
  ASSUME SessionInv, NoFork, NEW t \in Tabs, ReadFresh(t)
  PROVE  NoFork'
<1> DEFINE n == req[t].token
           g == tokens[n].family
<1>1. Turns(t, "fresh", n, g, tokens[n].opened, req[t].heard)
  BY FoundTurns DEF ReadFresh
<1>2. /\ UNCHANGED <<tokens, logins>> /\ forked \subseteq forked'
      /\ n \in 1 .. Len(tokens) /\ LiveIn(n, g)
  BY DEF ReadFresh, SessionInv, TokensStayAtHome, HasToken, LiveIn
<1>3. \A s \in Tabs : req[s].at = "fresh" /\ req[s].token = n => g \in forked'
  BY DEF ReadFresh
<1> SUFFICES ASSUME NEW f \in 1 .. logins \ forked' PROVE OneHeir(f)'
  BY <1>2 DEF NoFork
<1>4. OneHeir(f)
  BY <1>2 DEF NoFork
<1>5. \A i : LiveIn(i, f)' <=> LiveIn(i, f)
  BY <1>2 DEF LiveIn, Live
<1>6. \A s \in Tabs \ {t} : req'[s] = req[s] /\ (Renews(s, f)' <=> Renews(s, f))
  BY <1>1 DEF Turns, Renews
<1>7. (Renews(t, f)' => g = f) /\ req'[t].at = "fresh" /\ req'[t].token = n
  BY <1>1 DEF Turns, Asks, Renews
<1> HIDE DEF n, g
<1>8. CASE g = f
  <2>1. \A s \in Tabs : ~Renews(s, f)
    BY <1>2, <1>3, <1>4, <1>8 DEF OneHeir
  <2>2. \A s \in Tabs : Renews(s, f)' => s = t
    BY <1>6, <2>1
  <2>3. \A i \in 1 .. Len(tokens) : LiveIn(i, f)' => i = n
    BY <1>2, <1>4, <1>5, <1>8 DEF OneHeir
  <2> QED BY <1>2, <1>7, <2>2, <2>3 DEF OneHeir
<1>9. CASE g # f
  <2>1. \A s \in Tabs : Renews(s, f)' => Renews(s, f) /\ req'[s] = req[s]
    BY <1>6, <1>7, <1>9
  <2> QED BY <1>2, <1>4, <1>5, <2>1 DEF OneHeir
<1> QED BY <1>8, <1>9

(* The revocation of the token that was found makes its finder the heir. *)
LEMMA RevokeHeir ==
  ASSUME SessionInv, NoFork, NEW t \in Tabs, RevokePresented(t)
  PROVE  NoFork'
<1>1. Kept(t, "rotating")
  BY BecomesTurns DEF RevokePresented
<1>2. RowsOnlyDie(tokens, tokens') /\ UNCHANGED <<logins, forked>>
  BY RevokedRows DEF RevokePresented, SessionInv
<1>3. req[t].token \in 1 .. Len(tokens) /\ req[t].at = "fresh"
  BY DEF RevokePresented, SessionInv, TokensStayAtHome, HasToken
<1>4. tokens'[req[t].token].revoked
  <2>1. tokens[req[t].token] \in Token /\ req[t].token \in DOMAIN tokens
    BY <1>3, Domains DEF SessionInv
  <2>2. tokens'[req[t].token] =
          [tokens[req[t].token] EXCEPT !.revoked = @ \/ req[t].token \in {req[t].token}]
    BY <2>1 DEF RevokePresented, Revoked
  <2> QED BY <2>1, <2>2 DEF Token
<1> SUFFICES ASSUME NEW f \in 1 .. logins \ forked PROVE OneHeir(f)'
  BY <1>2 DEF NoFork
<1>5. OneHeir(f)
  BY DEF NoFork
<1>6. /\ Len(tokens') = Len(tokens)
      /\ \A i \in 1 .. Len(tokens) : LiveIn(i, f)' => LiveIn(i, f) /\ i # req[t].token
  BY <1>2, <1>4 DEF RowsOnlyDie, LiveIn, Live
<1>7. \A s \in Tabs : Renews(s, f)' => Renews(s, f)
  BY <1>1, <1>3 DEF Kept, Turns, Asks, Renews, Between
<1>8. \A s \in Tabs : s # t => req'[s] = req[s]
  BY <1>1 DEF Kept, Turns
<1> QED BY <1>5, <1>6, <1>7, <1>8 DEF OneHeir

LEMMA AnswerTurns ==
  ASSUME SessionInv, NEW t \in Tabs, StatementFails(t)
  PROVE  \/ Turns(t, "idle", 0, 0, 0, TRUE)
         \/ Turns(t, "refused", 0, 0, 0, req[t].heard)
BY DoneTurns, EndsTurns DEF StatementFails

(* The handlers that leave a request outside its read and its insert. *)
LEMMA AwayStep ==
  ASSUME SessionInv, NEW t \in Tabs,
         \/ TurnedAway(t) \/ Refresh(t) \/ ReadReplayed(t) \/ ReadExpired(t) \/ RevokeFamily(t)
         \/ SendLogout(t) \/ Logout(t) \/ AnswerIssued(t) \/ AnswerCleared(t) \/ StatementFails(t)
  PROVE  \A s \in Tabs : SameWork(s)
<1> USE DEF Between
<1>1. CASE TurnedAway(t)
  <2>1. Kept(t, "turned away")
    BY <1>1, BecomesTurns DEF TurnedAway
  <2>2. "turned away" \notin Between
    OBVIOUS
  <2> QED BY <2>1, <2>2, TurnsAway DEF Kept
<1>2. CASE Refresh(t)
  BY <1>2, RefreshTurns, TurnsAway
<1>3. CASE ReadReplayed(t)
  BY <1>3, FoundTurns, TurnsAway DEF ReadReplayed
<1>4. CASE ReadExpired(t) \/ RevokeFamily(t) \/ Logout(t)
  BY <1>4, EndsTurns, TurnsAway DEF ReadExpired, RevokeFamily, Logout
<1>5. CASE SendLogout(t)
  BY <1>5, LogoutTurns, TurnsAway
<1>6. CASE AnswerIssued(t) \/ AnswerCleared(t)
  BY <1>6, DoneTurns, TurnsAway DEF AnswerIssued, AnswerCleared
<1>7. CASE StatementFails(t)
  <2>1. Turns(t, "idle", 0, 0, 0, TRUE) \/ Turns(t, "refused", 0, 0, 0, req[t].heard)
    BY <1>7, AnswerTurns
  <2>2. CASE Turns(t, "idle", 0, 0, 0, TRUE)
    BY <2>2, TurnsAway
  <2>3. CASE Turns(t, "refused", 0, 0, 0, req[t].heard)
    BY <2>3, TurnsAway
  <2> QED BY <2>1, <2>2, <2>3
<1> QED BY <1>1, <1>2, <1>3, <1>4, <1>5, <1>6, <1>7

LEMMA HeirStep ==
  ASSUME SessionInv, NoFork, [Next]_vars
  PROVE  NoFork'
<1>1. CASE UNCHANGED vars
  BY <1>1 DEF vars, NoFork, OneHeir, LiveIn, Live, Renews
<1>2. ASSUME NEW t \in Tabs, Login(t) PROVE NoFork'
  BY <1>2, LoginHeir
<1>3. ASSUME NEW t \in Tabs, IssueSession(t) \/ RotateSession(t) PROVE NoFork'
  BY <1>3, IssueHeir DEF IssueSession, RotateSession
<1>4. ASSUME NEW t \in Tabs, ReadFresh(t) PROVE NoFork'
  BY <1>4, ReadHeir
<1>5. ASSUME NEW t \in Tabs, RevokePresented(t) PROVE NoFork'
  BY <1>5, RevokeHeir
<1>6. ASSUME NEW t \in Tabs,
             \/ TurnedAway(t) \/ ReadReplayed(t) \/ ReadExpired(t) \/ RevokeFamily(t)
             \/ SendLogout(t) \/ Logout(t) \/ AnswerCleared(t) \/ StatementFails(t)
      PROVE  NoFork'
  <2>1. IssuesNothing
    BY <1>6, QuietHandler, ReplayStep
  <2>2. \A s \in Tabs : SameWork(s)
    BY <1>6, AwayStep
  <2>3. UNCHANGED forked
    BY <1>6 DEF TurnedAway, ReadReplayed, ReadExpired, RevokeFamily, SendLogout, Logout,
                AnswerCleared, StatementFails
  <2> QED BY <2>1, <2>2, <2>3, NoForkKept DEF IssuesNothing
<1>7. ASSUME NEW t \in Tabs, Refresh(t) \/ AnswerIssued(t) PROVE NoFork'
  <2>1. UNCHANGED <<tokens, logins, forked>>
    BY <1>7 DEF Refresh, AnswerIssued
  <2>2. RowsOnlyDie(tokens, tokens')
    BY <2>1 DEF RowsOnlyDie
  <2>3. \A s \in Tabs : SameWork(s)
    BY <1>7, AwayStep
  <2> QED BY <2>1, <2>2, <2>3, NoForkKept
<1>8. ASSUME NEW t \in Tabs, TabGivesUp(t) PROVE NoFork'
  <2>1. IssuesNothing /\ UNCHANGED forked
    BY <1>8, QuietHandler DEF TabGivesUp
  <2>2. \A s \in Tabs : SameWork(s)
    <3>1. Turns(t, req[t].at, req[t].token, req[t].family, req[t].opened, FALSE)
      BY <1>8, UnheardTurns
    <3> QED BY <3>1 DEF Turns, Asks, SameWork
  <2> QED BY <2>1, <2>2, NoForkKept DEF IssuesNothing
<1>9. ASSUME ServerDies PROVE NoFork'
  <2>1. IssuesNothing /\ UNCHANGED forked
    BY <1>9, ServerDiesStep DEF ServerDies
  <2>2. \A s \in Tabs : SameWork(s)
    BY <1>9 DEF ServerDies, SameWork, Idle, Between
  <2> QED BY <2>1, <2>2, NoForkKept DEF IssuesNothing
<1>10. ASSUME NEW u \in People, ResetPassword(u) PROVE NoFork'
  <2>1. RowsOnlyDie(tokens, tokens') /\ UNCHANGED <<req, logins, forked>>
    BY <1>10, RevokedRows DEF ResetPassword, SessionInv
  <2> QED BY <2>1, NoForkKept DEF SameWork
<1>11. ASSUME NEW b \in Browsers, AccessExpires(b) PROVE NoFork'
  BY <1>11 DEF AccessExpires, NoFork, OneHeir, LiveIn, Live, Renews
<1>12. ASSUME NEW i \in DOMAIN tokens, RefreshTokenExpires(i) PROVE NoFork'
  <2>1. IssuesNothing /\ UNCHANGED <<req, forked>>
    BY <1>12, ExpiryStep DEF RefreshTokenExpires
  <2> QED BY <2>1, NoForkKept DEF IssuesNothing, SameWork
<1> QED BY <1>1, <1>2, <1>3, <1>4, <1>5, <1>6, <1>7, <1>8, <1>9, <1>10, <1>11, <1>12 DEF Next

LEMMA AtMostOne ==
  ASSUME NEW S, \A x, y \in S : x = y
  PROVE  (Cardinality(S) = 0 /\ S = {}) \/ (Cardinality(S) = 1 /\ S # {})
<1>1. CASE S = {}
  BY <1>1, FS_EmptySet
<1>2. CASE S # {}
  <2>1. PICK x : S = {x}
    BY <1>2
  <2> QED BY <2>1, FS_Singleton
<1> QED BY <1>1, <1>2

LEMMA NoForkOverlap ==
  ASSUME SessionInv, NoFork
  PROVE  ForkNeedsOverlap
<1> SUFFICES ASSUME NEW f \in 1 .. logins \ forked
             PROVE  Cardinality({ i \in InFamily(f) : Live(i) })
                      + Cardinality({ t \in Tabs : req[t].at = "rotating" /\ req[t].family = f }) <= 1
  BY DEF ForkNeedsOverlap
<1> DEFINE A == { i \in InFamily(f) : Live(i) }
           B == { t \in Tabs : req[t].at = "rotating" /\ req[t].family = f }
<1>1. OneHeir(f)
  BY DEF NoFork
<1>2. \A i \in A : i \in 1 .. Len(tokens) /\ LiveIn(i, f)
  BY Domains DEF SessionInv, InFamily, LiveIn
<1>3. \A t \in B : t \in Tabs /\ Renews(t, f) /\ req[t].at = "rotating"
  BY DEF Renews, Between
<1> HIDE DEF A, B
<1>4. \A i, j \in A : i = j
  BY <1>1, <1>2 DEF OneHeir
<1>5. \A t, s \in B : t = s
  BY <1>1, <1>3 DEF OneHeir
<1>6. A = {} \/ B = {}
  BY <1>1, <1>2, <1>3 DEF OneHeir
<1>7. (Cardinality(A) = 0 /\ A = {}) \/ (Cardinality(A) = 1 /\ A # {})
  BY <1>4, AtMostOne
<1>8. (Cardinality(B) = 0 /\ B = {}) \/ (Cardinality(B) = 1 /\ B # {})
  BY <1>5, AtMostOne
<1>9. Cardinality(A) + Cardinality(B) <= 1
  BY <1>6, <1>7, <1>8
<1> QED BY <1>9 DEF A, B

(* Rotation forks a family only when two refreshes hold the same token at  *)
(* once (refresh-session.service.ts), for any tabs and tokens.             *)
THEOREM RotationNeverForks == Spec => []ForkNeedsOverlap
<1>1. Init => NoFork
  BY DEF Init, NoFork
<1>2. SessionInv /\ NoFork /\ [Next]_vars => NoFork'
  BY HeirStep
<1>3. SessionInv /\ NoFork => ForkNeedsOverlap
  BY NoForkOverlap
<1> QED BY <1>1, <1>2, <1>3, SessionInit, SessionStep, PTL DEF Spec

-----------------------------------------------------------------------------
(* Whose family it is: home[f] is the browser that logged in to f, and no  *)
(* other browser ever has a token of f.                                    *)

Carries == HasToken \cup {"leaving"}
Knows == Between \cup {"replayed"}

CookiesAtHome(home) ==
  \A b \in Browsers : cookie[b] # 0 => home[tokens[cookie[b]].family] = b
CarriedAtHome(home, t) ==
  req[t].at \in Carries /\ req[t].token # 0 =>
    req[t].token \in 1 .. Len(tokens) /\ home[tokens[req[t].token].family] = Browser[t]
KnownAtHome(home, t) ==
  req[t].at \in Knows => req[t].family \in 1 .. logins /\ home[req[t].family] = Browser[t]
AtHome(home) ==
  CookiesAtHome(home) /\ \A t \in Tabs : CarriedAtHome(home, t) /\ KnownAtHome(home, t)

SameFamilies ==
  /\ Len(tokens') = Len(tokens)
  /\ \A i \in 1 .. Len(tokens) : tokens'[i].family = tokens[i].family

(* A request keeps its token and its family, or takes up the cookie.       *)
HomelyRequest(home, t) ==
  /\ req'[t].at \in Carries /\ req'[t].token # 0 =>
       \/ req[t].at \in Carries /\ req'[t].token = req[t].token
       \/ req'[t].token = cookie[Browser[t]]
  /\ req'[t].at \in Knows =>
       \/ req[t].at \in Knows /\ req'[t].family = req[t].family
       \/ req'[t].family \in 1 .. logins /\ home[req'[t].family] = Browser[t]

LEMMA HomeKept ==
  ASSUME SessionInv, NEW home, AtHome(home), SameFamilies, CookiesOnlyGo(cookie, cookie'),
         \A t \in Tabs : HomelyRequest(home, t), UNCHANGED logins
  PROVE  AtHome(home)'
<1>1. cookie \in [Browsers -> 0 .. Len(tokens)] /\ Len(tokens) \in Nat
  BY Domains DEF SessionInv, Typed
<1>2. \A b \in Browsers : cookie[b] # 0 => cookie[b] \in 1 .. Len(tokens)
  BY <1>1
<1>3. CookiesAtHome(home)'
  BY <1>2 DEF AtHome, CookiesAtHome, CookiesOnlyGo, SameFamilies
<1>4. ASSUME NEW t \in Tabs PROVE CarriedAtHome(home, t)'
  <2>1. Browser[t] \in Browsers
    BY Homes
  <2> SUFFICES ASSUME req'[t].at \in Carries, req'[t].token # 0
               PROVE  req'[t].token \in 1 .. Len(tokens)
                        /\ home[tokens[req'[t].token].family] = Browser[t]
    BY DEF CarriedAtHome, SameFamilies
  <2>2. CASE req[t].at \in Carries /\ req'[t].token = req[t].token
    BY <2>2 DEF AtHome, CarriedAtHome
  <2>3. CASE req'[t].token = cookie[Browser[t]]
    BY <1>2, <2>1, <2>3 DEF AtHome, CookiesAtHome
  <2> QED BY <2>2, <2>3 DEF HomelyRequest
<1>5. ASSUME NEW t \in Tabs PROVE KnownAtHome(home, t)'
  BY DEF HomelyRequest, AtHome, KnownAtHome
<1> QED BY <1>3, <1>4, <1>5 DEF AtHome

LEMMA HomelyTurn ==
  ASSUME NEW home, NEW t \in Tabs, NEW at, NEW token, NEW family, NEW opened, NEW heard,
         Turns(t, at, token, family, opened, heard),
         at \in Carries /\ token # 0 =>
           \/ req[t].at \in Carries /\ token = req[t].token
           \/ token = cookie[Browser[t]],
         at \in Knows =>
           \/ req[t].at \in Knows /\ family = req[t].family
           \/ family \in 1 .. logins /\ home[family] = Browser[t]
  PROVE  \A s \in Tabs : HomelyRequest(home, s)
<1>1. HomelyRequest(home, t)
  BY DEF Turns, Asks, HomelyRequest
<1>2. \A s \in Tabs \ {t} : HomelyRequest(home, s)
  BY DEF Turns, HomelyRequest
<1> QED BY <1>1, <1>2

LEMMA HomelyStep ==
  ASSUME SessionInv, NEW home, AtHome(home), NEW t \in Tabs,
         \/ TurnedAway(t) \/ Refresh(t) \/ ReadFresh(t) \/ ReadReplayed(t) \/ ReadExpired(t)
         \/ RevokeFamily(t) \/ RevokePresented(t) \/ SendLogout(t) \/ Logout(t)
         \/ AnswerIssued(t) \/ AnswerCleared(t) \/ StatementFails(t) \/ TabGivesUp(t)
  PROVE  \A s \in Tabs : HomelyRequest(home, s)
<1>0. /\ "fresh" \in Carries /\ "replayed" \in Carries /\ "rotating" \in Carries
      /\ "sent" \in Carries /\ "sent" \notin Knows
      /\ "leaving" \in Carries /\ "leaving" \notin Knows
      /\ "fresh" \in Knows /\ "rotating" \in Knows
      /\ \A at \in {"idle", "turned away", "refused", "left"} : at \notin Carries /\ at \notin Knows
  BY DEF Carries, Knows, HasToken, Between
<1>1. CASE TurnedAway(t)
  <2>1. Kept(t, "turned away")
    BY <1>1, BecomesTurns DEF TurnedAway
  <2> QED BY <1>0, <2>1, HomelyTurn DEF Kept
<1>2. CASE Refresh(t)
  <2>1. CASE Turns(t, "idle", 0, 0, 0, TRUE)
    BY <1>0, <2>1, HomelyTurn
  <2>2. CASE Turns(t, "sent", cookie[Browser[t]], 0, 0, TRUE)
    BY <1>0, <2>2, HomelyTurn
  <2> QED BY <1>2, <2>1, <2>2, RefreshTurns
<1>3. ASSUME NEW at, Found(t, at), req[t].at = "sent"
      PROVE  \A s \in Tabs : HomelyRequest(home, s)
  <2> DEFINE n == req[t].token
  <2>1. Turns(t, at, n, tokens[n].family, tokens[n].opened, req[t].heard)
    BY <1>3, FoundTurns
  <2>2. n \in 1 .. Len(tokens)
    BY <1>3 DEF SessionInv, TokensStayAtHome, HasToken
  <2>3. tokens[n].family \in 1 .. logins /\ n # 0
    BY <2>2, Domains DEF SessionInv, Numbered
  <2>4. home[tokens[n].family] = Browser[t]
    BY <1>0, <1>3, <2>3 DEF AtHome, CarriedAtHome
  <2> HIDE DEF n
  <2>5. req[t].at \in Carries /\ n = req[t].token
    BY <1>0, <1>3 DEF n
  <2> QED BY <2>1, <2>3, <2>4, <2>5, HomelyTurn
<1>4. CASE ReadFresh(t) \/ ReadReplayed(t)
  BY <1>3, <1>4 DEF ReadFresh, ReadReplayed
<1>5. CASE ReadExpired(t) \/ RevokeFamily(t) \/ Logout(t)
  <2>1. Turns(t, "refused", 0, 0, 0, req[t].heard) \/ Turns(t, "left", 0, 0, 0, req[t].heard)
    BY <1>5, EndsTurns DEF ReadExpired, RevokeFamily, Logout
  <2>2. CASE Turns(t, "refused", 0, 0, 0, req[t].heard)
    BY <1>0, <2>2, HomelyTurn
  <2>3. CASE Turns(t, "left", 0, 0, 0, req[t].heard)
    BY <1>0, <2>3, HomelyTurn
  <2> QED BY <2>1, <2>2, <2>3
<1>6. CASE RevokePresented(t)
  <2>1. Kept(t, "rotating") /\ req[t].at = "fresh"
    BY <1>6, BecomesTurns DEF RevokePresented
  <2> QED BY <1>0, <2>1, HomelyTurn DEF Kept
<1>7. CASE SendLogout(t)
  BY <1>0, <1>7, LogoutTurns, HomelyTurn
<1>8. CASE AnswerIssued(t) \/ AnswerCleared(t)
  <2>1. Turns(t, "idle", 0, 0, 0, TRUE)
    BY <1>8, DoneTurns DEF AnswerIssued, AnswerCleared
  <2> QED BY <1>0, <2>1, HomelyTurn
<1>9. CASE StatementFails(t)
  <2>1. CASE Turns(t, "idle", 0, 0, 0, TRUE)
    BY <1>0, <2>1, HomelyTurn
  <2>2. CASE Turns(t, "refused", 0, 0, 0, req[t].heard)
    BY <1>0, <2>2, HomelyTurn
  <2> QED BY <1>9, <2>1, <2>2, AnswerTurns
<1>10. CASE TabGivesUp(t)
  <2>1. Turns(t, req[t].at, req[t].token, req[t].family, req[t].opened, FALSE)
    BY <1>10, UnheardTurns
  <2> QED BY <2>1, HomelyTurn
<1> QED BY <1>1, <1>2, <1>4, <1>5, <1>6, <1>7, <1>8, <1>9, <1>10

(* A login opens a family of its own. *)
LEMMA LoginHome ==
  ASSUME SessionInv, NEW home, AtHome(home), NEW t \in Tabs, Login(t)
  PROVE  \E new : AtHome(new)'
<1>1. Turns(t, "checking", 0, logins + 1, password[User[Browser[t]]], TRUE)
  BY LoginTurns
<1>2. UNCHANGED <<tokens, cookie>> /\ logins' = logins + 1 /\ logins \in Nat
  BY DEF Login, jar, SessionInv, Typed
<1>3. PICK new : new = [n \in Nat |-> IF n = logins + 1 THEN Browser[t] ELSE home[n]]
  OBVIOUS
<1>4. new[logins + 1] = Browser[t] /\ \A n \in 1 .. logins : new[n] = home[n]
  BY <1>2, <1>3
<1>5. \A i \in 1 .. Len(tokens) : new[tokens[i].family] = home[tokens[i].family]
  BY <1>4 DEF SessionInv, Numbered
<1>6. CookiesAtHome(new)'
  <2>1. \A b \in Browsers : cookie[b] # 0 => cookie[b] \in 1 .. Len(tokens)
    BY Domains DEF SessionInv, Typed
  <2> QED BY <1>2, <1>5, <2>1 DEF AtHome, CookiesAtHome
<1>7. ASSUME NEW s \in Tabs PROVE CarriedAtHome(new, s)' /\ KnownAtHome(new, s)'
  <2>1. CASE s = t
    <3>1. "checking" \notin Carries
      BY DEF Carries, HasToken
    <3> QED BY <1>1, <1>2, <1>4, <2>1, <3>1 DEF Turns, Asks, CarriedAtHome, KnownAtHome
  <2>2. CASE s # t
    <3>1. req'[s] = req[s]
      BY <1>1, <2>2 DEF Turns
    <3>2. CarriedAtHome(new, s)'
      BY <1>2, <1>5, <3>1 DEF AtHome, CarriedAtHome
    <3>3. KnownAtHome(new, s)'
      BY <1>2, <1>4, <3>1 DEF AtHome, KnownAtHome
    <3> QED BY <3>2, <3>3
  <2> QED BY <2>1, <2>2
<1>8. AtHome(new)'
  BY <1>6, <1>7 DEF AtHome
<1> QED BY <1>8

LEMMA IssueHome ==
  ASSUME SessionInv, NEW home, AtHome(home), NEW t \in Tabs, CreateSession(t),
         req[t].at \in {"checking", "rotating"}, UNCHANGED <<cookie, logins>>
  PROVE  AtHome(home)'
<1> DEFINE n == Len(tokens) + 1
<1>1. Turns(t, "issued", n, req[t].family, req[t].opened, req[t].heard)
  BY CreateTurns
<1>2. /\ Len(tokens) \in Nat /\ Len(tokens') = n
      /\ \A i \in 1 .. n : tokens'[i] = IF i <= Len(tokens) THEN tokens[i] ELSE Issued(t)
  BY Appended, Domains DEF SessionInv
<1>3. /\ \A i \in 1 .. Len(tokens) : i \in 1 .. n /\ tokens'[i] = tokens[i]
      /\ n \in 1 .. n /\ tokens'[n].family = req[t].family
  BY <1>2 DEF Issued
<1>4. home[req[t].family] = Browser[t]
  BY DEF AtHome, KnownAtHome, Knows, Between
<1> HIDE DEF n
<1>5. CookiesAtHome(home)'
  <2>1. \A b \in Browsers : cookie[b] # 0 => cookie[b] \in 1 .. Len(tokens)
    BY Domains DEF SessionInv, Typed
  <2> QED BY <1>3, <2>1 DEF AtHome, CookiesAtHome
<1>6. ASSUME NEW s \in Tabs PROVE CarriedAtHome(home, s)' /\ KnownAtHome(home, s)'
  <2>1. CASE s = t
    <3>1. "issued" \notin Knows
      BY DEF Knows, Between
    <3> QED BY <1>1, <1>2, <1>3, <1>4, <2>1, <3>1 DEF Turns, Asks, CarriedAtHome, KnownAtHome
  <2>2. CASE s # t
    <3>1. req'[s] = req[s]
      BY <1>1, <2>2 DEF Turns
    <3> QED BY <1>2, <1>3, <3>1 DEF AtHome, CarriedAtHome, KnownAtHome
  <2> QED BY <2>1, <2>2
<1> QED BY <1>5, <1>6 DEF AtHome

(* The answer's token becomes the cookie. *)
LEMMA AnswerHome ==
  ASSUME SessionInv, NEW home, AtHome(home), NEW t \in Tabs, AnswerIssued(t)
  PROVE  AtHome(home)'
<1>1. \A s \in Tabs : HomelyRequest(home, s)
  BY HomelyStep
<1>2. UNCHANGED <<tokens, logins>>
  BY DEF AnswerIssued
<1>3. req[t].token \in 1 .. Len(tokens) /\ req[t].token # 0 /\ Browser[t] \in Browsers
  <2>1. req[t].token \in 1 .. Len(tokens)
    BY DEF SessionInv, TokensStayAtHome, AnswerIssued, HasToken
  <2> QED BY <2>1, Homes, Domains DEF SessionInv
<1>4. home[tokens[req[t].token].family] = Browser[t]
  BY <1>3 DEF AtHome, CarriedAtHome, AnswerIssued, Carries, HasToken
<1>5. \A b \in Browsers : cookie'[b] = cookie[b] \/ (b = Browser[t] /\ cookie'[b] = req[t].token)
  BY DEF AnswerIssued, SetCookies, jar, SessionInv, Typed
<1>6. CookiesAtHome(home)'
  BY <1>2, <1>4, <1>5 DEF AtHome, CookiesAtHome
<1>7. SameFamilies /\ CookiesOnlyGo(cookie, cookie)
  BY <1>2 DEF SameFamilies, CookiesOnlyGo
<1>8. ASSUME NEW s \in Tabs PROVE CarriedAtHome(home, s)' /\ KnownAtHome(home, s)'
  <2>1. CASE s = t
    <3>1. req'[s].at = "idle"
      BY <2>1, DoneTurns DEF AnswerIssued, Turns, Asks
    <3> QED BY <3>1 DEF CarriedAtHome, KnownAtHome, Carries, Knows, HasToken, Between
  <2>2. CASE s # t
    <3>1. req'[s] = req[s]
      BY <2>2, DoneTurns DEF AnswerIssued, Turns
    <3> QED BY <1>2, <3>1 DEF AtHome, CarriedAtHome, KnownAtHome
  <2> QED BY <2>1, <2>2
<1> QED BY <1>6, <1>8 DEF AtHome

LEMMA HomeStep ==
  ASSUME SessionInv, NEW home, AtHome(home), [Next]_vars
  PROVE  \E new : AtHome(new)'
<1>1. CASE UNCHANGED vars
  BY <1>1 DEF vars, AtHome, CookiesAtHome, CarriedAtHome, KnownAtHome
<1>2. ASSUME NEW t \in Tabs, Login(t) PROVE \E new : AtHome(new)'
  BY <1>2, LoginHome
<1>3. ASSUME NEW t \in Tabs, IssueSession(t) \/ RotateSession(t) PROVE AtHome(home)'
  BY <1>3, IssueHome DEF IssueSession, RotateSession, jar
<1>4. ASSUME NEW t \in Tabs,
             \/ TurnedAway(t) \/ ReadReplayed(t) \/ ReadExpired(t) \/ RevokeFamily(t)
             \/ RevokePresented(t) \/ SendLogout(t) \/ Logout(t) \/ AnswerCleared(t)
             \/ StatementFails(t) \/ TabGivesUp(t)
      PROVE  AtHome(home)'
  <2>1. IssuesNothing
    BY <1>4, QuietHandler, ReplayStep
  <2>2. \A s \in Tabs : HomelyRequest(home, s)
    BY <1>4, HomelyStep
  <2> QED BY <2>1, <2>2, HomeKept DEF IssuesNothing, RowsOnlyDie, SameFamilies
<1>5. ASSUME NEW t \in Tabs, Refresh(t) \/ ReadFresh(t) PROVE AtHome(home)'
  <2>1. UNCHANGED <<tokens, cookie, logins>>
    BY <1>5 DEF Refresh, ReadFresh, jar
  <2>2. SameFamilies /\ CookiesOnlyGo(cookie, cookie')
    BY <2>1 DEF SameFamilies, CookiesOnlyGo
  <2>3. \A s \in Tabs : HomelyRequest(home, s)
    BY <1>5, HomelyStep
  <2> QED BY <2>1, <2>2, <2>3, HomeKept
<1>6. ASSUME NEW t \in Tabs, AnswerIssued(t) PROVE AtHome(home)'
  BY <1>6, AnswerHome
<1>7. ASSUME ServerDies PROVE AtHome(home)'
  <2>1. IssuesNothing
    BY <1>7, ServerDiesStep
  <2>2. \A s \in Tabs : HomelyRequest(home, s)
    BY <1>7 DEF ServerDies, HomelyRequest, Idle, Carries, Knows, HasToken, Between
  <2> QED BY <2>1, <2>2, HomeKept DEF IssuesNothing, RowsOnlyDie, SameFamilies
<1>8. ASSUME NEW u \in People, ResetPassword(u) PROVE AtHome(home)'
  <2>1. RowsOnlyDie(tokens, tokens') /\ UNCHANGED <<req, cookie, logins>>
    BY <1>8, RevokedRows DEF ResetPassword, SessionInv, jar
  <2>2. SameFamilies /\ CookiesOnlyGo(cookie, cookie') /\ \A s \in Tabs : HomelyRequest(home, s)
    BY <2>1 DEF RowsOnlyDie, SameFamilies, CookiesOnlyGo, HomelyRequest
  <2> QED BY <2>1, <2>2, HomeKept
<1>9. ASSUME NEW b \in Browsers, AccessExpires(b) PROVE AtHome(home)'
  BY <1>9 DEF AccessExpires, AtHome, CookiesAtHome, CarriedAtHome, KnownAtHome
<1>10. ASSUME NEW i \in DOMAIN tokens, RefreshTokenExpires(i) PROVE AtHome(home)'
  <2>1. IssuesNothing /\ UNCHANGED req
    BY <1>10, ExpiryStep DEF RefreshTokenExpires
  <2>2. \A s \in Tabs : HomelyRequest(home, s)
    BY <2>1 DEF HomelyRequest
  <2> QED BY <2>1, <2>2, HomeKept DEF IssuesNothing, RowsOnlyDie, SameFamilies
<1> QED BY <1>1, <1>2, <1>3, <1>4, <1>5, <1>6, <1>7, <1>8, <1>9, <1>10 DEF Next

-----------------------------------------------------------------------------
(* Bounds.                                                                 *)

RequestInRange(t) ==
  req[t].token <= Len(tokens) /\ req[t].family <= logins /\ req[t].opened <= MaxResets
RowsInRange ==
  Len(tokens) <= MaxTokens /\ \A i \in 1 .. Len(tokens) : tokens[i].opened <= MaxResets
NamesInRange ==
  calm \subseteq Browsers /\ forked \subseteq 1 .. logins /\ overtaken \subseteq 1 .. logins
Ranges ==
  /\ RowsInRange /\ NamesInRange
  /\ logins <= MaxLogins /\ mishaps \in 0 .. MaxMishaps
  /\ access \in [Browsers -> 0 .. Len(tokens)] /\ password \in [People -> 0 .. MaxResets]
  /\ \A t \in Tabs : RequestInRange(t)

LEMMA RangesType ==
  ASSUME SessionInv, Ranges
  PROVE  TypeOK
<1> DEFINE Row == [user : People, family : 1 .. logins, opened : 0 .. MaxResets,
                   revoked : BOOLEAN, expired : BOOLEAN]
<1>0. logins \in Nat /\ MaxResets \in Nat /\ MaxLogins \in Nat
  BY SessionsAssumption DEF SessionInv, Typed
<1>1. Len(tokens) \in Nat /\ DOMAIN tokens = 1 .. Len(tokens)
      /\ \A i \in 1 .. Len(tokens) : tokens[i] \in Token
  BY Domains DEF SessionInv
<1>2. ASSUME NEW i \in 1 .. Len(tokens) PROVE tokens[i] \in Row
  <2>1. tokens[i] \in Token /\ tokens[i].family \in 1 .. logins /\ tokens[i].opened <= MaxResets
    BY <1>1 DEF SessionInv, Numbered, Ranges, RowsInRange
  <2>2. tokens[i].opened \in 0 .. MaxResets
    BY <1>0, <2>1 DEF Token
  <2> QED BY <2>1, <2>2 DEF Token
<1>3. tokens \in Seq(Row)
  <2> HIDE DEF Row
  <2>1. tokens = [i \in 1 .. Len(tokens) |-> tokens[i]]
    BY <1>1 DEF SessionInv, Typed
  <2>2. [i \in 1 .. Len(tokens) |-> tokens[i]] \in Seq(Row)
    BY <1>1, <1>2
  <2> QED BY <2>1, <2>2
<1>4. ASSUME NEW t \in Tabs
      PROVE  req[t] \in [at : Working \cup {"idle", "turned away"}, token : 0 .. Len(tokens),
                         family : 0 .. logins, opened : 0 .. MaxResets, heard : BOOLEAN]
  <2>1. req[t] \in Request /\ RequestInRange(t)
    BY DEF SessionInv, Typed, Ranges
  <2>2. /\ req[t].token \in 0 .. Len(tokens) /\ req[t].family \in 0 .. logins
        /\ req[t].opened \in 0 .. MaxResets
    <3>1. req[t].token \in Nat /\ req[t].family \in Nat /\ req[t].opened \in Nat
      BY <2>1 DEF Request
    <3>2. req[t].token <= Len(tokens) /\ req[t].family <= logins /\ req[t].opened <= MaxResets
      BY <2>1 DEF RequestInRange
    <3> QED BY <1>0, <1>1, <3>1, <3>2
  <2> QED BY <2>1, <2>2 DEF Request
<1>5. req \in [Tabs -> [at : Working \cup {"idle", "turned away"}, token : 0 .. Len(tokens),
                        family : 0 .. logins, opened : 0 .. MaxResets, heard : BOOLEAN]]
  BY <1>4 DEF SessionInv, Typed
<1>6. /\ Len(tokens) <= MaxTokens /\ calm \subseteq Browsers
      /\ forked \subseteq 1 .. logins /\ overtaken \subseteq 1 .. logins
      /\ mishaps \in 0 .. MaxMishaps /\ cookie \in [Browsers -> 0 .. Len(tokens)]
      /\ access \in [Browsers -> 0 .. Len(tokens)] /\ password \in [People -> 0 .. MaxResets]
  BY DEF Ranges, RowsInRange, NamesInRange, SessionInv, Typed
<1>7. logins \in 0 .. MaxLogins
  BY <1>0 DEF Ranges
<1> HIDE DEF Row
<1> QED BY <1>3, <1>5, <1>6, <1>7 DEF TypeOK, Row

LEMMA TurnInRange ==
  ASSUME \A s \in Tabs : RequestInRange(s), NEW t \in Tabs,
         NEW at, NEW token, NEW family, NEW opened, NEW heard,
         Turns(t, at, token, family, opened, heard),
         Len(tokens) \in Nat, Len(tokens') \in Nat, Len(tokens) <= Len(tokens'),
         logins \in Nat, logins' \in Nat, logins <= logins', req \in [Tabs -> Request],
         token <= Len(tokens'), family <= logins', opened <= MaxResets
  PROVE  \A s \in Tabs : RequestInRange(s)'
<1>1. RequestInRange(t)'
  BY DEF Turns, Asks, RequestInRange
<1>2. ASSUME NEW s \in Tabs \ {t} PROVE RequestInRange(s)'
  <2>1. req'[s] = req[s] /\ RequestInRange(s) /\ req[s] \in Request
    BY DEF Turns
  <2>2. req[s].token \in Nat /\ req[s].family \in Nat
    BY <2>1 DEF Request
  <2>3. req[s].token <= Len(tokens') /\ req[s].family <= logins' /\ req[s].opened <= MaxResets
    BY <2>1, <2>2 DEF RequestInRange
  <2> QED BY <2>1, <2>3 DEF RequestInRange
<1> QED BY <1>1, <1>2

InTheTable == SessionInv /\ SessionInv' /\ Ranges

LEMMA Lengths ==
  ASSUME InTheTable
  PROVE  /\ Len(tokens) \in Nat /\ Len(tokens') \in Nat /\ logins \in Nat /\ logins' \in Nat
         /\ req \in [Tabs -> Request] /\ \A s \in Tabs : RequestInRange(s)
         /\ 0 <= Len(tokens) /\ 0 <= Len(tokens') /\ 0 <= logins /\ 0 <= logins'
         /\ MaxResets \in Nat /\ 0 <= MaxResets
<1>1. Len(tokens') \in Nat
  BY LenProperties DEF InTheTable, SessionInv, Typed
<1> QED BY <1>1, Domains, SessionsAssumption DEF InTheTable, SessionInv, Typed, Ranges

(* A tab's handler that adds no row. *)
LEMMA QuietInRange ==
  ASSUME InTheTable, NEW t \in Tabs, RowsOnlyDie(tokens, tokens'), UNCHANGED logins,
         \/ TurnedAway(t) \/ Refresh(t) \/ ReadFresh(t) \/ ReadReplayed(t) \/ ReadExpired(t)
         \/ RevokeFamily(t) \/ RevokePresented(t) \/ SendLogout(t) \/ Logout(t)
         \/ AnswerIssued(t) \/ AnswerCleared(t) \/ StatementFails(t) \/ TabGivesUp(t)
  PROVE  \A s \in Tabs : RequestInRange(s)'
<1>0. SessionInv /\ Len(tokens') = Len(tokens) /\ RequestInRange(t) /\ Browser[t] \in Browsers
  BY Homes DEF InTheTable, RowsOnlyDie, Ranges
<1>1. ASSUME NEW at, NEW heard, Turns(t, at, 0, 0, 0, heard)
      PROVE  \A s \in Tabs : RequestInRange(s)'
  BY <1>0, <1>1, Lengths, TurnInRange
<1>2. ASSUME NEW at, NEW heard, NEW c \in 0 .. Len(tokens), Turns(t, at, c, 0, 0, heard)
      PROVE  \A s \in Tabs : RequestInRange(s)'
  BY <1>0, <1>2, Lengths, TurnInRange
<1>3. ASSUME NEW at, NEW heard,
             Turns(t, at, req[t].token, req[t].family, req[t].opened, heard)
      PROVE  \A s \in Tabs : RequestInRange(s)'
  <2>1. req[t].token <= Len(tokens') /\ req[t].family <= logins' /\ req[t].opened <= MaxResets
    BY <1>0 DEF RequestInRange
  <2> QED BY <1>0, <1>3, <2>1, Lengths, TurnInRange
<1>4. ASSUME NEW at, Found(t, at), req[t].at = "sent"
      PROVE  \A s \in Tabs : RequestInRange(s)'
  <2> DEFINE n == req[t].token
  <2>1. Turns(t, at, n, tokens[n].family, tokens[n].opened, req[t].heard)
    BY <1>0, <1>4, FoundTurns
  <2>2. n \in 1 .. Len(tokens)
    BY <1>0, <1>4 DEF SessionInv, TokensStayAtHome, HasToken
  <2>3. tokens[n].family \in 1 .. logins /\ tokens[n].opened <= MaxResets
    BY <1>0, <2>2 DEF SessionInv, Numbered, InTheTable, Ranges, RowsInRange
  <2>4. n <= Len(tokens') /\ tokens[n].family <= logins'
    BY <1>0, <2>2, <2>3, Lengths
  <2> HIDE DEF n
  <2> QED BY <1>0, <2>1, <2>3, <2>4, Lengths, TurnInRange
<1>5. CASE ReadFresh(t) \/ ReadReplayed(t)
  BY <1>4, <1>5 DEF ReadFresh, ReadReplayed
<1>6. CASE TurnedAway(t) \/ RevokePresented(t)
  BY <1>0, <1>3, <1>6, BecomesTurns DEF TurnedAway, RevokePresented, Kept
<1>7. CASE TabGivesUp(t)
  BY <1>0, <1>3, <1>7, UnheardTurns
<1>8. cookie[Browser[t]] \in 0 .. Len(tokens)
  BY <1>0 DEF SessionInv, Typed
<1>9. CASE Refresh(t)
  BY <1>0, <1>1, <1>2, <1>8, <1>9, RefreshTurns
<1>10. CASE SendLogout(t)
  BY <1>0, <1>2, <1>8, <1>10, LogoutTurns
<1>11. CASE ReadExpired(t) \/ RevokeFamily(t) \/ Logout(t)
  BY <1>0, <1>1, <1>11, EndsTurns DEF ReadExpired, RevokeFamily, Logout
<1>12. CASE AnswerIssued(t) \/ AnswerCleared(t)
  BY <1>0, <1>1, <1>12, DoneTurns DEF AnswerIssued, AnswerCleared
<1>13. CASE StatementFails(t)
  BY <1>0, <1>1, <1>13, AnswerTurns
<1> QED BY <1>5, <1>6, <1>7, <1>9, <1>10, <1>11, <1>12, <1>13

(* The rest of the ranges, when no row is added and no login begun. *)
LEMMA RangesKept ==
  ASSUME InTheTable, RowsOnlyDie(tokens, tokens'), UNCHANGED <<logins, password>>,
         access' \in [Browsers -> 0 .. Len(tokens)], mishaps' \in 0 .. MaxMishaps,
         NamesInRange', \A s \in Tabs : RequestInRange(s)'
  PROVE  Ranges'
<1>1. RowsInRange'
  BY DEF InTheTable, Ranges, RowsInRange, RowsOnlyDie
<1> QED BY <1>1 DEF InTheTable, Ranges, RowsOnlyDie

LEMMA RangesStep ==
  ASSUME InTheTable, [Next]_vars
  PROVE  Ranges'
<1>0. SessionInv /\ SessionInv' /\ Ranges /\ MaxMishaps \in Nat /\ MaxResets \in Nat
  BY SessionsAssumption DEF InTheTable
<1>1. CASE UNCHANGED vars
  BY <1>0, <1>1 DEF vars, Ranges, RowsInRange, NamesInRange, RequestInRange
<1>2. ASSUME NEW t \in Tabs, Login(t) PROVE Ranges'
  <2>1. Turns(t, "checking", 0, logins + 1, password[User[Browser[t]]], TRUE)
    BY <1>0, <1>2, LoginTurns
  <2>2. password[User[Browser[t]]] <= MaxResets
    BY <1>0, Homes DEF Ranges
  <2>3. UNCHANGED <<tokens, access, password, mishaps, forked, overtaken>> /\ logins' = logins + 1
        /\ calm' \subseteq calm
    BY <1>2 DEF Login, jar
  <2>4. \A s \in Tabs : RequestInRange(s)'
    <3>1. 0 <= Len(tokens') /\ Len(tokens) <= Len(tokens')
          /\ logins <= logins' /\ logins + 1 <= logins'
      BY <2>3, Lengths
    <3> QED BY <2>1, <2>2, <3>1, Lengths, TurnInRange
  <2>5. logins' <= MaxLogins
    BY <1>2, Lengths, SessionsAssumption DEF Login
  <2>6. NamesInRange'
    BY <1>0, <2>3, Lengths DEF Ranges, NamesInRange
  <2>7. RowsInRange'
    BY <1>0, <2>3 DEF Ranges, RowsInRange
  <2> QED BY <1>0, <2>3, <2>4, <2>5, <2>6, <2>7 DEF Ranges
<1>3. ASSUME NEW t \in Tabs, IssueSession(t) \/ RotateSession(t) PROVE Ranges'
  <2>1. CreateSession(t)
    BY <1>3 DEF IssueSession, RotateSession
  <2>2. UNCHANGED <<access, password, mishaps, calm, forked, overtaken, logins>>
    BY <1>3 DEF IssueSession, RotateSession, jar
  <2>3. Turns(t, "issued", Len(tokens) + 1, req[t].family, req[t].opened, req[t].heard)
    BY <1>0, <2>1, CreateTurns
  <2>4. /\ Len(tokens') = Len(tokens) + 1
        /\ \A i \in 1 .. Len(tokens) + 1 :
             tokens'[i] = IF i <= Len(tokens) THEN tokens[i] ELSE Issued(t)
    BY <1>0, <2>1, Appended
  <2>5. RequestInRange(t)
    BY <1>0 DEF Ranges
  <2>6. \A s \in Tabs : RequestInRange(s)'
    BY <2>2, <2>3, <2>4, <2>5, Lengths, TurnInRange DEF RequestInRange
  <2>7. Len(tokens') <= MaxTokens
    BY <2>1, <2>4, Lengths, SessionsAssumption DEF CreateSession
  <2>8. Issued(t).opened <= MaxResets
    BY <2>5 DEF Issued, RequestInRange
  <2>9. ASSUME NEW i \in 1 .. Len(tokens') PROVE tokens'[i].opened <= MaxResets
    <3>1. CASE i <= Len(tokens)
      <4>1. i \in 1 .. Len(tokens) /\ tokens'[i] = tokens[i]
        BY <2>4, <3>1, Lengths
      <4> QED BY <1>0, <4>1 DEF Ranges, RowsInRange
    <3>2. CASE ~(i <= Len(tokens))
      BY <2>4, <2>8, <3>2
    <3> QED BY <3>1, <3>2
  <2>10. RowsInRange'
    BY <2>7, <2>9 DEF RowsInRange
  <2>11. access' \in [Browsers -> 0 .. Len(tokens')]
    <3>1. 0 .. Len(tokens) \subseteq 0 .. Len(tokens')
      BY <2>4, Lengths
    <3> QED BY <1>0, <2>2, <3>1 DEF Ranges
  <2> QED BY <1>0, <2>2, <2>6, <2>10, <2>11 DEF Ranges, NamesInRange
<1>4. ASSUME NEW t \in Tabs,
             \/ TurnedAway(t) \/ Refresh(t) \/ ReadFresh(t) \/ ReadReplayed(t) \/ ReadExpired(t)
             \/ RevokeFamily(t) \/ RevokePresented(t) \/ SendLogout(t) \/ Logout(t)
             \/ AnswerIssued(t) \/ AnswerCleared(t) \/ StatementFails(t) \/ TabGivesUp(t)
      PROVE  Ranges'
  <2>1. RowsOnlyDie(tokens, tokens') /\ UNCHANGED <<logins, password>>
    <3>1. CASE Refresh(t) \/ ReadFresh(t) \/ AnswerIssued(t)
      BY <3>1 DEF Refresh, ReadFresh, AnswerIssued, RowsOnlyDie
    <3>2. CASE ~(Refresh(t) \/ ReadFresh(t) \/ AnswerIssued(t))
      <4>1. IssuesNothing
        BY <1>0, <1>4, <3>2, QuietHandler, ReplayStep
      <4> QED BY <4>1 DEF IssuesNothing
    <3> QED BY <3>1, <3>2
  <2>2. \A s \in Tabs : RequestInRange(s)'
    BY <1>4, <2>1, QuietInRange
  <2>3. Browser[t] \in Browsers
    BY Homes
  <2>4. mishaps' \in 0 .. MaxMishaps
    <3>1. mishaps' = mishaps \/ (mishaps < MaxMishaps /\ mishaps' = mishaps + 1)
      BY <1>4 DEF TurnedAway, Refresh, ReadFresh, ReadReplayed, ReadExpired, RevokeFamily,
         RevokePresented, SendLogout, Logout, AnswerIssued, AnswerCleared, StatementFails,
         TabGivesUp
    <3> QED BY <1>0, <3>1 DEF Ranges
  <2>5. overtaken' = overtaken /\ calm' \subseteq calm \cup {Browser[t]}
    BY <1>4 DEF TurnedAway, Refresh, ReadFresh, ReadReplayed, ReadExpired, RevokeFamily,
       RevokePresented, SendLogout, Logout, AnswerIssued, AnswerCleared, StatementFails,
       TabGivesUp
  <2>6. forked' \subseteq 1 .. logins
    <3>1. CASE ReadFresh(t)
      <4>1. tokens[req[t].token].family \in 1 .. logins
        BY <1>0, <3>1 DEF ReadFresh, SessionInv, Numbered, TokensStayAtHome, HasToken
      <4> QED BY <1>0, <3>1, <4>1 DEF ReadFresh, Ranges, NamesInRange
    <3>2. CASE ~ReadFresh(t)
      <4>1. forked' = forked
        BY <1>4, <3>2 DEF TurnedAway, Refresh, ReadReplayed, ReadExpired, RevokeFamily,
           RevokePresented, SendLogout, Logout, AnswerIssued, AnswerCleared, StatementFails,
           TabGivesUp
      <4> QED BY <1>0, <4>1 DEF Ranges, NamesInRange
    <3> QED BY <3>1, <3>2
  <2>7. NamesInRange'
    BY <1>0, <2>1, <2>3, <2>5, <2>6 DEF Ranges, NamesInRange
  <2>8. access' \in [Browsers -> 0 .. Len(tokens)]
    <3>1. CASE AnswerIssued(t)
      <4>1. req[t].token \in 1 .. Len(tokens)
        BY <1>0, <3>1 DEF AnswerIssued, SessionInv, TokensStayAtHome, HasToken
      <4>2. req[t].token \in 0 .. Len(tokens)
        BY <4>1, Lengths
      <4> QED BY <1>0, <3>1, <4>2 DEF AnswerIssued, SetCookies, jar, Ranges
    <3>2. CASE AnswerCleared(t)
      <4>1. 0 \in 0 .. Len(tokens)
        BY Lengths
      <4> QED BY <1>0, <3>2, <4>1 DEF AnswerCleared, SetCookies, jar, Ranges
    <3>3. CASE ~(AnswerIssued(t) \/ AnswerCleared(t))
      <4>1. access' = access
        BY <1>4, <3>3 DEF TurnedAway, Refresh, ReadFresh, ReadReplayed, ReadExpired,
           RevokeFamily, RevokePresented, SendLogout, Logout, StatementFails, TabGivesUp, jar
      <4> QED BY <1>0, <4>1 DEF Ranges
    <3> QED BY <3>1, <3>2, <3>3
  <2> QED BY <2>1, <2>2, <2>4, <2>7, <2>8, RangesKept
<1>5. ASSUME ServerDies PROVE Ranges'
  <2>1. IssuesNothing
    BY <1>0, <1>5, ServerDiesStep
  <2>2. ASSUME NEW s \in Tabs PROVE RequestInRange(s)'
    <3>1. req'[s] = req[s] \/ req'[s] = Idle
      BY <1>5 DEF ServerDies
    <3>2. CASE req'[s] = req[s]
      BY <2>1, <3>2, Lengths DEF IssuesNothing, RowsOnlyDie, RequestInRange
    <3>3. CASE req'[s] = Idle
      BY <3>3, Lengths DEF RequestInRange, Idle
    <3> QED BY <3>1, <3>2, <3>3
  <2>3. UNCHANGED <<access, forked, overtaken, logins, password>> /\ calm' \subseteq calm
        /\ mishaps < MaxMishaps /\ mishaps' = mishaps + 1
    BY <1>5 DEF ServerDies, jar
  <2> QED BY <1>0, <2>1, <2>2, <2>3, RangesKept DEF IssuesNothing, Ranges, NamesInRange
<1>6. ASSUME NEW u \in People, ResetPassword(u) PROVE Ranges'
  <2>1. RowsOnlyDie(tokens, tokens')
    BY <1>0, <1>6, RevokedRows DEF ResetPassword, SessionInv
  <2>2. UNCHANGED <<access, req, logins, forked, mishaps>> /\ calm' \subseteq calm
        /\ overtaken' \subseteq overtaken \cup 1 .. logins
    BY <1>6 DEF ResetPassword, jar
  <2>3. password' \in [People -> 0 .. MaxResets]
    BY <1>0, <1>6 DEF ResetPassword, Ranges
  <2>4. RowsInRange'
    BY <1>0, <2>1 DEF Ranges, RowsInRange, RowsOnlyDie
  <2>5. \A s \in Tabs : RequestInRange(s)'
    BY <1>0, <2>1, <2>2 DEF Ranges, RequestInRange, RowsOnlyDie
  <2>6. NamesInRange'
    BY <1>0, <2>2 DEF Ranges, NamesInRange
  <2> QED BY <1>0, <2>1, <2>2, <2>3, <2>4, <2>5, <2>6 DEF Ranges, RowsOnlyDie
<1>7. ASSUME NEW b \in Browsers, AccessExpires(b) PROVE Ranges'
  <2>1. UNCHANGED <<tokens, req, logins, password, forked, overtaken, mishaps, calm>>
    BY <1>7 DEF AccessExpires
  <2>2. access' \in [Browsers -> 0 .. Len(tokens)]
    BY <1>0, <1>7, Lengths DEF AccessExpires, Ranges
  <2> QED BY <1>0, <2>1, <2>2 DEF Ranges, RowsInRange, NamesInRange, RequestInRange
<1>8. ASSUME NEW i \in DOMAIN tokens, RefreshTokenExpires(i) PROVE Ranges'
  <2>1. IssuesNothing
    BY <1>0, <1>8, ExpiryStep
  <2>2. UNCHANGED <<access, req, forked, overtaken>> /\ calm' \subseteq calm
        /\ mishaps < MaxMishaps /\ mishaps' = mishaps + 1
    BY <1>8 DEF RefreshTokenExpires
  <2>3. \A s \in Tabs : RequestInRange(s)'
    BY <1>0, <2>1, <2>2 DEF Ranges, RequestInRange, IssuesNothing, RowsOnlyDie
  <2> QED BY <1>0, <2>1, <2>2, <2>3, RangesKept DEF IssuesNothing, Ranges, NamesInRange
<1> QED BY <1>1, <1>2, <1>3, <1>4, <1>5, <1>6, <1>7, <1>8 DEF Next

LEMMA RangesInit ==
  ASSUME Init
  PROVE  Ranges
<1>1. Len(tokens) = 0
  BY DEF Init
<1> QED BY <1>1, SessionsAssumption
        DEF Init, Ranges, RowsInRange, NamesInRange, RequestInRange, Idle

-----------------------------------------------------------------------------
(* Undisturbed browsers.                                                   *)

Works(b, t) == Browser[t] = b /\ req[t].at \in Working
Started(t) == req[t].at \in {"sent", "fresh"}
Good(i) == i \in 1 .. Len(tokens) /\ Live(i)

(* At most one request is under way, a refresh: with the browser's own     *)
(* token until the row is revoked, with a live one when it is answered.    *)
(* Unless it is past that revocation the cookie is live.                   *)
CalmRequest(b, t) ==
  /\ req[t].heard /\ req[t].at \in {"sent", "fresh", "rotating", "issued"}
  /\ Started(t) => req[t].token = cookie[b]
  /\ req[t].at = "issued" => Good(req[t].token)
CalmOne(b) ==
  /\ access[b] \in {0, cookie[b]}
  /\ \A t, s \in Tabs : Works(b, t) /\ Works(b, s) => t = s
  /\ \A t \in Tabs : Works(b, t) => CalmRequest(b, t)
  /\ (\A t \in Tabs : Works(b, t) => Started(t)) => Good(cookie[b])
AllCalm == \A b \in calm : CalmOne(b)

(* The tokens a browser has in its cookie or in its requests. *)
Holds(b, i) ==
  \/ cookie[b] = i
  \/ \E t \in Tabs : Works(b, t) /\ req[t].at \in HasToken /\ req[t].token = i

SameRequest(b, t) ==
  Browser[t] = b => req'[t] = req[t] \/ (req[t].at \notin Working /\ req'[t].at \notin Working)

LEMMA CalmKept ==
  ASSUME NEW b, CalmOne(b), \A t \in Tabs : SameRequest(b, t),
         cookie'[b] = cookie[b], access'[b] \in {0, access[b]},
         \A i : Holds(b, i) /\ Good(i) => Good(i)'
  PROVE  CalmOne(b)'
<1>1. \A t \in Tabs : (Works(b, t)' <=> Works(b, t)) /\ (Works(b, t) => req'[t] = req[t])
  BY DEF SameRequest, Works
<1>2. ASSUME NEW t \in Tabs, Works(b, t) PROVE CalmRequest(b, t)'
  <2>1. CalmRequest(b, t) /\ req'[t] = req[t]
    BY <1>1, <1>2 DEF CalmOne
  <2>2. req[t].at = "issued" => Good(req[t].token)'
    BY <1>2, <2>1 DEF CalmRequest, Holds, HasToken
  <2> QED BY <2>1, <2>2 DEF CalmRequest, Started
<1>3. (\A t \in Tabs : Works(b, t)' => Started(t)') => Good(cookie[b])'
  <2>1. \A t \in Tabs : Works(b, t) => (Started(t)' <=> Started(t))
    BY <1>1 DEF Started
  <2>2. Good(cookie[b]) => Good(cookie[b])'
    BY DEF Holds
  <2> QED BY <1>1, <2>1, <2>2 DEF CalmOne
<1>4. access'[b] \in {0, cookie'[b]}
  BY DEF CalmOne
<1>5. \A t, s \in Tabs : Works(b, t)' /\ Works(b, s)' => t = s
  BY <1>1 DEF CalmOne
<1> QED
  <2>1. \A t \in Tabs : Works(b, t)' => CalmRequest(b, t)'
    BY <1>1, <1>2
  <2> QED BY <1>3, <1>4, <1>5, <2>1 DEF CalmOne

(* Its tokens are of families of its own, and of its user. *)
LEMMA HeldAtHome ==
  ASSUME SessionInv, NEW home, AtHome(home), NEW b \in Browsers, NEW i, Holds(b, i), Good(i)
  PROVE  home[tokens[i].family] = b /\ tokens[i].user = User[b]
<1>1. i # 0
  BY Domains DEF SessionInv, Good
<1>2. CASE cookie[b] = i
  BY <1>1, <1>2 DEF AtHome, CookiesAtHome, SessionInv, TokensStayAtHome
<1>3. CASE \E t \in Tabs : Works(b, t) /\ req[t].at \in HasToken /\ req[t].token = i
  <2>1. PICK t \in Tabs : Works(b, t) /\ req[t].at \in HasToken /\ req[t].token = i
    BY <1>3
  <2> QED BY <1>1, <2>1 DEF Works, AtHome, CarriedAtHome, Carries, SessionInv, TokensStayAtHome
<1> QED BY <1>2, <1>3 DEF Holds

LEMMA Spared ==
  ASSUME SessionInv, NEW which, tokens' = Revoked(which), NEW i, Good(i), i \notin which
  PROVE  Good(i)'
<1>1. i \in 1 .. Len(tokens) /\ i \in DOMAIN tokens /\ tokens[i] \in Token
  BY Domains DEF SessionInv, Good
<1>2. tokens'[i] = [tokens[i] EXCEPT !.revoked = @ \/ i \in which]
  BY <1>1 DEF Revoked
<1>3. Len(tokens') = Len(tokens)
  BY RevokedRows DEF SessionInv, RowsOnlyDie
<1>4. ~tokens'[i].revoked /\ ~tokens'[i].expired
  BY <1>1, <1>2 DEF Token, Good, Live
<1> QED BY <1>1, <1>3, <1>4 DEF Good, Live

(* Another browser's handler revokes tokens of its own families only. *)
LEMMA NeighbourSpares ==
  ASSUME SessionInv, NEW home, AtHome(home), NEW t \in Tabs,
         \/ RevokeFamily(t) \/ RevokePresented(t) \/ Logout(t),
         NEW b \in Browsers, b # Browser[t], NEW i, Holds(b, i), Good(i)
  PROVE  Good(i)'
<1>1. home[tokens[i].family] = b /\ i # 0 /\ i \in DOMAIN tokens
  BY HeldAtHome, Domains DEF SessionInv, Good
<1>2. CASE RevokeFamily(t)
  <2>1. home[req[t].family] = Browser[t]
    BY <1>2 DEF RevokeFamily, AtHome, KnownAtHome, Knows
  <2>2. i \notin InFamily(req[t].family)
    BY <1>1, <2>1 DEF InFamily
  <2> QED BY <1>2, <2>2, Spared DEF RevokeFamily
<1>3. CASE RevokePresented(t) \/ Logout(t)
  <2>1. req[t].token # 0 => home[tokens[req[t].token].family] = Browser[t]
    BY <1>3 DEF RevokePresented, Logout, AtHome, CarriedAtHome, Carries, HasToken
  <2>2. i \notin {req[t].token}
    BY <1>1, <2>1
  <2> QED BY <1>3, <2>2, Spared DEF RevokePresented, Logout
<1> QED BY <1>2, <1>3

LEMMA NewRowSpares ==
  ASSUME SessionInv, NEW t \in Tabs, CreateSession(t), NEW i, Good(i)
  PROVE  Good(i)'
<1>1. Len(tokens) \in Nat
  BY Domains DEF SessionInv
<1>2. i \in 1 .. Len(tokens) + 1 /\ i <= Len(tokens)
  BY <1>1 DEF Good
<1>3. tokens'[i] = tokens[i] /\ Len(tokens') = Len(tokens) + 1
  BY <1>2, Appended
<1> QED BY <1>2, <1>3 DEF Good, Live

TabStep(t) ==
  \/ Login(t) \/ IssueSession(t) \/ TurnedAway(t) \/ Refresh(t)
  \/ ReadFresh(t) \/ ReadReplayed(t) \/ ReadExpired(t)
  \/ RevokeFamily(t) \/ RevokePresented(t) \/ RotateSession(t)
  \/ SendLogout(t) \/ Logout(t) \/ AnswerIssued(t) \/ AnswerCleared(t)
  \/ StatementFails(t) \/ TabGivesUp(t)

(* A handler touches its own tab's request and its own browser's cookies. *)
LEMMA OnlyItsOwn ==
  ASSUME SessionInv, Ranges, NEW t \in Tabs, TabStep(t)
  PROVE  /\ \A s \in Tabs \ {t} : req'[s] = req[s]
         /\ \A b \in Browsers \ {Browser[t]} : cookie'[b] = cookie[b] /\ access'[b] = access[b]
<1>1. req \in [Tabs -> Request] /\ cookie \in [Browsers -> 0 .. Len(tokens)]
      /\ access \in [Browsers -> 0 .. Len(tokens)]
  BY DEF SessionInv, Typed, Ranges
<1>2. CASE AnswerIssued(t) \/ AnswerCleared(t)
  BY <1>1, <1>2 DEF AnswerIssued, AnswerCleared, Done, SetCookies, jar
<1>3. CASE ~(AnswerIssued(t) \/ AnswerCleared(t))
  <2>1. UNCHANGED <<cookie, access>>
    BY <1>3 DEF TabStep, Login, IssueSession, TurnedAway, Refresh, ReadFresh, ReadReplayed,
       ReadExpired, RevokeFamily, RevokePresented, RotateSession, SendLogout, Logout,
       StatementFails, TabGivesUp, jar
  <2>2. \A s \in Tabs \ {t} : req'[s] = req[s]
    BY <1>1, <1>3 DEF TabStep, Login, IssueSession, TurnedAway, Refresh, ReadFresh, ReadReplayed,
       ReadExpired, RevokeFamily, RevokePresented, RotateSession, SendLogout, Logout,
       StatementFails, TabGivesUp, CreateSession, Becomes, Found, Ends, Done
  <2> QED BY <2>1, <2>2
<1> QED BY <1>2, <1>3

LEMMA CalmNeighbour ==
  ASSUME SessionInv, Ranges, NEW home, AtHome(home), NEW t \in Tabs, TabStep(t),
         NEW b \in Browsers, b # Browser[t], CalmOne(b)
  PROVE  CalmOne(b)'
<1>1. cookie'[b] = cookie[b] /\ access'[b] \in {0, access[b]} /\ \A s \in Tabs : SameRequest(b, s)
  BY OnlyItsOwn DEF SameRequest
<1>2. ASSUME NEW i, Holds(b, i), Good(i) PROVE Good(i)'
  <2>1. CASE IssueSession(t) \/ RotateSession(t)
    BY <1>2, <2>1, NewRowSpares DEF IssueSession, RotateSession
  <2>2. CASE RevokeFamily(t) \/ RevokePresented(t) \/ Logout(t)
    BY <1>2, <2>2, NeighbourSpares
  <2>3. CASE /\ ~(IssueSession(t) \/ RotateSession(t))
             /\ ~(RevokeFamily(t) \/ RevokePresented(t) \/ Logout(t))
    <3>1. UNCHANGED tokens
      BY <2>3 DEF TabStep, Login, TurnedAway, Refresh, ReadFresh, ReadReplayed, ReadExpired,
         SendLogout, AnswerIssued, AnswerCleared, StatementFails, TabGivesUp
    <3> QED BY <1>2, <3>1 DEF Good, Live
  <2> QED BY <2>1, <2>2, <2>3
<1> QED BY <1>1, <1>2, CalmKept

(* Its own tabs: the request that is under way goes on as it should. *)
LEMMA CalmWork ==
  ASSUME SessionInv, NEW t \in Tabs, CalmOne(Browser[t]), req[t].at \in Working
  PROVE  /\ CalmRequest(Browser[t], t)
         /\ \A s \in Tabs : Works(Browser[t], s) => s = t
         /\ Started(t) => Good(cookie[Browser[t]])
<1>1. Works(Browser[t], t)
  BY DEF Works
<1> QED BY <1>1 DEF CalmOne

(* It alone is at work afterwards. *)
LEMMA CalmAlone ==
  ASSUME NEW t \in Tabs, NEW b, b = Browser[t],
         \A s \in Tabs : Works(b, s) => s = t, \A s \in Tabs \ {t} : req'[s] = req[s],
         access'[b] \in {0, cookie'[b]},
         req'[t].at \in Working => CalmRequest(b, t)',
         (req'[t].at \in Working => Started(t)') => Good(cookie[b])'
  PROVE  CalmOne(b)'
<1>1. \A s \in Tabs : Works(b, s)' => s = t
  BY DEF Works
<1>2. Works(b, t)' <=> req'[t].at \in Working
  BY DEF Works
<1> QED BY <1>1, <1>2 DEF CalmOne

LEMMA CalmRefresh ==
  ASSUME SessionInv, Ranges, NEW t \in Tabs, NEW b, b = Browser[t], CalmOne(b),
         Refresh(t), b \in calm'
  PROVE  CalmOne(b)'
<1>1. Busy(b) = {} /\ UNCHANGED <<tokens, cookie, access>>
  BY DEF Refresh, jar
<1>2. \A s \in Tabs : ~Works(b, s)
  BY <1>1 DEF Busy, Works
<1>3. Good(cookie[b])
  BY <1>2 DEF CalmOne
<1>4. cookie[b] # 0
  BY <1>3, Domains DEF SessionInv, Good
<1>5. Turns(t, "sent", cookie[b], 0, 0, TRUE)
  BY <1>4, RefreshTurns
<1>6. CalmRequest(b, t)' /\ Started(t)'
  BY <1>1, <1>5 DEF Turns, Asks, CalmRequest, Started
<1>7. access'[b] \in {0, cookie'[b]} /\ Good(cookie[b])'
  BY <1>1, <1>3 DEF CalmOne, Good, Live
<1>8. \A s \in Tabs \ {t} : req'[s] = req[s]
  BY <1>5 DEF Turns
<1> QED BY <1>2, <1>6, <1>7, <1>8, CalmAlone

LEMMA CalmRead ==
  ASSUME SessionInv, Ranges, NEW t \in Tabs, NEW b, b = Browser[t], CalmOne(b), ReadFresh(t)
  PROVE  CalmOne(b)'
<1>1. UNCHANGED <<tokens, cookie, access>> /\ req[t].at = "sent"
  BY DEF ReadFresh, jar
<1>2. /\ CalmRequest(b, t) /\ \A s \in Tabs : Works(b, s) => s = t
      /\ Good(cookie[b]) /\ Started(t)
  BY <1>1, CalmWork DEF Working, Started
<1>3. Turns(t, "fresh", req[t].token, tokens[req[t].token].family,
            tokens[req[t].token].opened, req[t].heard)
  BY FoundTurns DEF ReadFresh
<1>4. CalmRequest(b, t)' /\ Started(t)'
  BY <1>1, <1>2, <1>3 DEF Turns, Asks, CalmRequest, Started
<1>5. access'[b] \in {0, cookie'[b]} /\ Good(cookie[b])'
  BY <1>1, <1>2 DEF CalmOne, Good, Live
<1>6. \A s \in Tabs \ {t} : req'[s] = req[s]
  BY <1>3 DEF Turns
<1> QED BY <1>2, <1>4, <1>5, <1>6, CalmAlone

LEMMA CalmRevoke ==
  ASSUME SessionInv, Ranges, NEW t \in Tabs, NEW b, b = Browser[t], CalmOne(b), RevokePresented(t)
  PROVE  CalmOne(b)'
<1>1. UNCHANGED <<cookie, access>> /\ req[t].at = "fresh"
  BY DEF RevokePresented, jar
<1>2. CalmRequest(b, t) /\ \A s \in Tabs : Works(b, s) => s = t
  BY <1>1, CalmWork DEF Working
<1>3. Kept(t, "rotating")
  BY BecomesTurns DEF RevokePresented
<1>4. CalmRequest(b, t)' /\ ~Started(t)' /\ req'[t].at \in Working
  BY <1>2, <1>3 DEF Kept, Turns, Asks, CalmRequest, Started, Working
<1>5. access'[b] \in {0, cookie'[b]}
  BY <1>1 DEF CalmOne
<1>6. \A s \in Tabs \ {t} : req'[s] = req[s]
  BY <1>3 DEF Kept, Turns
<1> QED BY <1>2, <1>4, <1>5, <1>6, CalmAlone

LEMMA CalmRotate ==
  ASSUME SessionInv, Ranges, NEW t \in Tabs, NEW b, b = Browser[t], CalmOne(b), RotateSession(t)
  PROVE  CalmOne(b)'
<1> DEFINE n == Len(tokens) + 1
<1>1. UNCHANGED <<cookie, access>> /\ req[t].at = "rotating" /\ CreateSession(t)
  BY DEF RotateSession, jar
<1>2. CalmRequest(b, t) /\ \A s \in Tabs : Works(b, s) => s = t
  BY <1>1, CalmWork DEF Working
<1>3. Turns(t, "issued", n, req[t].family, req[t].opened, req[t].heard)
  BY <1>1, CreateTurns
<1>4. n \in 1 .. Len(tokens') /\ tokens'[n] = Issued(t)
  <2>1. Len(tokens) \in Nat
    BY Domains DEF SessionInv
  <2> QED BY <1>1, <2>1, Appended
<1>5. CalmRequest(b, t)' /\ ~Started(t)' /\ req'[t].at \in Working
  <2>1. req'[t].at = "issued" /\ req'[t].token = n /\ req'[t].heard
    BY <1>2, <1>3 DEF Turns, Asks, CalmRequest
  <2>2. ~tokens'[n].revoked /\ ~tokens'[n].expired
    BY <1>4 DEF Issued
  <2> HIDE DEF n
  <2> QED BY <1>4, <2>1, <2>2 DEF CalmRequest, Started, Good, Live, Working
<1>6. access'[b] \in {0, cookie'[b]}
  BY <1>1 DEF CalmOne
<1>7. \A s \in Tabs \ {t} : req'[s] = req[s]
  BY <1>3 DEF Turns
<1> QED BY <1>2, <1>5, <1>6, <1>7, CalmAlone

(* The answer to the only request: both cookies are its live token. *)
LEMMA CalmAnswer ==
  ASSUME SessionInv, Ranges, NEW t \in Tabs, NEW b, b = Browser[t], AnswerIssued(t),
         b \in calm', b \in calm => CalmOne(b)
  PROVE  CalmOne(b)'
<1>1. UNCHANGED tokens /\ req[t].at = "issued" /\ b \in Browsers
  BY Homes DEF AnswerIssued
<1>2. req[t].token \in 1 .. Len(tokens)
  BY <1>1 DEF SessionInv, TokensStayAtHome, HasToken
<1>3. /\ req[t].heard /\ Good(req[t].token)
      /\ \A s \in Tabs : Works(b, s) => s = t
  <2>1. CASE b \in calm
    BY <1>1, <2>1, CalmWork DEF CalmRequest, Working
  <2>2. CASE b \notin calm
    <3>1. req[t].heard /\ Busy(b) = {t} /\ Live(req[t].token)
      BY <2>2 DEF AnswerIssued
    <3> QED BY <1>2, <3>1 DEF Busy, Works, Good
  <2> QED BY <2>1, <2>2
<1>4. cookie'[b] = req[t].token /\ access'[b] = req[t].token
  BY <1>1, <1>3 DEF AnswerIssued, SetCookies, SessionInv, Typed, Ranges
<1>5. Turns(t, "idle", 0, 0, 0, TRUE)
  BY DoneTurns DEF AnswerIssued
<1>6. req'[t].at \notin Working /\ \A s \in Tabs \ {t} : req'[s] = req[s]
  BY <1>5 DEF Turns, Asks, Working
<1>7. Good(cookie[b])'
  BY <1>1, <1>3, <1>4 DEF Good, Live
<1> QED BY <1>3, <1>4, <1>6, <1>7, CalmAlone

(* What an undisturbed browser's tab cannot be doing, and what disturbs. *)
LEMMA CalmNever ==
  ASSUME SessionInv, NEW t \in Tabs, NEW b, b = Browser[t], CalmOne(b), b \in calm',
         \/ Login(t) \/ IssueSession(t) \/ ReadReplayed(t) \/ ReadExpired(t) \/ RevokeFamily(t)
         \/ SendLogout(t) \/ Logout(t) \/ AnswerCleared(t) \/ StatementFails(t) \/ TabGivesUp(t)
  PROVE  FALSE
<1>1. ~(Login(t) \/ SendLogout(t) \/ StatementFails(t) \/ TabGivesUp(t))
  BY DEF Login, SendLogout, StatementFails, TabGivesUp
<1>2. req[t].at \in Working => req[t].at \in {"sent", "fresh", "rotating", "issued"}
  <2>1. req[t].at \in Working => CalmRequest(b, t)
    BY CalmWork
  <2> QED BY <2>1 DEF CalmRequest
<1>3. ~(IssueSession(t) \/ RevokeFamily(t) \/ Logout(t) \/ AnswerCleared(t))
  BY <1>2 DEF IssueSession, RevokeFamily, Logout, AnswerCleared, Working
<1>4. req[t].at = "sent" => Live(req[t].token)
  <2>1. req[t].at = "sent" => req[t].at \in Working /\ Started(t)
    BY DEF Working, Started
  <2> QED BY <2>1, CalmWork DEF CalmRequest, Good
<1>5. ~(ReadReplayed(t) \/ ReadExpired(t))
  BY <1>4 DEF ReadReplayed, ReadExpired, Live
<1> QED BY <1>1, <1>3, <1>5

LEMMA CalmOwn ==
  ASSUME SessionInv, Ranges, NEW t \in Tabs, TabStep(t), NEW b, b = Browser[t], b \in calm',
         b \in calm => CalmOne(b)
  PROVE  CalmOne(b)'
<1>1. CASE AnswerIssued(t)
  BY <1>1, CalmAnswer
<1>2. CASE ~AnswerIssued(t)
  <2>1. CalmOne(b)
    BY <1>2 DEF TabStep, Login, IssueSession, TurnedAway, Refresh, ReadFresh, ReadReplayed,
       ReadExpired, RevokeFamily, RevokePresented, RotateSession, SendLogout, Logout,
       AnswerCleared, StatementFails, TabGivesUp
  <2>2. CASE TurnedAway(t)
    <3>0. req[t].at = "idle"
      <4>1. req[t] = Idle
        BY <2>2 DEF TurnedAway
      <4>2. Idle.at = "idle"
        BY DEF Idle
      <4> QED BY <4>1, <4>2
    <3>1. Kept(t, "turned away")
      BY <2>2, BecomesTurns DEF TurnedAway
    <3>2. \A s \in Tabs : SameRequest(b, s)
      BY <3>0, <3>1 DEF Kept, Turns, Asks, SameRequest, Working
    <3>3. UNCHANGED <<tokens, cookie, access>>
      BY <2>2 DEF TurnedAway, jar
    <3> QED BY <2>1, <3>2, <3>3, CalmKept DEF Good, Live
  <2>3. CASE Refresh(t)
    BY <2>1, <2>3, CalmRefresh
  <2>4. CASE ReadFresh(t)
    BY <2>1, <2>4, CalmRead
  <2>5. CASE RevokePresented(t)
    BY <2>1, <2>5, CalmRevoke
  <2>6. CASE RotateSession(t)
    BY <2>1, <2>6, CalmRotate
  <2> QED BY <1>2, <2>1, <2>2, <2>3, <2>4, <2>5, <2>6, CalmNever DEF TabStep
<1> QED BY <1>1, <1>2

LEMMA CalmStep ==
  ASSUME SessionInv, Ranges, NEW home, AtHome(home), AllCalm, [Next]_vars
  PROVE  AllCalm'
<1> SUFFICES ASSUME NEW b \in calm' PROVE CalmOne(b)'
  BY DEF AllCalm
<1>1. CASE UNCHANGED vars
  BY <1>1 DEF vars, AllCalm, CalmOne, CalmRequest, Works, Started, Good, Live
<1>2. ASSUME NEW t \in Tabs, TabStep(t) PROVE CalmOne(b)'
  <2>1. b \in calm \cup {Browser[t]}
    BY <1>2 DEF TabStep, Login, IssueSession, TurnedAway, Refresh, ReadFresh, ReadReplayed,
       ReadExpired, RevokeFamily, RevokePresented, RotateSession, SendLogout, Logout,
       AnswerIssued, AnswerCleared, StatementFails, TabGivesUp
  <2>2. CASE b = Browser[t]
    BY <1>2, <2>2, CalmOwn DEF AllCalm
  <2>3. CASE b # Browser[t]
    <3>1. CalmOne(b) /\ b \in Browsers
      BY <2>1, <2>3 DEF AllCalm, Ranges, NamesInRange
    <3> QED BY <1>2, <2>3, <3>1, CalmNeighbour
  <2> QED BY <2>2, <2>3
<1>3. ASSUME b \in calm PROVE CalmOne(b) /\ b \in Browsers
  BY <1>3 DEF AllCalm, Ranges, NamesInRange
<1>4. CASE ServerDies
  <2>1. CalmOne(b)
    BY <1>3, <1>4 DEF ServerDies
  <2>2. \A s \in Tabs : Browser[s] = b => req[s].at \notin Working /\ req'[s] = req[s]
    BY <1>4 DEF ServerDies
  <2>3. \A s \in Tabs : SameRequest(b, s)
    BY <2>2 DEF SameRequest
  <2>4. UNCHANGED <<tokens, cookie, access>>
    BY <1>4 DEF ServerDies, jar
  <2> QED BY <2>1, <2>3, <2>4, CalmKept DEF Good, Live
<1>5. ASSUME NEW u \in People, ResetPassword(u) PROVE CalmOne(b)'
  <2>1. CalmOne(b) /\ b \in Browsers /\ User[b] # u
    BY <1>3, <1>5 DEF ResetPassword, BrowsersOf
  <2>2. UNCHANGED <<req, cookie, access>>
    BY <1>5 DEF ResetPassword, jar
  <2>3. ASSUME NEW i, Holds(b, i), Good(i) PROVE Good(i)'
    <3>1. tokens[i].user = User[b]
      BY <2>1, <2>3, HeldAtHome
    <3>2. i \notin TokensOf(u)
      BY <2>1, <3>1 DEF TokensOf
    <3> QED BY <1>5, <2>3, <3>2, Spared DEF ResetPassword
  <2> QED BY <2>1, <2>2, <2>3, CalmKept DEF SameRequest
<1>6. ASSUME NEW c \in Browsers, AccessExpires(c) PROVE CalmOne(b)'
  <2>1. CalmOne(b) /\ b \in Browsers
    BY <1>3, <1>6 DEF AccessExpires
  <2>2. UNCHANGED <<tokens, req, cookie>> /\ access'[b] \in {0, access[b]}
    BY <1>6, <2>1 DEF AccessExpires, Ranges
  <2> QED BY <2>1, <2>2, CalmKept DEF SameRequest, Good, Live
<1>7. ASSUME NEW i \in DOMAIN tokens, RefreshTokenExpires(i) PROVE CalmOne(b)'
  <2>1. CalmOne(b) /\ b \in Browsers /\ cookie[b] # i
        /\ \A s \in Busy(b) : req[s].token # i
    BY <1>3, <1>7 DEF RefreshTokenExpires
  <2>2. UNCHANGED <<req, access>> /\ cookie'[b] = cookie[b]
    BY <1>7, <2>1 DEF RefreshTokenExpires
  <2>3. ASSUME NEW k, Holds(b, k), Good(k) PROVE Good(k)'
    <3>1. k # i
      BY <2>1, <2>3 DEF Holds, Works, Busy
    <3>2. tokens'[k] = tokens[k] /\ Len(tokens') = Len(tokens)
      <4>1. k \in DOMAIN tokens
        BY <2>3, Domains DEF SessionInv, Good
      <4>2. tokens'[k] = tokens[k]
        BY <1>7, <3>1, <4>1 DEF RefreshTokenExpires
      <4>3. IssuesNothing
        BY <1>7, ExpiryStep
      <4> QED BY <4>2, <4>3 DEF IssuesNothing, RowsOnlyDie
    <3> QED BY <2>3, <3>2 DEF Good, Live
  <2> QED BY <2>1, <2>2, <2>3, CalmKept DEF SameRequest
<1> QED BY <1>1, <1>2, <1>4, <1>5, <1>6, <1>7 DEF Next, TabStep

CalmInv == SessionInv /\ Ranges /\ AllCalm /\ \E home : AtHome(home)

LEMMA CalmInit == Init => CalmInv
<1> SUFFICES ASSUME Init PROVE CalmInv
  OBVIOUS
<1>1. SessionInv /\ Ranges
  BY SessionInit, RangesInit
<1>2. AllCalm
  BY DEF Init, AllCalm
<1>3. \A home : AtHome(home)
  BY DEF Init, AtHome, CookiesAtHome, CarriedAtHome, KnownAtHome, Carries, Knows, HasToken,
         Between, Idle
<1> QED BY <1>1, <1>2, <1>3 DEF CalmInv

LEMMA CalmNext == CalmInv /\ [Next]_vars => CalmInv'
<1> SUFFICES ASSUME CalmInv, [Next]_vars PROVE CalmInv'
  OBVIOUS
<1>1. SessionInv /\ SessionInv'
  BY SessionStep DEF CalmInv
<1>2. Ranges'
  BY <1>1, RangesStep DEF CalmInv, InTheTable
<1>3. PICK home : AtHome(home)
  BY DEF CalmInv
<1>4. AllCalm'
  BY <1>1, <1>3, CalmStep DEF CalmInv
<1>5. \E new : AtHome(new)'
  BY <1>1, <1>3, HomeStep
<1> QED BY <1>1, <1>2, <1>4, <1>5 DEF CalmInv

LEMMA CalmKeeps ==
  ASSUME CalmInv
  PROVE  KeepsItsSession
<1>1. TypeOK
  BY RangesType DEF CalmInv
<1>2. ASSUME NEW b \in calm, Busy(b) = {}
      PROVE  cookie[b] # 0 /\ Live(cookie[b]) /\ access[b] \in {0, cookie[b]}
  <2>1. CalmOne(b)
    BY DEF CalmInv, AllCalm
  <2>2. \A t \in Tabs : ~Works(b, t)
    BY <1>2 DEF Busy, Works
  <2>3. Good(cookie[b]) /\ access[b] \in {0, cookie[b]}
    BY <2>1, <2>2 DEF CalmOne
  <2> QED BY <2>3, Domains DEF Good, CalmInv, SessionInv
<1> QED BY <1>1, <1>2 DEF KeepsItsSession

(* A browser that nothing disturbed is still signed in when it is quiet,   *)
(* whatever its user's other browsers do (logout-user.service.ts,          *)
(* refresh-session.service.ts): for any tabs, users, tokens and bounds.    *)
THEOREM CalmStaysSignedIn == Spec => []KeepsItsSession
<1>1. CalmInv => KeepsItsSession
  BY CalmKeeps
<1> QED BY <1>1, CalmInit, CalmNext, PTL DEF Spec
==============================================================================
