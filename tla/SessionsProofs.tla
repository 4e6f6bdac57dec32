--------------------------- MODULE SessionsProofs ---------------------------
(***************************************************************************)
(* What a new password does to the sessions of its user, what a deletion   *)
(* does to the table, and that a login has one session and ends once, for  *)
(* any number of users, tokens, requests and passwords.                    *)
(***************************************************************************)
EXTENDS Sessions, TLAPS

\* Users with a new password whose sessions are about to be revoked, or should
\* have been.
Pending == {u \in Users : \E r \in Requests : request[r] = [at |-> "revokeAll", user |-> u]}
Late    == unrevoked \cup Pending

\* Tokens of a login that gave the password of the row, or that there is a
\* reason for.
Settled == {t \in Tokens : \/ checked[login[t]] = password[Owner[t]]
                           \/ login[t] \in escaped
                           \/ Owner[t] \in Late}

\* A token descends from one that was issued; so does one being refreshed.
Descends == /\ \A t \in issued : login[t] \in issued
            /\ \A r \in Requests : Refreshing(r) => request[r].token \in issued

\* Who may still create a session is current too, or was overtaken.
LoginsAreCurrent ==
    \A r \in Requests : At(r, {"login"}) =>
        \/ request[r].password = password[request[r].user]
        \/ r \in overtaken
        \/ request[r].user \in Late
RefreshesAreCurrent ==
    \A r \in Requests : Refreshing(r) => r \in overtaken \/ request[r].token \in Settled

IInv == /\ TypeOK /\ Descends /\ LoginsAreCurrent /\ RefreshesAreCurrent
        /\ live \subseteq Settled /\ OnlyTheDeadAreDeleted

-----------------------------------------------------------------------------
\* What a request holds.
LEMMA TaskTypes ==
    ASSUME TypeOK, NEW r \in Requests
    PROVE  /\ At(r, {"login"}) => request[r].user \in Users /\ request[r].password \in Passwords
           /\ Refreshing(r) => request[r].token \in Tokens
           /\ At(r, {"rotate"}) => request[r] \in [at : {"rotate"}, token : Tokens]
           /\ At(r, {"renew"}) => request[r].token \in Tokens
           /\ At(r, {"revoke", "delete"}) => request[r].token \in Tokens
           /\ At(r, {"change"}) => request[r] \in [at : {"change"}, user : Users]
           /\ At(r, {"revokeAll"}) => request[r] \in [at : {"revokeAll"}, user : Users]
BY DEF TypeOK, Tasks, Idle, At, Refreshing

\* The tasks a request can be given.
LEMMA TaskMembers ==
    /\ Idle \in Tasks
    /\ \A u \in Users, p \in Passwords : [at |-> "login", user |-> u, password |-> p] \in Tasks
    /\ \A s \in {"rotate", "renew", "revoke", "delete"}, t \in Tokens :
          [at |-> s, token |-> t] \in Tasks
    /\ \A s \in {"change", "revokeAll"}, u \in Users : [at |-> s, user |-> u] \in Tasks
BY DEF Tasks

\* Only the task of r changes.
LEMMA BecomesFacts ==
    ASSUME TypeOK, NEW r \in Requests, NEW task \in Tasks, Becomes(r, task)
    PROVE  /\ request' \in [Requests -> Tasks]
           /\ request'[r] = task
           /\ \A q \in Requests \ {r} : request'[q] = request[q]
BY DEF TypeOK, Becomes

\* Whoever is about to revoke all sessions goes on unless it is r.
LEMMA LateFacts ==
    ASSUME NEW r \in Requests,
           \A q \in Requests \ {r} : request'[q] = request[q],
           unrevoked \subseteq unrevoked',
           At(r, {"revokeAll"}) => request[r].user \in unrevoked'
    PROVE  Late \subseteq Late'
BY DEF Late, Pending, At

\* No sessions, no requests.
LEMMA InitIInv == Init => IInv
<1> SUFFICES ASSUME Init PROVE IInv
    OBVIOUS
<1>1. \A r \in Requests : /\ ~At(r, {"login"}) /\ ~Refreshing(r) /\ ~At(r, {"delete"})
  BY DEF Init, At, Refreshing, Idle
<1>2. TypeOK
  BY TaskMembers, SessionsAssumption DEF Init, TypeOK, Passwords
<1> QED BY <1>1, <1>2
        DEF Init, IInv, Descends, LoginsAreCurrent, RefreshesAreCurrent, OnlyTheDeadAreDeleted

-----------------------------------------------------------------------------
\* A step of request r that creates no session and writes no password.
LEMMA QuietKeeps ==
    ASSUME IInv, NEW r \in Requests,
           request' \in [Requests -> Tasks],
           \A q \in Requests \ {r} : request'[q] = request[q],
           At(r, {"login"})' => request'[r].password = password[request'[r].user],
           Refreshing(r)' => \/ Refreshing(r) /\ request'[r].token = request[r].token
                                /\ (r \in overtaken => r \in overtaken')
                             \/ request'[r].token \in live,
           At(r, {"delete"})' => request'[r].token \in Dead \cup expired,
           live' \subseteq live, expired' \subseteq live',
           \A t \in expired : t \in live' => t \in expired',
           forked' \subseteq Tokens,
           overtaken' \subseteq Requests, overtaken \subseteq overtaken' \cup {r},
           unrevoked' \subseteq Users, unrevoked \subseteq unrevoked',
           At(r, {"revokeAll"}) => request[r].user \in unrevoked',
           UNCHANGED <<password, issued, login, checked, escaped>>
    PROVE  IInv'
<1> USE DEF IInv
<1>1. TypeOK'
  BY DEF TypeOK
<1>2. Late \subseteq Late' /\ Settled \subseteq Settled'
  <2>1. Late \subseteq Late'
    BY LateFacts
  <2> QED BY <2>1 DEF Settled
<1>3. \A t \in live : t \in issued
  BY DEF TypeOK
<1>4. Descends'
  BY <1>3 DEF Descends, Refreshing, At
<1>5. LoginsAreCurrent'
  BY <1>2 DEF LoginsAreCurrent, At
<1>6. RefreshesAreCurrent'
  BY <1>2 DEF RefreshesAreCurrent, Refreshing, At
<1>7. (live \subseteq Settled)'
  BY <1>2
<1>8. OnlyTheDeadAreDeleted'
  BY <1>3 DEF OnlyTheDeadAreDeleted, Dead, At, TypeOK
<1> QED BY <1>1, <1>4, <1>5, <1>6, <1>7, <1>8

\* The same without a request: a logout, the clean-up, a session that expires.
LEMMA TableKeeps ==
    ASSUME IInv,
           \/ \E t \in Tokens : Logout(t) \/ Expire(t)
           \/ CleanupExpiredSessions
    PROVE  IInv'
<1> USE DEF IInv
<1>1. /\ live' \subseteq live /\ expired' \subseteq live'
      /\ \A t \in expired : t \in live' => t \in expired'
      /\ UNCHANGED <<password, request, issued, login, checked, forked, overtaken, escaped,
                     unrevoked>>
  BY DEF Logout, Expire, CleanupExpiredSessions, RevokeSession, Kill, lineageVars, excuseVars,
         TypeOK
<1>2. TypeOK'
  BY <1>1 DEF TypeOK
<1>3. Descends' /\ LoginsAreCurrent' /\ RefreshesAreCurrent' /\ (live \subseteq Settled)'
  BY <1>1 DEF Descends, LoginsAreCurrent, RefreshesAreCurrent, Settled, Refreshing, At, Late,
              Pending
<1>4. OnlyTheDeadAreDeleted'
  BY <1>1 DEF OnlyTheDeadAreDeleted, Dead, At, TypeOK
<1> QED BY <1>2, <1>3, <1>4

-----------------------------------------------------------------------------
(* The first step of a request                                             *)

\* A login reads the password of the row, a refresh finds a live session, a
\* deletion a dead one.
LEMMA StartKeeps ==
    ASSUME IInv, NEW r \in Requests, Start(r)
    PROVE  IInv'
<1> USE DEF IInv
<1> DEFINE Starts(task) ==
        /\ Becomes(r, task)
        /\ task.at \in {"login", "change", "revoke", "rotate", "delete"}
        /\ task.at = "login"  => task.password = password[task.user]
        /\ task.at = "rotate" => task.token \in live
        /\ task.at = "delete" => task.token \in Dead \cup expired
<1>1. /\ At(r, {"idle"}) /\ ~At(r, {"revokeAll"})
      /\ forked' \subseteq Tokens
      /\ UNCHANGED <<password, live, expired, issued, login, checked, overtaken, escaped,
                     unrevoked>>
  BY DEF Start, Login, ChangePassword, Refresh, AdminFinds, tableVars, lineageVars, excuseVars,
         At, TypeOK
<1>2. \E task \in Tasks : Starts(task)
  <2>1. ASSUME NEW u \in Users, Login(r, u)
        PROVE  \E task \in Tasks : Starts(task)
    <3> DEFINE task == [at |-> "login", user |-> u, password |-> password[u]]
    <3>1. task \in Tasks
      BY TaskMembers DEF TypeOK
    <3>2. Starts(task)
      BY <2>1 DEF Login
    <3> QED BY <3>1, <3>2
  <2>2. ASSUME NEW u \in Users, ChangePassword(r, u)
        PROVE  \E task \in Tasks : Starts(task)
    <3> DEFINE task == [at |-> "change", user |-> u]
    <3>1. task \in Tasks
      BY TaskMembers
    <3>2. Starts(task)
      BY <2>2 DEF ChangePassword
    <3> QED BY <3>1, <3>2
  <2>3. ASSUME NEW t \in Tokens, Refresh(r, t) \/ AdminFinds(r, t)
        PROVE  \E task \in Tasks : Starts(task)
    <3>1. PICK s \in {"revoke", "rotate", "delete"} :
              /\ Becomes(r, [at |-> s, token |-> t])
              /\ s = "rotate" => t \in live
              /\ s = "delete" => t \in Dead \cup expired
      BY <2>3 DEF Refresh, IsValid, AdminFinds, MayDelete
    <3> DEFINE task == [at |-> s, token |-> t]
    <3>2. task \in Tasks
      BY TaskMembers
    <3>3. Starts(task)
      BY <3>1
    <3> QED BY <3>2, <3>3
  <2> QED BY <2>1, <2>2, <2>3 DEF Start
<1>3. PICK task \in Tasks : Starts(task)
  BY <1>2
<1>4. /\ request' \in [Requests -> Tasks] /\ request'[r] = task
      /\ \A q \in Requests \ {r} : request'[q] = request[q]
  BY <1>3, BecomesFacts
<1>5. /\ At(r, {"login"})' => request'[r].password = password[request'[r].user]
      /\ Refreshing(r)' => request'[r].token \in live
      /\ At(r, {"delete"})' => request'[r].token \in Dead \cup expired
  BY <1>3, <1>4 DEF At, Refreshing
<1> QED BY <1>1, <1>4, <1>5, QuietKeeps DEF TypeOK

-----------------------------------------------------------------------------
(* The steps after it                                                      *)

\* The old token is revoked before the new one is issued.
LEMMA RotateStepKeeps ==
    ASSUME IInv, NEW r \in Requests, Rotate(r)
    PROVE  IInv'
<1> USE DEF IInv
<1> DEFINE t    == request[r].token
           task == [at |-> "renew", token |-> t]
<1>1. /\ At(r, {"rotate"}) /\ ~At(r, {"revokeAll"}) /\ Refreshing(r)
      /\ Becomes(r, [request[r] EXCEPT !.at = "renew"])
      /\ live' = live \ {t} /\ expired' = expired \ {t}
      /\ UNCHANGED <<password, issued, login, checked, forked, overtaken, escaped, unrevoked>>
  BY DEF Rotate, RevokeSession, Kill, lineageVars, excuseVars, At, Refreshing
<1>2. request[r] \in [at : {"rotate"}, token : Tokens]
  BY <1>1, TaskTypes
<1>3. [request[r] EXCEPT !.at = "renew"] = task
  BY <1>2
<1>4. task \in Tasks /\ task.at = "renew" /\ task.token = t
  BY <1>2, TaskMembers
<1> HIDE DEF task
<1>5. /\ request' \in [Requests -> Tasks] /\ request'[r] = task
      /\ \A q \in Requests \ {r} : request'[q] = request[q]
  BY <1>1, <1>3, <1>4, BecomesFacts
<1>6. /\ ~At(r, {"login"})' /\ ~At(r, {"delete"})' /\ request'[r].token = t
  BY <1>4, <1>5 DEF At
<1> QED BY <1>1, <1>5, <1>6, QuietKeeps DEF TypeOK

\* A row is revoked or destroyed, or a request fails; who was about to revoke
\* all sessions of a user is then to blame for them.
LEMMA EndKeeps ==
    ASSUME IInv, NEW r \in Requests, KillFound(r) \/ Fail(r)
    PROVE  IInv'
<1> USE DEF IInv
<1>1. Becomes(r, Idle) /\ overtaken' = overtaken \ {r}
  BY DEF KillFound, Fail, Ends
<1>2. /\ request' \in [Requests -> Tasks] /\ request'[r] = Idle
      /\ \A q \in Requests \ {r} : request'[q] = request[q]
  BY <1>1, TaskMembers, BecomesFacts
<1>3. ~At(r, {"login"})' /\ ~Refreshing(r)' /\ ~At(r, {"delete"})'
  BY <1>2 DEF At, Refreshing, Idle
<1>4. /\ live' \subseteq live /\ expired' \subseteq live'
      /\ \A t \in expired : t \in live' => t \in expired'
      /\ UNCHANGED <<password, issued, login, checked, forked, escaped>>
  BY DEF KillFound, Fail, Kill, tableVars, lineageVars, TypeOK
<1>5. /\ unrevoked' \subseteq Users /\ unrevoked \subseteq unrevoked'
      /\ At(r, {"revokeAll"}) => request[r].user \in unrevoked'
  BY TaskTypes DEF KillFound, Fail, At, TypeOK
<1> QED BY <1>1, <1>2, <1>3, <1>4, <1>5, QuietKeeps DEF TypeOK

\* Everything of the user is late until the sessions are revoked.
LEMMA SetPasswordKeeps ==
    ASSUME IInv, NEW r \in Requests, SetPassword(r)
    PROVE  IInv'
<1> USE DEF IInv
<1> DEFINE u    == request[r].user
           task == [at |-> "revokeAll", user |-> u]
<1>1. /\ At(r, {"change"}) /\ ~At(r, {"revokeAll"})
      /\ password[u] < MaxPassword
      /\ password' = [password EXCEPT ![u] = @ + 1]
      /\ Becomes(r, [request[r] EXCEPT !.at = "revokeAll"])
      /\ UNCHANGED <<live, expired, issued, login, checked, forked, overtaken, escaped, unrevoked>>
  BY DEF SetPassword, tableVars, lineageVars, excuseVars, At
<1>2. request[r] \in [at : {"change"}, user : Users]
  BY <1>1, TaskTypes
<1>3. [request[r] EXCEPT !.at = "revokeAll"] = task /\ u \in Users
  BY <1>2
<1>4. task \in Tasks /\ task.at = "revokeAll"
  BY <1>3, TaskMembers
<1> HIDE DEF task
<1>5. /\ request' \in [Requests -> Tasks] /\ request'[r] = task
      /\ \A q \in Requests \ {r} : request'[q] = request[q]
  BY <1>1, <1>3, <1>4, BecomesFacts
<1>6. TypeOK'
  BY <1>1, <1>3, <1>5, SessionsAssumption DEF TypeOK, Passwords
<1>7. /\ u \in Late' /\ Late \subseteq Late'
      /\ \A w \in Users : w # u => password'[w] = password[w]
  <2>1. u \in Pending'
    BY <1>3, <1>5 DEF Pending, task
  <2>2. Late \subseteq Late'
    BY <1>1, <1>5, LateFacts
  <2> QED BY <1>1, <2>1, <2>2 DEF Late, TypeOK
<1>8. \A q \in Requests :
          /\ At(q, {"login"})' => At(q, {"login"}) /\ request'[q] = request[q]
          /\ Refreshing(q)' => Refreshing(q) /\ request'[q] = request[q]
          /\ At(q, {"delete"})' => At(q, {"delete"}) /\ request'[q] = request[q]
  BY <1>4, <1>5 DEF At, Refreshing
<1>9. Descends' /\ OnlyTheDeadAreDeleted'
  BY <1>1, <1>8 DEF Descends, OnlyTheDeadAreDeleted, Dead
<1>10. Settled \subseteq Settled'
  BY <1>1, <1>7, SessionsAssumption DEF Settled
<1>11. LoginsAreCurrent'
  <2> SUFFICES ASSUME NEW q \in Requests, At(q, {"login"})'
               PROVE  \/ request'[q].password = password'[request'[q].user]
                      \/ q \in overtaken'
                      \/ request'[q].user \in Late'
      BY DEF LoginsAreCurrent
  <2>1. At(q, {"login"}) /\ request'[q] = request[q] /\ request[q].user \in Users
    BY <1>8, TaskTypes
  <2> QED BY <1>1, <1>7, <2>1 DEF LoginsAreCurrent
<1>12. RefreshesAreCurrent' /\ (live \subseteq Settled)'
  BY <1>1, <1>8, <1>10 DEF RefreshesAreCurrent
<1> QED BY <1>6, <1>9, <1>10, <1>11, <1>12

\* No session of the user is left, and who may still create one is overtaken.
LEMMA RevokeAllKeeps ==
    ASSUME IInv, NEW u \in Users, NEW done \in SUBSET Requests,
           RevokeAllSessions(u, done),
           request' \in [Requests -> Tasks],
           \A q \in Requests \ done : request'[q] = request[q],
           \A q \in done : /\ request'[q] = Idle
                           /\ At(q, {"revokeAll"}) => request[q].user = u
    PROVE  IInv'
<1> USE DEF IInv
<1>1. /\ live' = live \ Of(u) /\ expired' = expired \ Of(u)
      /\ overtaken' = (overtaken \cup {q \in Requests : Acquires(q, u)}) \ done
      /\ unrevoked' = unrevoked \ {u}
      /\ UNCHANGED <<password, issued, login, checked, forked, escaped>>
  BY DEF RevokeAllSessions, RevokeSessionsOf, Kill, lineageVars
<1>2. \A q \in Requests :
          /\ At(q, {"login"})' => At(q, {"login"}) /\ q \notin done /\ request'[q] = request[q]
          /\ Refreshing(q)' => Refreshing(q) /\ q \notin done /\ request'[q] = request[q]
          /\ At(q, {"delete"})' => At(q, {"delete"}) /\ request'[q] = request[q]
          /\ At(q, {"revokeAll"}) /\ request[q].user # u => q \notin done
  BY DEF At, Refreshing, Idle
<1>3. Late \ {u} \subseteq Late'
  BY <1>1, <1>2 DEF Late, Pending, At
<1>4. \A t \in Settled : Owner[t] # u => t \in Settled'
  BY <1>1, <1>3 DEF Settled
<1>5. TypeOK'
  BY <1>1 DEF TypeOK
<1>6. Descends'
  BY <1>1, <1>2 DEF Descends
<1>7. LoginsAreCurrent'
  BY <1>1, <1>2, <1>3 DEF LoginsAreCurrent, Acquires
<1>8. RefreshesAreCurrent'
  BY <1>1, <1>2, <1>4 DEF RefreshesAreCurrent, Acquires
<1>9. (live \subseteq Settled)'
  BY <1>1, <1>4 DEF Of, TypeOK
<1>10. OnlyTheDeadAreDeleted'
  BY <1>1, <1>2 DEF OnlyTheDeadAreDeleted, Dead, TypeOK
<1> QED BY <1>5, <1>6, <1>7, <1>8, <1>9, <1>10

LEMMA RevokeAllStepKeeps ==
    ASSUME IInv,
           \/ \E r \in Requests : RevokeAll(r)
           \/ \E u \in Users : LogoutAll(u)
    PROVE  IInv'
<1> USE DEF IInv
<1>1. ASSUME NEW r \in Requests, RevokeAll(r)
      PROVE  IInv'
  <2>1. PICK u \in Users : /\ RevokeAllSessions(u, {r})
                           /\ At(r, {"revokeAll"}) => request[r].user = u
    BY <1>1, TaskTypes, SessionsAssumption DEF RevokeAll, Refreshing, At
  <2>2. /\ request' \in [Requests -> Tasks] /\ request'[r] = Idle
        /\ \A q \in Requests \ {r} : request'[q] = request[q]
    BY <1>1, TaskMembers, BecomesFacts DEF RevokeAll
  <2> QED BY <2>1, <2>2, RevokeAllKeeps
<1>2. ASSUME NEW u \in Users, LogoutAll(u)
      PROVE  IInv'
  <2>1. RevokeAllSessions(u, {}) /\ UNCHANGED request
    BY <1>2 DEF LogoutAll
  <2>2. /\ request' \in [Requests -> Tasks]
        /\ \A q \in Requests \ {} : request'[q] = request[q]
    BY <2>1 DEF TypeOK
  <2> QED BY <2>1, <2>2, RevokeAllKeeps
<1> QED BY <1>1, <1>2

\* A new session has the password of its login; the one of a request that was
\* overtaken has escaped.
LEMMA CreateSessionKeeps ==
    ASSUME IInv, NEW r \in Requests, NEW t \in Tokens, NEW l \in Tokens, NEW p \in Passwords,
           CreateSession(r, t, l, p),
           ~At(r, {"revokeAll"}),
           l \in issued \cup {t},
           l \in issued => p = checked[l],
           \/ p = password[Owner[t]] \/ r \in overtaken \/ l \in escaped \/ Owner[t] \in Late
    PROVE  IInv'
<1> USE DEF IInv
<1>1. /\ t \notin issued /\ t \notin live /\ t \notin expired
      /\ issued' = issued \cup {t} /\ live' = live \cup {t}
      /\ login' = [login EXCEPT ![t] = l]
      /\ checked' = [checked EXCEPT ![l] = p]
      /\ escaped' = IF r \in overtaken THEN escaped \cup {l} ELSE escaped
      /\ Becomes(r, Idle) /\ overtaken' = overtaken \ {r}
      /\ UNCHANGED <<password, expired, forked, unrevoked>>
  BY DEF CreateSession, Ends, TypeOK
<1>2. /\ request' \in [Requests -> Tasks] /\ request'[r] = Idle
      /\ \A q \in Requests \ {r} : request'[q] = request[q]
  BY <1>1, TaskMembers, BecomesFacts
<1>3. \A q \in Requests :
          /\ At(q, {"login"})' => At(q, {"login"}) /\ q # r
          /\ Refreshing(q)' => Refreshing(q) /\ q # r
          /\ At(q, {"delete"})' => At(q, {"delete"}) /\ q # r
  BY <1>2 DEF At, Refreshing, Idle
<1>4. Late \subseteq Late'
  BY <1>1, <1>2, LateFacts
<1>5. /\ login'[t] = l /\ checked'[l] = p
      /\ \A s \in issued : login'[s] = login[s] /\ checked'[login[s]] = checked[login[s]]
  BY <1>1 DEF TypeOK, Descends
<1>6. TypeOK'
  BY <1>1, <1>2 DEF TypeOK
<1>7. Descends'
  BY <1>1, <1>2, <1>3, <1>5 DEF Descends
<1>8. LoginsAreCurrent'
  BY <1>1, <1>2, <1>3, <1>4 DEF LoginsAreCurrent
<1>9. /\ t \in Settled'
      /\ \A s \in issued : s \in Settled => s \in Settled'
  BY <1>1, <1>4, <1>5 DEF Settled
<1>10. RefreshesAreCurrent' /\ (live \subseteq Settled)'
  BY <1>1, <1>2, <1>3, <1>9 DEF RefreshesAreCurrent, Descends, TypeOK
<1>11. OnlyTheDeadAreDeleted'
  BY <1>1, <1>2, <1>3 DEF OnlyTheDeadAreDeleted, Dead, TypeOK
<1> QED BY <1>6, <1>7, <1>8, <1>9, <1>10, <1>11

LEMMA CreateKeeps ==
    ASSUME IInv, NEW r \in Requests, NEW t \in Tokens, LoginCreates(r, t) \/ Renew(r, t)
    PROVE  IInv'
<1> USE DEF IInv
<1>1. CASE LoginCreates(r, t)
  <2>1. /\ At(r, {"login"}) /\ ~At(r, {"revokeAll"}) /\ Owner[t] = request[r].user
        /\ CreateSession(r, t, t, request[r].password)
        /\ t \notin issued
    BY <1>1 DEF LoginCreates, CreateSession, At
  <2>2. request[r].password \in Passwords
    BY <2>1, TaskTypes
  <2>3. \/ request[r].password = password[Owner[t]] \/ r \in overtaken \/ Owner[t] \in Late
    BY <2>1 DEF LoginsAreCurrent
  <2> QED BY <2>1, <2>2, <2>3, CreateSessionKeeps
<1>2. CASE Renew(r, t)
  <2> DEFINE k == request[r].token
             l == login[k]
  <2>1. /\ At(r, {"renew"}) /\ ~At(r, {"revokeAll"}) /\ Refreshing(r)
        /\ Owner[t] = Owner[k]
        /\ CreateSession(r, t, l, checked[l])
    BY <1>2 DEF Renew, At, Refreshing
  <2>2. k \in issued /\ l \in issued /\ l \in Tokens /\ checked[l] \in Passwords
    BY <2>1 DEF Descends, TypeOK
  <2>3. \/ checked[l] = password[Owner[t]] \/ r \in overtaken \/ l \in escaped \/ Owner[t] \in Late
    BY <2>1 DEF RefreshesAreCurrent, Settled
  <2> QED BY <2>1, <2>2, <2>3, CreateSessionKeeps
<1> QED BY <1>1, <1>2

-----------------------------------------------------------------------------
LEMMA NextKeeps == IInv /\ [Next]_vars => IInv'
<1> SUFFICES ASSUME IInv, [Next]_vars PROVE IInv'
    OBVIOUS
<1>1. CASE UNCHANGED vars
  BY <1>1 DEF vars, tableVars, lineageVars, excuseVars, IInv, TypeOK, Descends, LoginsAreCurrent,
              RefreshesAreCurrent, Settled, OnlyTheDeadAreDeleted, Refreshing, At,
              Late, Pending, Dead
<1>2. CASE Next
  BY <1>2, StartKeeps, RotateStepKeeps, EndKeeps, SetPasswordKeeps, RevokeAllStepKeeps, CreateKeeps,
     TableKeeps DEF Next, Step
<1> QED BY <1>1, <1>2

LEMMA IInvHolds == Spec => []IInv
BY InitIInv, NextKeeps, PTL DEF Spec

\* The table and the requests keep their types: in particular only a session
\* that createSession inserted is ever live.
THEOREM TypeCorrect == Spec => []TypeOK
BY IInvHolds, PTL DEF IInv

\* After a new password was written no session of an older one is left, but for
\* the requests that the revocation overtook, and a revocation that failed.
THEOREM PasswordEndsSessionsHolds == Spec => []PasswordEndsSessions
<1>1. IInv => PasswordEndsSessions
  BY DEF IInv, Settled, Late, Pending, PasswordEndsSessions
<1> QED BY <1>1, IInvHolds, PTL

\* deleteSession of the controller destroys no row in use, whatever ran between
\* its check and its deletion.
THEOREM OnlyTheDeadAreDeletedHolds == Spec => []OnlyTheDeadAreDeleted
BY IInvHolds, PTL DEF IInv

-----------------------------------------------------------------------------
(* One live session per login, and logins that end once                    *)

\* A login is named by its first token.
Rooted == \A t \in issued : login[t] \in issued /\ login[login[t]] = login[t]

\* A refresh has its login to itself: no other refresh, and no session but the
\* one it is about to revoke.
Alone ==
    \A r \in Requests : Refreshing(r) =>
        LET l == login[request[r].token]
        IN l \notin forked =>
               /\ \A q \in Requests : Refreshing(q) /\ login[request[q].token] = l => q = r
               /\ \A s \in live : login[s] = l => At(r, {"rotate"}) /\ s = request[r].token

Lineage == Rooted /\ Alone /\ OneLivePerLogin

\* A step after which no more sessions are live and no request refreshes that
\* did not before.
Shrinks == /\ live' \subseteq live
           /\ \A q \in Requests : Refreshing(q)' => Refreshing(q) /\ request'[q] = request[q]
           /\ UNCHANGED <<issued, login, forked>>

\* What a step does to sessions and refreshes.
LEMMA StepShapes ==
    ASSUME IInv, [Next]_vars
    PROVE  \/ Shrinks
           \/ \E r \in Requests : Rotate(r)
           \/ \E r \in Requests, t \in Tokens :
                  Refresh(r, t) \/ LoginCreates(r, t) \/ Renew(r, t)
<1> USE DEF IInv
<1>1. ASSUME UNCHANGED vars
      PROVE  Shrinks
  BY <1>1 DEF vars, tableVars, lineageVars, excuseVars, Shrinks, Refreshing, At
<1>2. ASSUME NEW r \in Requests, NEW task \in Tasks, Becomes(r, task),
             task.at \notin {"rotate", "renew"},
             live' \subseteq live, UNCHANGED <<issued, login, forked>>
      PROVE  Shrinks
  <2>1. /\ request'[r] = task
        /\ \A q \in Requests \ {r} : request'[q] = request[q]
    BY <1>2, BecomesFacts
  <2> QED BY <1>2, <2>1 DEF Shrinks, Refreshing, At
<1>3. ASSUME live' \subseteq live, UNCHANGED <<issued, login, forked, request>>
      PROVE  Shrinks
  BY <1>3 DEF Shrinks, Refreshing, At
<1>4. ASSUME NEW r \in Requests, NEW u \in Users, Login(r, u) \/ ChangePassword(r, u)
      PROVE  Shrinks
  <2>1. /\ live' = live /\ UNCHANGED <<issued, login, forked>>
        /\ \/ Becomes(r, [at |-> "login", user |-> u, password |-> password[u]])
           \/ Becomes(r, [at |-> "change", user |-> u])
    BY <1>4 DEF Login, ChangePassword, tableVars, lineageVars, excuseVars
  <2>2. /\ [at |-> "login", user |-> u, password |-> password[u]] \in Tasks
        /\ [at |-> "change", user |-> u] \in Tasks
    BY TaskMembers DEF TypeOK
  <2> QED BY <1>2, <2>1, <2>2
<1>5. ASSUME NEW r \in Requests, NEW t \in Tokens, AdminFinds(r, t)
      PROVE  Shrinks
  <2>1. /\ live' = live /\ UNCHANGED <<issued, login, forked>>
        /\ \E s \in {"revoke", "delete"} : Becomes(r, [at |-> s, token |-> t])
    BY <1>5 DEF AdminFinds, tableVars, lineageVars, excuseVars
  <2>2. \A s \in {"revoke", "delete"} : [at |-> s, token |-> t] \in Tasks
    BY TaskMembers
  <2> QED BY <1>2, <2>1, <2>2
<1>6. ASSUME NEW r \in Requests, SetPassword(r)
      PROVE  Shrinks
  <2> DEFINE task == [request[r] EXCEPT !.at = "revokeAll"]
  <2>1. /\ Becomes(r, task) /\ live' = live /\ UNCHANGED <<issued, login, forked>>
        /\ request[r] \in [at : {"change"}, user : Users]
    BY <1>6, TaskTypes DEF SetPassword, tableVars, lineageVars, excuseVars
  <2>2. task \in Tasks /\ task.at = "revokeAll"
    BY <2>1 DEF Tasks
  <2> QED BY <1>2, <2>1, <2>2
<1>7. ASSUME NEW r \in Requests, RevokeAll(r) \/ KillFound(r) \/ Fail(r)
      PROVE  Shrinks
  <2>1. Becomes(r, Idle) /\ live' \subseteq live /\ UNCHANGED <<issued, login, forked>>
    BY <1>7 DEF RevokeAll, RevokeAllSessions, RevokeSessionsOf, KillFound, Fail, Kill, Ends,
                tableVars, lineageVars
  <2>2. Idle \in Tasks /\ Idle.at \notin {"rotate", "renew"}
    BY TaskMembers DEF Idle
  <2> QED BY <1>2, <2>1, <2>2
<1>8. ASSUME \/ \E u \in Users : LogoutAll(u)
             \/ \E t \in Tokens : Logout(t) \/ Expire(t)
             \/ CleanupExpiredSessions
      PROVE  Shrinks
  <2>1. live' \subseteq live /\ UNCHANGED <<issued, login, forked, request>>
    BY <1>8 DEF LogoutAll, Logout, Expire, CleanupExpiredSessions, RevokeAllSessions,
                RevokeSessionsOf, RevokeSession, Kill, tableVars, lineageVars, excuseVars
  <2> QED BY <1>3, <2>1
<1> QED BY <1>1, <1>4, <1>5, <1>6, <1>7, <1>8 DEF Next, Start, Step

\* Fewer sessions and fewer refreshes are no trouble.
LEMMA ShrinksKeeps ==
    ASSUME Lineage, Shrinks
    PROVE  Lineage'
<1>1. \A r \in Requests : Refreshing(r)' => /\ Refreshing(r) /\ request'[r] = request[r]
                                            /\ At(r, {"rotate"})' <=> At(r, {"rotate"})
  BY DEF Shrinks, At
<1>2. live' \subseteq live /\ UNCHANGED <<issued, login, forked>>
  BY DEF Shrinks
<1> QED BY <1>1, <1>2 DEF Lineage, Rooted, Alone, OneLivePerLogin

\* The session that a refresh revokes was the last of its login.
LEMMA RotateKeepsLineage ==
    ASSUME IInv, Lineage, NEW r \in Requests, Rotate(r)
    PROVE  Lineage'
<1> DEFINE k    == request[r].token
           task == [request[r] EXCEPT !.at = "renew"]
<1>1. /\ At(r, {"rotate"}) /\ Refreshing(r) /\ Becomes(r, task) /\ live' = live \ {k}
      /\ UNCHANGED <<issued, login, forked>>
  BY DEF Rotate, RevokeSession, Kill, Refreshing, At, lineageVars, excuseVars
<1>2. request[r] \in [at : {"rotate"}, token : Tokens]
  BY <1>1, TaskTypes DEF IInv
<1>3. task = [at |-> "renew", token |-> k] /\ task \in Tasks /\ k \in Tokens
  BY <1>2, TaskMembers
<1>4. /\ request'[r] = [at |-> "renew", token |-> k]
      /\ \A q \in Requests \ {r} : request'[q] = request[q]
  <2> HIDE DEF task
  <2> QED BY <1>1, <1>3, BecomesFacts DEF IInv
<1> HIDE DEF k
<1>5. /\ \A q \in Requests : Refreshing(q)' => Refreshing(q) /\ request'[q].token = request[q].token
      /\ \A q \in Requests \ {r} : At(q, {"rotate"})' <=> At(q, {"rotate"})
  BY <1>1, <1>4 DEF Refreshing, At, k
<1>6. \A q \in Requests \ {r} :
          Refreshing(q) /\ login[request[q].token] = login[k] => login[k] \in forked
  BY <1>1 DEF Lineage, Alone, k
<1>7. \A s \in live : login[s] = login[k] => s = k \/ login[k] \in forked
  BY <1>1 DEF Lineage, Alone, k
<1>8. Alone'
  <2> SUFFICES ASSUME NEW q \in Requests, Refreshing(q)',
                      login'[request'[q].token] \notin forked'
               PROVE  LET m == login'[request'[q].token]
                      IN /\ \A w \in Requests :
                                Refreshing(w)' /\ login'[request'[w].token] = m => w = q
                         /\ \A s \in live' :
                                login'[s] = m => At(q, {"rotate"})' /\ s = request'[q].token
      BY DEF Alone
  <2>1. CASE q = r
    BY <1>1, <1>4, <1>5, <1>6, <1>7, <2>1
  <2>2. CASE q # r
    BY <1>1, <1>4, <1>5, <2>2 DEF Lineage, Alone
  <2> QED BY <2>1, <2>2
<1> QED BY <1>1, <1>8 DEF Lineage, Rooted, OneLivePerLogin

\* A session that is being refreshed already is the only one of its login, so
\* a second refresh of the login reads the same token.
LEMMA RefreshKeepsLineage ==
    ASSUME IInv, Lineage, NEW r \in Requests, NEW t \in Tokens, Refresh(r, t)
    PROVE  Lineage'
<1> DEFINE to   == IF t \in expired THEN "revoke" ELSE "rotate"
           task == [at |-> to, token |-> t]
<1>1. /\ At(r, {"idle"}) /\ ~Refreshing(r) /\ t \in live /\ t \in issued
      /\ Becomes(r, task)
      /\ forked' = IF /\ t \notin expired
                      /\ \E q \in Requests : At(q, {"rotate"}) /\ request[q].token = t
                   THEN forked \cup {login[t]} ELSE forked
      /\ UNCHANGED <<live, issued, login>>
  BY DEF Refresh, IsValid, Refreshing, At, tableVars, lineageVars, IInv, TypeOK
<1>2. task \in Tasks
  BY TaskMembers
<1>3. /\ request'[r] = [at |-> to, token |-> t]
      /\ \A q \in Requests \ {r} : request'[q] = request[q]
  <2> HIDE DEF task
  <2>1. request'[r] = task /\ \A q \in Requests \ {r} : request'[q] = request[q]
    BY <1>1, <1>2, BecomesFacts DEF IInv
  <2> QED BY <2>1 DEF task
<1>4. /\ Refreshing(r)' => t \notin expired /\ At(r, {"rotate"})'
      /\ \A q \in Requests \ {r} : /\ Refreshing(q)' <=> Refreshing(q)
                                   /\ At(q, {"rotate"})' <=> At(q, {"rotate"})
  BY <1>3 DEF Refreshing, At
<1>5. forked \subseteq forked'
  BY <1>1
<1>6. \A q \in Requests : Refreshing(q) /\ login[request[q].token] = login[t] =>
          \/ At(q, {"rotate"}) /\ request[q].token = t
          \/ login[t] \in forked
  BY <1>1 DEF Lineage, Alone
<1>7. Refreshing(r)' => \A q \in Requests \ {r} :
          Refreshing(q) /\ login[request[q].token] = login[t] => login[t] \in forked'
  BY <1>1, <1>4, <1>6
<1>8. Alone'
  <2> SUFFICES ASSUME NEW q \in Requests, Refreshing(q)',
                      login'[request'[q].token] \notin forked'
               PROVE  LET m == login'[request'[q].token]
                      IN /\ \A w \in Requests :
                                Refreshing(w)' /\ login'[request'[w].token] = m => w = q
                         /\ \A s \in live' :
                                login'[s] = m => At(q, {"rotate"})' /\ s = request'[q].token
      BY DEF Alone
  <2>1. CASE q = r
    BY <1>1, <1>3, <1>4, <1>5, <1>7, <2>1 DEF Lineage, OneLivePerLogin
  <2>2. CASE q # r
    BY <1>1, <1>3, <1>4, <1>5, <1>7, <2>2 DEF Lineage, Alone
  <2> QED BY <2>1, <2>2
<1> QED BY <1>1, <1>5, <1>8 DEF Lineage, Rooted, OneLivePerLogin

\* The new session is the only one of its login: the login is new, or a refresh
\* has revoked the one before.
LEMMA CreateKeepsLineage ==
    ASSUME IInv, Lineage, NEW r \in Requests, NEW t \in Tokens,
           LoginCreates(r, t) \/ Renew(r, t)
    PROVE  Lineage'
<1>1. PICK l \in Tokens :
          /\ \/ l = t
             \/ Refreshing(r) /\ ~At(r, {"rotate"}) /\ l = login[request[r].token]
          /\ \E p \in Passwords : CreateSession(r, t, l, p)
  <2>1. CASE LoginCreates(r, t)
    <3>1. request[r].password \in Passwords
      BY <2>1, TaskTypes DEF LoginCreates, IInv
    <3> QED BY <2>1, <3>1 DEF LoginCreates
  <2>2. CASE Renew(r, t)
    <3> DEFINE l == login[request[r].token]
    <3>1. /\ Refreshing(r) /\ ~At(r, {"rotate"})
          /\ CreateSession(r, t, l, checked[l])
      BY <2>2 DEF Renew, Refreshing, At
    <3>2. l \in Tokens /\ checked[l] \in Passwords
      BY <3>1 DEF IInv, TypeOK, Descends
    <3> QED BY <3>1, <3>2
  <2> QED BY <2>1, <2>2
<1>2. /\ t \notin issued /\ issued' = issued \cup {t} /\ live' = live \cup {t}
      /\ login' = [login EXCEPT ![t] = l]
      /\ Becomes(r, Idle) /\ UNCHANGED forked
  BY <1>1 DEF CreateSession, Ends
<1>3. /\ request'[r] = Idle
      /\ \A q \in Requests \ {r} : request'[q] = request[q]
  BY <1>2, TaskMembers, BecomesFacts DEF IInv
<1>4. \A q \in Requests : Refreshing(q)' => /\ q # r /\ Refreshing(q) /\ request'[q] = request[q]
                                            /\ At(q, {"rotate"})' <=> At(q, {"rotate"})
  BY <1>3 DEF Refreshing, At, Idle
<1>5. /\ login'[t] = l
      /\ \A s \in issued : s # t /\ login'[s] = login[s] /\ login[s] \in issued /\ login[s] # t
      /\ \A s \in live : s \in issued
      /\ \A q \in Requests : Refreshing(q) => request[q].token \in issued
  BY <1>2 DEF IInv, TypeOK, Descends
<1>6. l = t \/ (l \in issued /\ login[l] = l)
  BY <1>1, <1>5 DEF Lineage, Rooted
<1>7. Rooted'
  BY <1>2, <1>5, <1>6 DEF Lineage, Rooted
\* Nobody else has the login l.
<1>8. /\ \A s \in live : login[s] = l => l \in forked
      /\ \A q \in Requests \ {r} :
             Refreshing(q) /\ login[request[q].token] = l => l \in forked
  BY <1>1, <1>5 DEF Lineage, Alone
<1>9. Alone'
  BY <1>2, <1>4, <1>5, <1>8 DEF Lineage, Alone
<1>10. OneLivePerLogin'
  BY <1>2, <1>5, <1>8 DEF Lineage, OneLivePerLogin
<1> QED BY <1>7, <1>9, <1>10 DEF Lineage

LEMMA LineageHolds == Spec => []Lineage
<1>1. Init => Lineage
  <2> SUFFICES ASSUME Init PROVE Lineage
      OBVIOUS
  <2>1. \A r \in Requests : ~Refreshing(r)
    BY DEF Init, Refreshing, At, Idle
  <2> QED BY <2>1 DEF Init, Lineage, Rooted, Alone, OneLivePerLogin
<1>2. IInv /\ Lineage /\ [Next]_vars => Lineage'
  BY StepShapes, ShrinksKeeps, RotateKeepsLineage, RefreshKeepsLineage, CreateKeepsLineage
<1> QED BY <1>1, <1>2, IInvHolds, PTL DEF Spec

\* A login keeps one live session through any number of refreshes, unless two
\* of them read one token before either revoked it.
THEOREM OneLivePerLoginHolds == Spec => []OneLivePerLogin
BY LineageHolds, PTL DEF Lineage

-----------------------------------------------------------------------------
(* Sessions implements Grants                                              *)

\* What Grants sees of the table.
Root(l)    == l \in issued /\ login[l] = l
GrantOf(l) == IF l \in InUse THEN "open" ELSE IF Root(l) THEN "closed" ELSE "none"

\* A login in use is one that was issued.
LEMMA InUseRoots ==
    ASSUME IInv, Lineage, NEW l \in InUse
    PROVE  l \in Tokens /\ Root(l)
BY DEF IInv, TypeOK, Descends, Lineage, Rooted, InUse, Root

\* The refinement mapping, login by login.
LEMMA Mapping ==
    /\ Grant!Init <=> \A l \in Tokens : GrantOf(l) = "none"
    /\ (\A l \in Tokens : \/ GrantOf(l)' = GrantOf(l)
                          \/ GrantOf(l) = "open" /\ GrantOf(l)' = "closed") => Grant!Close
    /\ \A t \in Tokens : GrantOf(t) = "none" /\ GrantOf(t)' = "open"
            /\ (\A l \in Tokens \ {t} : GrantOf(l)' = GrantOf(l)) => Grant!Open(t)
<1>1. Grant!Init <=> \A l \in Tokens : GrantOf(l) = "none"
  BY DEF Grant!Init, GrantOf, Root
<1>2. (\A l \in Tokens : \/ GrantOf(l)' = GrantOf(l)
                         \/ GrantOf(l) = "open" /\ GrantOf(l)' = "closed") => Grant!Close
  BY DEF Grant!Close, GrantOf, Root
<1>3. ASSUME NEW t \in Tokens, GrantOf(t) = "none", GrantOf(t)' = "open",
             \A l \in Tokens \ {t} : GrantOf(l)' = GrantOf(l)
      PROVE  Grant!Open(t)
  BY <1>3 DEF Grant!Open, GrantOf, Root
<1> QED BY <1>1, <1>2, <1>3

\* A step that brings no login into use closes those it takes out of use.
LEMMA Closes ==
    ASSUME IInv, Lineage, InUse' \subseteq InUse, \A l \in Tokens : Root(l)' <=> Root(l)
    PROVE  Grant!Close
<1>1. \A l \in Tokens : \/ GrantOf(l)' = GrantOf(l)
                        \/ GrantOf(l) = "open" /\ GrantOf(l)' = "closed"
  BY InUseRoots DEF GrantOf
<1> QED BY <1>1, Mapping

\* Ends, revocations and refreshes bring no login into use.
LEMMA OldStepCloses ==
    ASSUME IInv, Lineage,
           \/ Shrinks
           \/ \E r \in Requests : Rotate(r)
           \/ \E r \in Requests, t \in Tokens : Refresh(r, t)
    PROVE  Grant!Close
<1>1. CASE Shrinks
  <2>1. InUse' \subseteq InUse
    BY <1>1 DEF InUse, Shrinks
  <2> QED BY <1>1, <2>1, Closes DEF Shrinks, Root
<1>2. ASSUME NEW r \in Requests, Rotate(r)
      PROVE  Grant!Close
  <2> DEFINE task == [request[r] EXCEPT !.at = "renew"]
  <2>1. /\ Refreshing(r) /\ At(r, {"rotate"}) /\ Becomes(r, task) /\ live' \subseteq live
        /\ UNCHANGED <<issued, login>>
    BY <1>2 DEF Rotate, RevokeSession, Kill, Refreshing, At, lineageVars, excuseVars
  <2>2. request[r] \in [at : {"rotate"}, token : Tokens]
    BY <2>1, TaskTypes DEF IInv
  <2>3. task \in Tasks /\ task.token = request[r].token
    BY <2>2, TaskMembers
  <2>4. /\ request'[r].token = request[r].token
        /\ \A q \in Requests \ {r} : request'[q] = request[q]
    <3> HIDE DEF task
    <3> QED BY <2>1, <2>3, BecomesFacts DEF IInv
  <2>5. \A q \in Requests : Refreshing(q)' => Refreshing(q) /\ request'[q].token = request[q].token
    BY <2>1, <2>4 DEF Refreshing, At
  <2>6. InUse' \subseteq InUse
    BY <2>1, <2>5 DEF InUse
  <2> QED BY <2>1, <2>6, Closes DEF Root
<1>3. ASSUME NEW r \in Requests, NEW t \in Tokens, Refresh(r, t)
      PROVE  Grant!Close
  <2> DEFINE task == [at |-> IF t \in expired THEN "revoke" ELSE "rotate", token |-> t]
  <2>1. t \in live /\ Becomes(r, task) /\ UNCHANGED <<live, issued, login>>
    BY <1>3 DEF Refresh, IsValid, tableVars, lineageVars
  <2>2. task \in Tasks /\ task.token = t
    BY TaskMembers
  <2>3. request'[r].token = t /\ \A q \in Requests \ {r} : request'[q] = request[q]
    <3> HIDE DEF task
    <3> QED BY <2>1, <2>2, BecomesFacts DEF IInv
  <2>4. \A q \in Requests \ {r} : Refreshing(q)' => Refreshing(q)
    BY <2>3 DEF Refreshing, At
  <2>5. InUse' \subseteq InUse
    BY <2>1, <2>3, <2>4 DEF InUse
  <2> QED BY <2>1, <2>5, Closes DEF Root
<1> QED BY <1>1, <1>2, <1>3

\* A session that is created.
LEMMA CreatedFacts ==
    ASSUME IInv, NEW r \in Requests, NEW t \in Tokens, NEW l \in Tokens, NEW p,
           CreateSession(r, t, l, p)
    PROVE  /\ t \notin issued /\ issued' = issued \cup {t} /\ live' = live \cup {t}
           /\ login'[t] = l /\ \A s \in Tokens \ {t} : login'[s] = login[s]
           /\ \A q \in Requests : Refreshing(q)' => Refreshing(q) /\ request'[q] = request[q]
           /\ \A q \in Requests \ {r} : Refreshing(q)' <=> Refreshing(q)
           /\ \A s \in live : s # t
           /\ \A q \in Requests : Refreshing(q) => /\ request[q].token # t
                                                   /\ request[q].token \in Tokens
<1>1. /\ t \notin issued /\ issued' = issued \cup {t} /\ live' = live \cup {t}
      /\ login' = [login EXCEPT ![t] = l] /\ Becomes(r, Idle)
  BY DEF CreateSession, Ends
<1>2. request'[r] = Idle /\ \A q \in Requests \ {r} : request'[q] = request[q]
  BY <1>1, TaskMembers, BecomesFacts DEF IInv
<1>3. /\ ~Refreshing(r)'
      /\ \A q \in Requests \ {r} : Refreshing(q)' <=> Refreshing(q)
  BY <1>2 DEF Refreshing, At, Idle
<1> QED BY <1>1, <1>2, <1>3, TaskTypes DEF IInv, TypeOK, Descends

\* The session of a refresh is of a login in use ...
LEMMA RenewCloses ==
    ASSUME IInv, Lineage, NEW r \in Requests, NEW t \in Tokens, Renew(r, t)
    PROVE  Grant!Close
<1> DEFINE l == login[request[r].token]
<1>1. Refreshing(r) /\ CreateSession(r, t, l, checked[l])
  BY DEF Renew, Refreshing, At
<1>2. l \in InUse
  BY <1>1 DEF InUse
<1>3. l \in Tokens /\ Root(l)
  BY <1>2, InUseRoots
<1> HIDE DEF l
<1>4. /\ t \notin issued /\ issued' = issued \cup {t} /\ live' = live \cup {t}
      /\ login'[t] = l /\ \A s \in Tokens \ {t} : login'[s] = login[s]
      /\ \A q \in Requests : Refreshing(q)' => Refreshing(q) /\ request'[q] = request[q]
      /\ \A s \in live : s # t
      /\ \A q \in Requests : Refreshing(q) => /\ request[q].token # t
                                              /\ request[q].token \in Tokens
  BY <1>1, <1>3, CreatedFacts
<1>5. InUse' \subseteq InUse
  BY <1>2, <1>4 DEF InUse, IInv, TypeOK
<1>6. l # t
  BY <1>3, <1>4 DEF Root
<1>7. \A m \in Tokens : Root(m)' <=> Root(m)
  BY <1>4, <1>6 DEF Root
<1> QED BY <1>5, <1>7, Closes

\* ... and that of a login opens it.
LEMMA LoginOpens ==
    ASSUME IInv, Lineage, NEW r \in Requests, NEW t \in Tokens, LoginCreates(r, t)
    PROVE  Grant!Open(t)
<1>1. ~Refreshing(r) /\ CreateSession(r, t, t, request[r].password)
  BY DEF LoginCreates, Refreshing, At
<1>2. /\ t \notin issued /\ issued' = issued \cup {t} /\ live' = live \cup {t}
      /\ login'[t] = t /\ \A s \in Tokens \ {t} : login'[s] = login[s]
      /\ \A q \in Requests : Refreshing(q)' => Refreshing(q) /\ request'[q] = request[q]
      /\ \A q \in Requests \ {r} : Refreshing(q)' <=> Refreshing(q)
      /\ \A s \in live : s # t
      /\ \A q \in Requests : Refreshing(q) => /\ request[q].token # t
                                              /\ request[q].token \in Tokens
  BY <1>1, CreatedFacts
<1>3. InUse' = InUse \cup {t}
  <2>1. \A s \in live : s \in Tokens
    BY DEF IInv, TypeOK
  <2>2. \A q \in Requests : Refreshing(q)' <=> Refreshing(q)
    BY <1>1, <1>2
  <2> QED BY <1>2, <2>1, <2>2 DEF InUse
<1>4. t \notin InUse /\ ~Root(t)
  BY <1>2, InUseRoots DEF Root
<1>5. \A m \in Tokens \ {t} : Root(m)' <=> Root(m)
  BY <1>2 DEF Root
<1>6. GrantOf(t) = "none" /\ GrantOf(t)' = "open"
  BY <1>3, <1>4 DEF GrantOf
<1>7. \A m \in Tokens \ {t} : GrantOf(m)' = GrantOf(m)
  BY <1>3, <1>5 DEF GrantOf
<1> QED BY <1>6, <1>7, Mapping

\* Whatever tokens it goes through, a login is granted once and ends once:
\* refreshUserToken never revives one that a logout, a revocation, the clean-up
\* or a deletion has ended.
THEOREM LoginsEndOnceHolds == Spec => LoginsEndOnce
<1>1. Init => Grant!Init
  <2> SUFFICES ASSUME Init PROVE Grant!Init
      OBVIOUS
  <2>1. InUse = {}
    BY DEF Init, InUse, Refreshing, At, Idle
  <2>2. \A l \in Tokens : GrantOf(l) = "none"
    BY <2>1 DEF Init, GrantOf, Root
  <2> QED BY <2>2, Mapping
<1>2. IInv /\ Lineage /\ [Next]_vars => Grant!Next
  <2> SUFFICES ASSUME IInv, Lineage, [Next]_vars PROVE Grant!Next
      OBVIOUS
  <2> QED BY StepShapes, OldStepCloses, RenewCloses, LoginOpens DEF Grant!Next
<1> QED BY <1>1, <1>2, IInvHolds, LineageHolds, PTL DEF Spec, LoginsEndOnce, Grant!Spec
=============================================================================
