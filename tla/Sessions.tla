------------------------------ MODULE Sessions ------------------------------
(***************************************************************************)
(* The sessions table: src/src/services/session.service.js and its callers *)
(* auth.service.js (login, refresh, password changes, logout),             *)
(* session.controller.js (an administrator's revocations) and the nightly  *)
(* clean-up.                                                               *)
(*                                                                         *)
(* Every await of a handler is a point where other requests run, so a      *)
(* handler is a chain of steps and request[r] says what r does next.  No   *)
(* transaction spans two of them: a database error or a crash between two  *)
(* steps (Fail) leaves what the first ones wrote.                          *)
(*                                                                         *)
(* A refresh token is 32 random bytes; its row is found by its hash.  A    *)
(* token stands here for its row too, and for the user it is issued to.    *)
(***************************************************************************)
EXTENDS Naturals, FiniteSets

CONSTANTS Users, Tokens, Requests,
          Owner,        \* the user a token is issued to, if it ever is
          MaxPassword   \* bound: passwords a user sets

ASSUME SessionsAssumption == Owner \in [Tokens -> Users] /\ MaxPassword \in Nat

Passwords == 0 .. MaxPassword

VARIABLES
    password,   \* of a user; each new one is one more than the last
    \* the sessions table
    live,       \* tokens with isRevoked = false and isActive = true
    expired,    \* those of them whose expiredAt has passed
    request,    \* what each request does next
    \* history
    issued,     \* tokens that got a row; unless live it is revoked or deleted
    login,      \* the login a token descends from, named by its first token
    checked,    \* the password that login gave
    forked,     \* logins refreshed twice with one token before either revoked it
    overtaken,  \* requests during which all sessions of their user were revoked
    escaped,    \* logins that got a session from such a request
    unrevoked   \* users whose last password change failed before the revocation

tableVars   == <<live, expired>>
lineageVars == <<issued, login, checked>>
excuseVars  == <<forked, overtaken, escaped, unrevoked>>
vars == <<password, tableVars, request, lineageVars, excuseVars>>

Of(u) == {t \in Tokens : Owner[t] = u}
Dead  == issued \ live

\* Rows are revoked or deleted, of which there is no way back.
Kill(S) == live' = live \ S /\ expired' = expired \ S

Idle  == [at |-> "idle"]
Tasks == {Idle}
    \cup [at : {"login"}, user : Users, password : Passwords]
    \cup [at : {"rotate", "renew", "revoke", "delete"}, token : Tokens]
    \cup [at : {"change", "revokeAll"}, user : Users]

At(r, steps) == request[r].at \in steps
Becomes(r, task) == request' = [request EXCEPT ![r] = task]

\* The answer is sent, or the request fails.
Ends(r) == /\ Becomes(r, Idle)
           /\ overtaken' = overtaken \ {r}

\* A refresh between the validation of its token and the new session.
Refreshing(r) == At(r, {"rotate", "renew"})

\* A request that may still create a session for u.
Acquires(r, u) == \/ At(r, {"login"}) /\ request[r].user = u
                  \/ Refreshing(r) /\ Owner[request[r].token] = u

Init == /\ password = [u \in Users |-> 0]
        /\ live = {} /\ expired = {}
        /\ request = [r \in Requests |-> Idle]
        /\ issued = {}
        /\ login = [t \in Tokens |-> t]
        /\ checked = [t \in Tokens |-> 0]
        /\ forked = {} /\ overtaken = {} /\ escaped = {} /\ unrevoked = {}

-----------------------------------------------------------------------------
(* createSession: a row for a fresh token t of the login l, which gave the *)
(* password p.                                                             *)

CreateSession(r, t, l, p) ==
    /\ t \notin issued
    /\ issued' = issued \cup {t}
    /\ live' = live \cup {t}
    /\ login' = [login EXCEPT ![t] = l]
    /\ checked' = [checked EXCEPT ![l] = p]
    /\ escaped' = IF r \in overtaken THEN escaped \cup {l} ELSE escaped
    /\ Ends(r)
    /\ UNCHANGED <<password, expired, forked, unrevoked>>

-----------------------------------------------------------------------------
(* loginUser, of a user who gives the password of the row; Credentials     *)
(* models the wrong guesses and the lock.                                  *)

Login(r, u) ==
    /\ At(r, {"idle"})
    /\ Becomes(r, [at |-> "login", user |-> u, password |-> password[u]])
    /\ UNCHANGED <<password, tableVars, lineageVars, excuseVars>>

LoginCreates(r, t) ==
    /\ At(r, {"login"})
    /\ Owner[t] = request[r].user
    /\ CreateSession(r, t, t, request[r].password)

-----------------------------------------------------------------------------
(* refreshUserToken and validateSession                                    *)

\* Mutant: isRevoked and isActive are not asked for.
IsValidAnyRow(t) == t \in issued

\* The row validateSession looks for.
IsValid(t) == t \in live

\* Found: an expired row is revoked next, another is touched (its
\* lastActivityAt), the user's row is read and the token revoked.
Refresh(r, t) ==
    /\ At(r, {"idle"})
    /\ IsValid(t)
    /\ Becomes(r, [at |-> IF t \in expired THEN "revoke" ELSE "rotate", token |-> t])
    /\ forked' = IF /\ t \notin expired
                    /\ \E q \in Requests : At(q, {"rotate"}) /\ request[q].token = t
                 THEN forked \cup {login[t]} ELSE forked
    /\ UNCHANGED <<password, tableVars, lineageVars,
                   overtaken, escaped, unrevoked>>

\* revokeSession: by hash, whatever the row says by now.
RevokeSession(t) == Kill({t})

\* Mutant: the new session first, the old one revoked afterwards or never.
RotateKeeps(r) ==
    /\ At(r, {"rotate"})
    /\ Becomes(r, [request[r] EXCEPT !.at = "renew"])
    /\ UNCHANGED <<password, tableVars, lineageVars, excuseVars>>

Rotate(r) ==
    /\ At(r, {"rotate"})
    /\ RevokeSession(request[r].token)
    /\ Becomes(r, [request[r] EXCEPT !.at = "renew"])
    /\ UNCHANGED <<password, lineageVars, excuseVars>>

Renew(r, t) ==
    /\ At(r, {"renew"})
    /\ Owner[t] = Owner[request[r].token]
    /\ LET l == login[request[r].token] IN CreateSession(r, t, l, checked[l])

-----------------------------------------------------------------------------
(* Passwords                                                               *)

\* justUpdatePassword and processResetPassword, up to the hash of the new
\* password.  The auth middleware in front of the first looks at the account,
\* not at its sessions; the second has checked a reset code.
ChangePassword(r, u) ==
    /\ At(r, {"idle"})
    /\ Becomes(r, [at |-> "change", user |-> u])
    /\ UNCHANGED <<password, tableVars, lineageVars, excuseVars>>

\* Mutant: the sessions are left to expire.
SetPasswordOnly(r) ==
    /\ At(r, {"change"})
    /\ password[request[r].user] < MaxPassword
    /\ password' = [password EXCEPT ![request[r].user] = @ + 1]
    /\ Ends(r)
    /\ UNCHANGED <<tableVars, lineageVars, forked, escaped, unrevoked>>

SetPassword(r) ==
    /\ At(r, {"change"})
    /\ password[request[r].user] < MaxPassword
    /\ password' = [password EXCEPT ![request[r].user] = @ + 1]
    /\ Becomes(r, [request[r] EXCEPT !.at = "revokeAll"])
    /\ UNCHANGED <<tableVars, lineageVars, excuseVars>>

\* Mutant: the update sets isRevoked to false.
RestoreSessionsOf(u) == live' = live \cup Of(u) /\ UNCHANGED expired

\* where userId and isRevoked = false
RevokeSessionsOf(u) == Kill(Of(u))

\* revokeAllSessions: one statement, the last of the requests in done.
RevokeAllSessions(u, done) ==
    /\ RevokeSessionsOf(u)
    /\ overtaken' = (overtaken \cup {r \in Requests : Acquires(r, u)}) \ done
    /\ unrevoked' = unrevoked \ {u}
    /\ UNCHANGED <<password, lineageVars, forked, escaped>>

\* The last step of a new password, and of a refresh that names a session
\* which is not the one of its token.
RevokeAll(r) ==
    /\ \/ At(r, {"revokeAll"}) /\ RevokeAllSessions(request[r].user, {r})
       \/ At(r, {"rotate"}) /\ RevokeAllSessions(Owner[request[r].token], {r})
    /\ Becomes(r, Idle)

-----------------------------------------------------------------------------
(* Logouts and an administrator's handlers                                 *)

\* logoutSession, of the token in hand.
Logout(t) ==
    /\ RevokeSession(t)
    /\ UNCHANGED <<password, request, lineageVars, excuseVars>>

\* logoutAllUserSessions (which fails after its update: cacheKeys has no
\* userSessions) and revokeAllUserSessions.
LogoutAll(u) ==
    /\ RevokeAllSessions(u, {})
    /\ UNCHANGED request

\* What revokeSession and deleteSession of the controller check on the row.
MayRevoke(t) == t \in live

\* Mutant: the check of deleteSession is left out.
MayDeleteAny(t) == t \in issued

MayDelete(t) == t \in Dead \cup expired

AdminFinds(r, t) ==
    /\ At(r, {"idle"})
    /\ \/ MayRevoke(t) /\ Becomes(r, [at |-> "revoke", token |-> t])
       \/ MayDelete(t) /\ Becomes(r, [at |-> "delete", token |-> t])
    /\ UNCHANGED <<password, tableVars, lineageVars, excuseVars>>

\* session.update and session.destroy, by id: of an administrator, and of
\* validateSession when the row has expired.
KillFound(r) ==
    /\ At(r, {"revoke", "delete"})
    /\ Kill({request[r].token})
    /\ Ends(r)
    /\ UNCHANGED <<password, lineageVars, forked, escaped, unrevoked>>

\* From a cron job.
CleanupExpiredSessions ==
    /\ Kill(expired)
    /\ UNCHANGED <<password, request, lineageVars, excuseVars>>

-----------------------------------------------------------------------------
(* Time and failures                                                       *)

Expire(t) ==
    /\ t \in live \ expired
    /\ expired' = expired \cup {t}
    /\ UNCHANGED <<password, live, request, lineageVars, excuseVars>>

\* The next statement fails, or the process ends before it; or a refresh finds
\* that its user was deleted.
Fail(r) ==
    /\ ~At(r, {"idle"})
    /\ unrevoked' = IF At(r, {"revokeAll"}) THEN unrevoked \cup {request[r].user}
                    ELSE unrevoked
    /\ Ends(r)
    /\ UNCHANGED <<password, tableVars, lineageVars, forked, escaped>>

-----------------------------------------------------------------------------
Step(r) == \/ Rotate(r) \/ SetPassword(r) \/ RevokeAll(r)
           \/ KillFound(r) \/ Fail(r)
           \/ \E t \in Tokens : LoginCreates(r, t) \/ Renew(r, t)

Start(r) == \/ \E u \in Users : Login(r, u) \/ ChangePassword(r, u)
            \/ \E t \in Tokens : Refresh(r, t) \/ AdminFinds(r, t)

Next == \/ \E r \in Requests : Start(r) \/ Step(r)
        \/ \E u \in Users : LogoutAll(u)
        \/ \E t \in Tokens : Logout(t) \/ Expire(t)
        \/ CleanupExpiredSessions

Spec == Init /\ [][Next]_vars

-----------------------------------------------------------------------------
(* Properties                                                              *)

\* The values the variables take; only what createSession inserted is live.
TypeOK ==
    /\ password \in [Users -> Passwords]
    /\ issued \subseteq Tokens /\ live \subseteq issued /\ expired \subseteq live
    /\ request \in [Requests -> Tasks]
    /\ login \in [Tokens -> Tokens] /\ checked \in [Tokens -> Passwords]
    /\ forked \subseteq Tokens /\ escaped \subseteq Tokens
    /\ overtaken \subseteq Requests /\ unrevoked \subseteq Users

\* A login keeps one live session however often it is refreshed and wherever
\* a refresh fails, unless two refreshes read the same token before either
\* revoked it.
OneLivePerLogin ==
    \A s, t \in live : login[s] = login[t] => s = t \/ login[s] \in forked

\* Whoever logged in with an old password has no live session: only a request
\* that was under way while the sessions were revoked, or a revocation that
\* failed after the password was written, leaves one.
PasswordEndsSessions ==
    \A t \in live :
        \/ checked[login[t]] = password[Owner[t]]
        \/ login[t] \in escaped
        \/ Owner[t] \in unrevoked
        \/ \E r \in Requests : request[r] = [at |-> "revokeAll", user |-> Owner[t]]

\* MEMORY.md:236 of a password change: "clears all sessions"; the comment at
\* auth.service.js:426: "invalidates all active refresh tokens".  So a login
\* that had a session then is over.
PasswordChangeClearsAll ==
    \A t \in live :
        \/ checked[login[t]] = password[Owner[t]]
        \/ login[t] = t
        \/ Owner[t] \in unrevoked
        \/ \E r \in Requests : ~At(r, {"idle"})

\* A login whose sessions are all gone, with no refresh of it under way, gets
\* no session again: nothing resurrects a revoked, expired or deleted token.
InUse == {login[t] : t \in live}
    \cup {login[request[r].token] : r \in {q \in Requests : Refreshing(q)}}

Grant == INSTANCE Grants WITH
    Logins <- Tokens,
    grant  <- LET used == InUse
              IN [l \in Tokens |-> IF l \in used THEN "open"
                                   ELSE IF l \in issued /\ login[l] = l THEN "closed"
                                   ELSE "none"]

LoginsEndOnce == Grant!Spec

\* Whatever happened since the administrator's deletion read the row, the row
\* it destroys is not that of a session in use.
OnlyTheDeadAreDeleted ==
    \A r \in Requests : At(r, {"delete"}) => request[r].token \in Dead \cup expired
=============================================================================
