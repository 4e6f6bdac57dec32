---------------------------- MODULE Credentials ----------------------------
(***************************************************************************)
(* The credentials in a row of the users table: the count of failed logins *)
(* and the lock it leads to (loginUser of src/src/services/auth.service.js)*)
(* and the code that resets a password (requestOTP, processResetPassword). *)
(*                                                                         *)
(* A handler reads the row, awaits bcrypt, and writes what it computed from*)
(* the row it read; nothing locks the row in between.                      *)
(***************************************************************************)
EXTENDS Naturals, FiniteSets

CONSTANTS Users, Requests,
          MaxAttempts,  \* 5
          MaxCode       \* bound: reset codes a user is sent

ASSUME CredentialsAssumption == MaxAttempts \in Nat \ {0} /\ MaxCode \in Nat

Codes == 1 .. MaxCode

VARIABLES
    attempts,   \* failedLoginAttempts; MaxAttempts stands for it and more
    lockedUntil, \* of a user: nothing, or a time that is past or to come
    code,       \* the reset code that would be accepted, 0 when there is none
    request,    \* what each request does next
    \* history
    wrong,      \* wrong guesses since the count was reset, counted alike
    carried,    \* users with a guess under way, or a lock that stayed, when
                \* their count was reset
    codes,      \* how many codes were sent
    spent       \* codes that reset a password

rowVars     == <<attempts, lockedUntil, code>>
historyVars == <<wrong, carried, codes, spent>>
vars        == <<rowVars, request, historyVars>>

\* Beyond MaxAttempts nothing tells two counts apart.
Succ(n) == IF n < MaxAttempts THEN n + 1 ELSE MaxAttempts

Idle  == [at |-> "idle"]
Tasks == {Idle}
    \cup [at : {"wrong"}, user : Users, seen : 0 .. MaxAttempts]
    \cup [at : {"right"}, user : Users, seen : 0 .. MaxAttempts, lapsed : BOOLEAN]
    \cup [at : {"lock"}, user : Users]
    \cup [at : {"reset"}, user : Users, code : Codes]

At(r, step, u)   == request[r].at = step /\ request[r].user = u
IsIdle(r)        == request[r] = Idle
Locked(u)        == lockedUntil[u] = "future"
Becomes(r, task) == request' = [request EXCEPT ![r] = task]

Init == /\ attempts = [u \in Users |-> 0]
        /\ lockedUntil = [u \in Users |-> "none"]
        /\ code = [u \in Users |-> 0]
        /\ request = [r \in Requests |-> Idle]
        /\ wrong = [u \in Users |-> 0] /\ carried = {}
        /\ codes = [u \in Users |-> 0] /\ spent = [u \in Users |-> {}]

-----------------------------------------------------------------------------
(* loginUser                                                               *)

\* The row is read and bcrypt compares.
Guess(r, u) ==
    /\ IsIdle(r)
    /\ ~Locked(u)
    /\ \/ Becomes(r, [at |-> "wrong", user |-> u, seen |-> attempts[u]])
       \/ Becomes(r, [at |-> "right", user |-> u, seen |-> attempts[u],
                      lapsed |-> lockedUntil[u] = "past"])
    /\ UNCHANGED <<rowVars, historyVars>>

\* Mutant: one attempt too early.
LocksEarly(n) == n + 1 >= MaxAttempts

\* Mutant: the refusal is thrown before the lock is written.
LocksNever(n) == FALSE

Locks(n) == n >= MaxAttempts

WrongGuess(r, u) ==
    /\ At(r, "wrong", u)
    /\ LET n == Succ(request[r].seen)
       IN /\ attempts' = [attempts EXCEPT ![u] = n]
          /\ Becomes(r, IF Locks(n) THEN [at |-> "lock", user |-> u] ELSE Idle)
    /\ wrong' = [wrong EXCEPT ![u] = Succ(@)]
    /\ UNCHANGED <<lockedUntil, code, carried, codes, spent>>

Lock(r, u) ==
    /\ At(r, "lock", u)
    /\ lockedUntil' = [lockedUntil EXCEPT ![u] = "future"]
    /\ Becomes(r, Idle)
    /\ UNCHANGED <<attempts, code, historyVars>>

\* The count is reset when the row that was read had one; lockedUntil with it,
\* but only when that row had one too: an update writes the columns that change.
RightGuess(r, u) ==
    /\ At(r, "right", u)
    /\ IF request[r].seen = 0
       THEN UNCHANGED <<attempts, lockedUntil, wrong, carried>>
       ELSE /\ attempts' = [attempts EXCEPT ![u] = 0]
            /\ lockedUntil' = [lockedUntil EXCEPT ![u] =
                                   IF request[r].lapsed THEN "none" ELSE @]
            /\ wrong' = [wrong EXCEPT ![u] = 0]
            /\ carried' = IF \/ Locked(u)'
                             \/ \E q \in Requests \ {r} : At(q, "wrong", u) \/ At(q, "lock", u)
                          THEN carried \cup {u} ELSE carried \ {u}
    /\ Becomes(r, Idle)
    /\ UNCHANGED <<code, codes, spent>>

\* Fifteen minutes later; the count stays.
LockLapses(u) ==
    /\ Locked(u)
    /\ lockedUntil' = [lockedUntil EXCEPT ![u] = "past"]
    /\ UNCHANGED <<attempts, code, request, historyVars>>

-----------------------------------------------------------------------------
(* requestOTP and processResetPassword                                     *)

\* The new code replaces the one before.
RequestOTP(u) ==
    /\ codes[u] < MaxCode
    /\ codes' = [codes EXCEPT ![u] = @ + 1]
    /\ code' = [code EXCEPT ![u] = codes[u] + 1]
    /\ UNCHANGED <<attempts, lockedUntil, request, wrong, carried, spent>>

\* otpExpiredAt, five minutes later.
CodeExpires(u) ==
    /\ code[u] # 0
    /\ code' = [code EXCEPT ![u] = 0]
    /\ UNCHANGED <<attempts, lockedUntil, request, historyVars>>

\* Mutant: no code is as good as the row that has none.
HasCodeOrNone(u) == TRUE

HasCode(u) == code[u] # 0

\* The code a user gives is compared with the row, and the new password hashed.
GiveCode(r, u) ==
    /\ IsIdle(r)
    /\ HasCode(u)
    /\ Becomes(r, [at |-> "reset", user |-> u, code |-> code[u]])
    /\ UNCHANGED <<rowVars, historyVars>>

\* Mutant: the code is left to expire.
ClearNothing(u) == UNCHANGED code

\* otpCode: null, whichever code is there by now.
ClearCode(u) == code' = [code EXCEPT ![u] = 0]

ResetPassword(r, u) ==
    /\ At(r, "reset", u)
    /\ ClearCode(u)
    /\ spent' = [spent EXCEPT ![u] = @ \cup {request[r].code}]
    /\ Becomes(r, Idle)
    /\ UNCHANGED <<attempts, lockedUntil, wrong, carried, codes>>

-----------------------------------------------------------------------------
\* The next statement fails, or the process ends before it.
Fail(r) ==
    /\ ~IsIdle(r)
    /\ Becomes(r, Idle)
    /\ UNCHANGED <<rowVars, historyVars>>

Next == \/ \E r \in Requests, u \in Users :
              \/ Guess(r, u) \/ WrongGuess(r, u) \/ RightGuess(r, u) \/ Lock(r, u)
              \/ GiveCode(r, u) \/ ResetPassword(r, u)
        \/ \E r \in Requests : Fail(r)
        \/ \E u \in Users : LockLapses(u) \/ RequestOTP(u) \/ CodeExpires(u)

Spec == Init /\ [][Next]_vars

-----------------------------------------------------------------------------
(* Properties                                                              *)

\* The values the variables take.
TypeOK ==
    /\ attempts \in [Users -> 0 .. MaxAttempts] /\ wrong \in [Users -> 0 .. MaxAttempts]
    /\ lockedUntil \in [Users -> {"none", "past", "future"}] /\ carried \subseteq Users
    /\ code \in [Users -> {0} \cup Codes] /\ codes \in [Users -> 0 .. MaxCode]
    /\ spent \in [Users -> SUBSET Codes]
    /\ request \in [Requests -> Tasks]

\* Guesses that run side by side count as one at worst, never as more: an
\* account is locked, or about to be, only after MaxAttempts wrong guesses
\* since its last successful login, but for guesses and locks that overlapped
\* that login.
NeverLockedEarly ==
    \A u \in Users :
        Locked(u) \/ (\E r \in Requests : At(r, "lock", u)) =>
            wrong[u] = MaxAttempts \/ u \in carried

\* Whoever goes on guessing is locked out again and again, although guesses
\* that run side by side overwrite each other's counts: without a successful
\* login no schedule keeps the count down, unless the write of the lock itself
\* goes on failing.
LockFails(r, u) == At(r, "lock", u) /\ Fail(r)

GuessingLocks ==
    \A u \in Users :
        []<><<\E r \in Requests : WrongGuess(r, u)>>_vars
        /\ <>[][\A r \in Requests : ~RightGuess(r, u) /\ ~LockFails(r, u)]_vars
            => []<>Locked(u)

\* A reset code changes a password once: only requests that read it before
\* the change was written use it again.
CodesAreSpent ==
    [][\A r \in Requests, u \in Users :
         At(r, "reset", u)' /\ request'[r] # request[r] =>
             request'[r].code \notin spent[u]]_vars
=============================================================================
