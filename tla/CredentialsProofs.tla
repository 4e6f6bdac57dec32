------------------------- MODULE CredentialsProofs --------------------------
(***************************************************************************)
(* What the counter, the lock and the reset code of an account keep, for   *)
(* any number of users, requests, attempts and codes.                      *)
(***************************************************************************)
EXTENDS Credentials, TLAPS

\* The count that was stored or read is no more than the guesses made, but for
\* a count that a successful login reset meanwhile.
CountsGuesses ==
    \A u \in Users : u \notin carried =>
        /\ attempts[u] <= wrong[u]
        /\ \A r \in Requests : At(r, "wrong", u) => request[r].seen <= wrong[u]

\* Codes are numbered as they are sent, and the code in the row is unspent.
CodesInOrder ==
    \A u \in Users :
        /\ code[u] <= codes[u]
        /\ code[u] # 0 => code[u] \notin spent[u]
        /\ \A c \in spent[u] : c <= codes[u]
        /\ \A r \in Requests : At(r, "reset", u) => request[r].code <= codes[u]

IInv == TypeOK /\ CountsGuesses /\ NeverLockedEarly /\ CodesInOrder

-----------------------------------------------------------------------------
\* One more guess counts, up to the bound.
LEMMA SuccFacts ==
    ASSUME NEW n \in 0 .. MaxAttempts
    PROVE  /\ Succ(n) \in 0 .. MaxAttempts
           /\ n <= Succ(n)
           /\ \A m \in 0 .. MaxAttempts : m <= n => Succ(m) <= Succ(n)
           /\ \A m \in 0 .. MaxAttempts : Locks(m) => m = MaxAttempts
BY CredentialsAssumption DEF Succ, Locks

\* What a request holds.
LEMMA TaskTypes ==
    ASSUME TypeOK, NEW r \in Requests, NEW u \in Users
    PROVE  /\ At(r, "wrong", u) \/ At(r, "right", u) => request[r].seen \in 0 .. MaxAttempts
           /\ At(r, "reset", u) => request[r].code \in Codes
BY DEF TypeOK, Tasks, Idle, At

\* The tasks a request can be given.
LEMMA TaskMembers ==
    /\ Idle \in Tasks
    /\ \A u \in Users, n \in 0 .. MaxAttempts : [at |-> "wrong", user |-> u, seen |-> n] \in Tasks
    /\ \A u \in Users, n \in 0 .. MaxAttempts, l \in BOOLEAN :
          [at |-> "right", user |-> u, seen |-> n, lapsed |-> l] \in Tasks
    /\ \A u \in Users : [at |-> "lock", user |-> u] \in Tasks
    /\ \A u \in Users, c \in Codes : [at |-> "reset", user |-> u, code |-> c] \in Tasks
BY DEF Tasks

\* Only the task of r changes.
LEMMA BecomesFacts ==
    ASSUME TypeOK, NEW r \in Requests, NEW task \in Tasks, Becomes(r, task)
    PROVE  /\ request' \in [Requests -> Tasks]
           /\ request'[r] = task
           /\ \A q \in Requests \ {r} : request'[q] = request[q]
BY DEF TypeOK, Becomes

\* No account and no request.
LEMMA InitIInv == Init => IInv
<1> SUFFICES ASSUME Init PROVE IInv
    OBVIOUS
<1>1. \A r \in Requests, u \in Users, s \in {"wrong", "lock", "reset"} : ~At(r, s, u)
  BY DEF Init, At, Idle
<1>2. TypeOK
  BY CredentialsAssumption, TaskMembers DEF Init, TypeOK, Codes
<1>3. CountsGuesses /\ NeverLockedEarly /\ CodesInOrder
  BY <1>1 DEF Locked, Init, CountsGuesses, NeverLockedEarly, CodesInOrder
<1> QED BY <1>2, <1>3 DEF IInv

-----------------------------------------------------------------------------
(* loginUser                                                               *)

\* A guess reads the count as it is.
LEMMA GuessKeeps ==
    ASSUME IInv, NEW r \in Requests, NEW u \in Users, Guess(r, u)
    PROVE  IInv'
<1> USE DEF IInv
<1> DEFINE wrongTask == [at |-> "wrong", user |-> u, seen |-> attempts[u]]
           rightTask == [at |-> "right", user |-> u, seen |-> attempts[u],
                         lapsed |-> lockedUntil[u] = "past"]
<1>1. PICK task \in {wrongTask, rightTask} : Becomes(r, task)
  BY DEF Guess
<1>2. wrongTask \in Tasks /\ rightTask \in Tasks
  BY TaskMembers DEF TypeOK
<1>3. /\ request' \in [Requests -> Tasks]
      /\ request'[r] \in {wrongTask, rightTask}
      /\ \A q \in Requests \ {r} : request'[q] = request[q]
  <2> HIDE DEF wrongTask, rightTask
  <2> QED BY <1>1, <1>2, BecomesFacts
<1>4. UNCHANGED <<attempts, lockedUntil, code, wrong, carried, codes, spent>>
  BY DEF Guess, rowVars, historyVars
<1>5. TypeOK'
  BY <1>3, <1>4 DEF TypeOK
<1>6. CountsGuesses'
  BY <1>3, <1>4 DEF CountsGuesses, At
<1>7. NeverLockedEarly' /\ CodesInOrder'
  BY <1>3, <1>4 DEF NeverLockedEarly, CodesInOrder, At, Locked
<1> QED BY <1>5, <1>6, <1>7

\* The count that is written is at most the guesses made, this one included.
LEMMA WrongGuessKeeps ==
    ASSUME IInv, NEW r \in Requests, NEW u \in Users, WrongGuess(r, u)
    PROVE  IInv'
<1> USE DEF IInv
<1> DEFINE n    == Succ(request[r].seen)
           task == IF Locks(n) THEN [at |-> "lock", user |-> u] ELSE Idle
<1>1. /\ At(r, "wrong", u)
      /\ attempts' = [attempts EXCEPT ![u] = n]
      /\ Becomes(r, task)
      /\ wrong' = [wrong EXCEPT ![u] = Succ(@)]
      /\ UNCHANGED <<lockedUntil, code, carried, codes, spent>>
  BY DEF WrongGuess
<1>2. request[r].seen \in 0 .. MaxAttempts /\ wrong[u] \in 0 .. MaxAttempts
  BY <1>1, TaskTypes DEF TypeOK
<1>3. /\ n \in 0 .. MaxAttempts /\ Succ(wrong[u]) \in 0 .. MaxAttempts
      /\ wrong[u] <= Succ(wrong[u])
      /\ u \notin carried => n <= Succ(wrong[u])
      /\ Locks(n) => n = MaxAttempts
  BY <1>1, <1>2, SuccFacts DEF CountsGuesses
<1>4. task \in Tasks /\ (task = Idle \/ (Locks(n) /\ task = [at |-> "lock", user |-> u]))
  BY TaskMembers
<1> HIDE DEF n, task
<1>5. /\ request' \in [Requests -> Tasks]
      /\ request'[r] = task
      /\ \A q \in Requests \ {r} : request'[q] = request[q]
  BY <1>1, <1>4, BecomesFacts
<1>6. TypeOK'
  BY <1>1, <1>3, <1>5 DEF TypeOK
<1>7. /\ attempts'[u] = n /\ wrong'[u] = Succ(wrong[u])
      /\ \A w \in Users \ {u} : attempts'[w] = attempts[w] /\ wrong'[w] = wrong[w]
  BY <1>1 DEF TypeOK
<1>8. \A q \in Requests, w \in Users : At(q, "wrong", w)' => q # r /\ At(q, "wrong", w)
  BY <1>4, <1>5 DEF At, Idle
<1>9. CountsGuesses'
  <2> SUFFICES ASSUME NEW w \in Users, w \notin carried'
               PROVE  /\ attempts'[w] <= wrong'[w]
                      /\ \A q \in Requests : At(q, "wrong", w)' => request'[q].seen <= wrong'[w]
      BY DEF CountsGuesses
  <2>1. ASSUME NEW q \in Requests, At(q, "wrong", w)'
        PROVE  request'[q].seen <= wrong'[w]
    <3>1. At(q, "wrong", w) /\ request'[q] = request[q]
      BY <1>5, <1>8, <2>1
    <3>2. request[q].seen \in 0 .. MaxAttempts /\ request[q].seen <= wrong[w]
      BY <1>1, <3>1, TaskTypes DEF CountsGuesses
    <3> QED BY <1>2, <1>3, <1>7, <3>1, <3>2
  <2> QED BY <1>1, <1>3, <1>7, <2>1 DEF CountsGuesses
<1>10. NeverLockedEarly'
  <2> SUFFICES ASSUME NEW w \in Users, w \notin carried',
                      Locked(w)' \/ \E q \in Requests : At(q, "lock", w)'
               PROVE  wrong'[w] = MaxAttempts
      BY DEF NeverLockedEarly
  <2>1. CASE At(r, "lock", w)'
    <3>1. Locks(n) /\ w = u
      BY <1>4, <1>5, <2>1 DEF At, Idle
    <3> QED BY <1>1, <1>3, <1>7, <3>1, CredentialsAssumption
  <2>2. CASE ~At(r, "lock", w)'
    <3>1. Locked(w) \/ \E q \in Requests : At(q, "lock", w)
      BY <1>1, <1>5, <2>2 DEF Locked, At
    <3>2. wrong[w] = MaxAttempts
      BY <1>1, <3>1 DEF NeverLockedEarly
    <3> QED BY <1>3, <1>7, <3>2, CredentialsAssumption
  <2> QED BY <2>1, <2>2
<1>11. CodesInOrder'
  BY <1>1, <1>4, <1>5 DEF CodesInOrder, At, Idle
<1> QED BY <1>6, <1>9, <1>10, <1>11

\* The lock that was due is written, or the request ends before.
LEMMA LockKeeps ==
    ASSUME IInv, NEW r \in Requests,
           \/ \E u \in Users : Lock(r, u)
           \/ Fail(r)
    PROVE  IInv'
<1> USE DEF IInv
<1>1. /\ Becomes(r, Idle)
      /\ UNCHANGED <<attempts, code, wrong, carried, codes, spent>>
      /\ lockedUntil' \in [Users -> {"none", "past", "future"}]
      /\ \A u \in Users : Locked(u)' => Locked(u) \/ At(r, "lock", u)
  BY DEF Lock, Fail, Locked, TypeOK, rowVars, historyVars
<1>2. /\ request' \in [Requests -> Tasks]
      /\ request'[r] = Idle
      /\ \A q \in Requests \ {r} : request'[q] = request[q]
  BY <1>1, TaskMembers, BecomesFacts
<1>3. TypeOK'
  BY <1>1, <1>2 DEF TypeOK
<1>4. \A q \in Requests, u \in Users, s \in {"wrong", "lock", "reset"} :
          At(q, s, u)' => At(q, s, u) /\ request'[q] = request[q]
  BY <1>2 DEF At, Idle
<1>5. CountsGuesses' /\ CodesInOrder'
  BY <1>1, <1>4 DEF CountsGuesses, CodesInOrder
<1>6. NeverLockedEarly'
  BY <1>1, <1>4 DEF NeverLockedEarly
<1> QED BY <1>3, <1>5, <1>6

\* The count is reset; a guess that read it before stays a reason to lock.
LEMMA RightGuessKeeps ==
    ASSUME IInv, NEW r \in Requests, NEW u \in Users, RightGuess(r, u)
    PROVE  IInv'
<1> USE DEF IInv
<1>1. At(r, "right", u) /\ Becomes(r, Idle) /\ UNCHANGED <<code, codes, spent>>
  BY DEF RightGuess
<1>2. /\ request' \in [Requests -> Tasks]
      /\ request'[r] = Idle
      /\ \A q \in Requests \ {r} : request'[q] = request[q]
  BY <1>1, TaskMembers, BecomesFacts
<1>3. \A q \in Requests, w \in Users, s \in {"wrong", "lock", "reset"} :
          At(q, s, w)' => q # r /\ At(q, s, w) /\ request'[q] = request[q]
  BY <1>2 DEF At, Idle
<1>4. CodesInOrder'
  BY <1>1, <1>3 DEF CodesInOrder
<1>5. CASE request[r].seen = 0
  <2>1. UNCHANGED <<attempts, lockedUntil, wrong, carried>>
    BY <1>5 DEF RightGuess
  <2>2. TypeOK'
    BY <1>1, <1>2, <2>1 DEF TypeOK
  <2>3. CountsGuesses' /\ NeverLockedEarly'
    BY <1>3, <2>1 DEF Locked, CountsGuesses, NeverLockedEarly
  <2> QED BY <1>4, <2>2, <2>3
<1>6. CASE request[r].seen # 0
  <2>1. /\ attempts' = [attempts EXCEPT ![u] = 0]
        /\ lockedUntil' = [lockedUntil EXCEPT ![u] = IF request[r].lapsed THEN "none" ELSE @]
        /\ wrong' = [wrong EXCEPT ![u] = 0]
        /\ carried' = IF \/ Locked(u)'
                         \/ \E q \in Requests \ {r} : At(q, "wrong", u) \/ At(q, "lock", u)
                      THEN carried \cup {u} ELSE carried \ {u}
    BY <1>6 DEF RightGuess
  <2>2. /\ attempts'[u] = 0 /\ wrong'[u] = 0
        /\ \A w \in Users \ {u} : attempts'[w] = attempts[w] /\ wrong'[w] = wrong[w]
    BY <2>1 DEF TypeOK
  <2>3. TypeOK'
    BY <1>1, <1>2, <2>1, CredentialsAssumption DEF TypeOK
  <2>4. u \notin carried' => /\ ~Locked(u)'
                             /\ \A q \in Requests : ~At(q, "wrong", u)' /\ ~At(q, "lock", u)'
    BY <1>3, <2>1
  <2>5. \A w \in Users \ {u} : w \in carried' <=> w \in carried
    BY <2>1
  <2>6. CountsGuesses'
    BY <1>3, <2>2, <2>4, <2>5 DEF CountsGuesses
  <2>6a. \A w \in Users \ {u} : Locked(w)' <=> Locked(w)
    BY <2>1 DEF Locked, TypeOK
  <2>7. NeverLockedEarly'
    BY <1>3, <2>2, <2>4, <2>5, <2>6a DEF NeverLockedEarly
  <2> QED BY <1>4, <2>3, <2>6, <2>7
<1> QED BY <1>5, <1>6

-----------------------------------------------------------------------------
(* requestOTP and processResetPassword                                     *)

\* A new code is one that was never spent.
LEMMA RequestOTPKeeps ==
    ASSUME IInv, NEW u \in Users, RequestOTP(u)
    PROVE  IInv'
<1> USE DEF IInv
<1>1. /\ codes[u] < MaxCode
      /\ codes' = [codes EXCEPT ![u] = @ + 1]
      /\ code' = [code EXCEPT ![u] = codes[u] + 1]
      /\ UNCHANGED <<attempts, lockedUntil, request, wrong, carried, spent>>
  BY DEF RequestOTP
<1>2. /\ codes[u] \in Nat /\ codes[u] + 1 \in Codes /\ codes[u] + 1 \in 0 .. MaxCode
      /\ codes'[u] = codes[u] + 1 /\ code'[u] = codes[u] + 1
      /\ \A w \in Users \ {u} : codes'[w] = codes[w] /\ code'[w] = code[w]
  BY <1>1, CredentialsAssumption DEF TypeOK, Codes
<1>3. TypeOK'
  BY <1>1, <1>2 DEF TypeOK
<1>4. CountsGuesses' /\ NeverLockedEarly'
  BY <1>1 DEF Locked, CountsGuesses, NeverLockedEarly, At
<1>5. CodesInOrder'
  <2>1. \A c \in spent[u] : c \in Nat /\ c <= codes[u]
    BY DEF TypeOK, Codes, CodesInOrder
  <2>2. \A r \in Requests : At(r, "reset", u) =>
            request[r].code \in Nat /\ request[r].code <= codes[u]
    BY TaskTypes DEF CodesInOrder, Codes
  <2>3. \A r \in Requests, w \in Users : At(r, "reset", w)' <=> At(r, "reset", w)
    BY <1>1 DEF At
  <2> QED BY <1>1, <1>2, <2>1, <2>2, <2>3 DEF CodesInOrder
<1> QED BY <1>3, <1>4, <1>5

\* A lock lapses; a code does.
LEMMA LapseKeeps ==
    ASSUME IInv, NEW u \in Users, LockLapses(u) \/ CodeExpires(u)
    PROVE  IInv'
<1> USE DEF IInv
<1>1. /\ UNCHANGED <<attempts, request, wrong, carried, codes, spent>>
      /\ lockedUntil' \in [Users -> {"none", "past", "future"}]
      /\ \A w \in Users : Locked(w)' => Locked(w)
      /\ code' \in [Users -> {0} \cup Codes]
      /\ \A w \in Users : code'[w] = code[w] \/ code'[w] = 0
  BY DEF LockLapses, CodeExpires, Locked, rowVars, historyVars, TypeOK
<1>2. TypeOK'
  BY <1>1 DEF TypeOK
<1>3. CountsGuesses' /\ NeverLockedEarly'
  BY <1>1 DEF CountsGuesses, NeverLockedEarly, At
<1>4. CodesInOrder'
  BY <1>1 DEF CodesInOrder, At, TypeOK, Codes
<1> QED BY <1>2, <1>3, <1>4

\* A request that is accepted holds the code of the row.
LEMMA GiveCodeKeeps ==
    ASSUME IInv, NEW r \in Requests, NEW u \in Users, GiveCode(r, u)
    PROVE  IInv'
<1> USE DEF IInv
<1> DEFINE task == [at |-> "reset", user |-> u, code |-> code[u]]
<1>1. /\ Becomes(r, task)
      /\ UNCHANGED <<attempts, lockedUntil, code, wrong, carried, codes, spent>>
  BY DEF GiveCode, rowVars, historyVars
<1>2. task \in Tasks
  BY TaskMembers DEF GiveCode, HasCode, TypeOK
<1>3. /\ request' \in [Requests -> Tasks]
      /\ request'[r] = task
      /\ \A q \in Requests \ {r} : request'[q] = request[q]
  <2> HIDE DEF task
  <2> QED BY <1>1, <1>2, BecomesFacts
<1>4. TypeOK'
  BY <1>1, <1>3 DEF TypeOK
<1>5. CountsGuesses' /\ NeverLockedEarly'
  BY <1>1, <1>3 DEF Locked, CountsGuesses, NeverLockedEarly, At
<1>6. CodesInOrder'
  BY <1>1, <1>3 DEF CodesInOrder, At
<1> QED BY <1>4, <1>5, <1>6

\* The code is spent and no code is left in the row.
LEMMA ResetPasswordKeeps ==
    ASSUME IInv, NEW r \in Requests, NEW u \in Users, ResetPassword(r, u)
    PROVE  IInv'
<1> USE DEF IInv
<1>1. /\ At(r, "reset", u) /\ Becomes(r, Idle)
      /\ code' = [code EXCEPT ![u] = 0]
      /\ spent' = [spent EXCEPT ![u] = @ \cup {request[r].code}]
      /\ UNCHANGED <<attempts, lockedUntil, wrong, carried, codes>>
  BY DEF ResetPassword, ClearCode
<1>2. /\ request' \in [Requests -> Tasks]
      /\ request'[r] = Idle
      /\ \A q \in Requests \ {r} : request'[q] = request[q]
  BY <1>1, TaskMembers, BecomesFacts
<1>3. \A q \in Requests, w \in Users, s \in {"wrong", "lock", "reset"} :
          At(q, s, w)' => At(q, s, w) /\ request'[q] = request[q]
  BY <1>2 DEF At, Idle
<1>4. request[r].code \in Codes /\ request[r].code <= codes[u]
  BY <1>1, TaskTypes DEF CodesInOrder
<1>5. /\ code'[u] = 0 /\ spent'[u] = spent[u] \cup {request[r].code}
      /\ \A w \in Users \ {u} : code'[w] = code[w] /\ spent'[w] = spent[w]
  BY <1>1 DEF TypeOK
<1>6. TypeOK'
  BY <1>1, <1>2, <1>4 DEF TypeOK
<1>7. CountsGuesses' /\ NeverLockedEarly'
  BY <1>1, <1>3 DEF Locked, CountsGuesses, NeverLockedEarly
<1>8. CodesInOrder'
  <2>1. codes[u] \in Nat
    BY DEF TypeOK
  <2> QED BY <1>1, <1>3, <1>4, <1>5, <2>1 DEF CodesInOrder
<1> QED BY <1>6, <1>7, <1>8

-----------------------------------------------------------------------------
LEMMA NextKeeps == IInv /\ [Next]_vars => IInv'
<1> SUFFICES ASSUME IInv, [Next]_vars PROVE IInv'
    OBVIOUS
<1>1. CASE UNCHANGED vars
  BY <1>1 DEF Locked, vars, rowVars, historyVars, IInv, TypeOK, CountsGuesses, NeverLockedEarly,
              CodesInOrder, At
<1>2. CASE Next
  BY <1>2, GuessKeeps, WrongGuessKeeps, LockKeeps, RightGuessKeeps, RequestOTPKeeps,
     LapseKeeps, GiveCodeKeeps, ResetPasswordKeeps DEF Next
<1> QED BY <1>1, <1>2

LEMMA IInvHolds == Spec => []IInv
BY InitIInv, NextKeeps, PTL DEF Spec

\* The credentials keep their types, for any number of attempts and codes.
THEOREM TypeCorrect == Spec => []TypeOK
BY IInvHolds, PTL DEF IInv

\* However many wrong guesses run side by side, they never count as more than
\* they are: loginUser locks after MaxAttempts of them, or because of one that
\* a successful login overtook.
THEOREM NeverLockedEarlyHolds == Spec => []NeverLockedEarly
BY IInvHolds, PTL DEF IInv

\* processResetPassword accepts no code that has reset a password, for any
\* number of requests.
THEOREM CodesAreSpentHolds == Spec => CodesAreSpent
<1>1. ASSUME IInv, [Next]_vars
      PROVE  [\A r \in Requests, u \in Users :
                 At(r, "reset", u)' /\ request'[r] # request[r] =>
                     request'[r].code \notin spent[u]]_vars
  <2> SUFFICES ASSUME Next, NEW r \in Requests, NEW u \in Users,
                      At(r, "reset", u)', request'[r] # request[r]
               PROVE  request'[r].code \notin spent[u]
      BY <1>1
  <2>1. PICK w \in Users : GiveCode(r, w)
    BY <1>1 DEF Next, IInv, TypeOK, Guess, WrongGuess, RightGuess, Lock, GiveCode, ResetPassword,
                Fail, LockLapses, RequestOTP, CodeExpires, Becomes, At, Idle, Locks
  <2>2. request'[r] = [at |-> "reset", user |-> w, code |-> code[w]] /\ code[w] # 0
    BY <1>1, <2>1 DEF GiveCode, HasCode, Becomes, IInv, TypeOK
  <2> QED BY <1>1, <2>2 DEF At, IInv, CodesInOrder
<1> QED BY <1>1, IInvHolds, PTL DEF Spec, CodesAreSpent
=============================================================================
