---------------------------- MODULE Registration ----------------------------
(***************************************************************************)
(* Who owns an e-mail and a username: registerUser of auth.service.js      *)
(* behind its lock in Redis (acquireLock, releaseLock), and userCreate and *)
(* deleteUser of user.service.js, which take no lock.  editUser is not     *)
(* here: its schema has no userId and drops the one of the request, so     *)
(* that it finds no user and writes nothing.                               *)
(*                                                                         *)
(* The first two look for the e-mail and the username and insert later, in *)
(* one transaction each under READ COMMITTED: a look-up sees what others   *)
(* committed.  A lock has a time to live and lapses while its holder works.*)
(***************************************************************************)
EXTENDS Naturals, FiniteSets

CONSTANTS Emails, Names,
          Rows,     \* rows the users table may get
          Requests,
          Nobody,   \* no lock is held
          Gone,     \* the lock id of a process that ended
          NoRow     \* a row that is not there, or not chosen yet

ASSUME RegistrationAssumption ==
    /\ Nobody \notin Requests /\ Gone \notin Requests /\ Nobody # Gone
    /\ NoRow \notin Rows

Identities == [email : Emails, name : Names]
Services   == {"registerUser", "userCreate"}

VARIABLES
    lock,     \* Redis: the request whose lock id is stored for an identity
    row,      \* the users table, as committed
    request,  \* what each request does next, for which identity and row
    lapsed    \* history: requests whose lock lapsed while they worked

vars == <<lock, row, request, lapsed>>

\* covered (history): was the row registered under a lock that still lasted.
\* A deleted row stays in the table and in its unique indexes, and no look-up
\* finds it (paranoid).
Users == [who : Identities, covered : BOOLEAN, deleted : BOOLEAN] \cup {NoRow}

Idle  == [at |-> "idle"]
Tasks == {Idle}
    \cup [at : {"email", "name", "write", "commit"}, who : Identities,
          by : Services, into : Rows \cup {NoRow}]
    \cup [at : {"release"}, who : Identities]

At(r, steps)     == request[r].at \in steps
Becomes(r, task) == request' = [request EXCEPT ![r] = task]
Registers(r, steps) == At(r, steps) /\ request[r].by = "registerUser"

Exists(i)   == row[i] # NoRow
Found(i)    == Exists(i) /\ ~row[i].deleted
Clash(v, w) == v.email = w.email \/ v.name = w.name

Init == /\ lock = [v \in Identities |-> Nobody]
        /\ row = [i \in Rows |-> NoRow]
        /\ request = [r \in Requests |-> Idle]
        /\ lapsed = {}

-----------------------------------------------------------------------------
(* redis.service.js                                                        *)

\* Mutant: SET without NX.
SetLock(r, v) == lock' = [lock EXCEPT ![v] = r]

\* SET NX EX; a registration that gets no lock is answered 429.
AcquireLock(r, v) == /\ lock[v] = Nobody
                     /\ lock' = [lock EXCEPT ![v] = r]

\* Mutant: the key is deleted whoever's id it holds.
DeleteLock(r, v) == lock' = [lock EXCEPT ![v] = Nobody]

\* The script compares and deletes in one go.
ReleaseLock(r, v) == lock' = IF lock[v] = r THEN [lock EXCEPT ![v] = Nobody] ELSE lock

LockLapses(v) ==
    /\ lock[v] # Nobody
    /\ lock' = [lock EXCEPT ![v] = Nobody]
    /\ lapsed' = lapsed \cup ({lock[v]} \cap Requests)
    /\ UNCHANGED <<row, request>>

-----------------------------------------------------------------------------
(* registerUser and userCreate                                             *)

Register(r, v) ==
    /\ At(r, {"idle"})
    /\ AcquireLock(r, v)
    /\ Becomes(r, [at |-> "email", who |-> v, by |-> "registerUser", into |-> NoRow])
    /\ UNCHANGED <<row, lapsed>>

UserCreate(r, v) ==
    /\ At(r, {"idle"})
    /\ Becomes(r, [at |-> "name", who |-> v, by |-> "userCreate", into |-> NoRow])
    /\ UNCHANGED <<lock, row, lapsed>>

\* The transaction ends; a registration releases its lock (finally).
Leaves(r) == Becomes(r, IF request[r].by = "registerUser"
                        THEN [at |-> "release", who |-> request[r].who] ELSE Idle)

\* registerUser looks for the e-mail first, userCreate for the username.
NextLook(task) ==
    IF task.by = "registerUser" THEN [email |-> "name", name |-> "write"][task.at]
                                ELSE [name |-> "email", email |-> "write"][task.at]

LookUp(r) ==
    /\ At(r, {"email", "name"})
    /\ LET task == request[r]
       IN IF \E i \in Rows : Found(i) /\ row[i].who[task.at] = task.who[task.at]
          THEN Leaves(r)
          ELSE Becomes(r, [task EXCEPT !.at = NextLook(task)])
    /\ UNCHANGED <<lock, row, lapsed>>

\* The unique indexes on email and on username, deleted rows included.
Taken(r) == \E i \in Rows : Exists(i) /\ Clash(row[i].who, request[r].who)

\* Mutant: what others have not committed is not in the index.
WaitsNever(r) == FALSE

\* Somebody else's uncommitted entry in an index: the INSERT waits for the end
\* of that transaction.
Waits(r) == \E q \in Requests \ {r} :
                At(q, {"commit"}) /\ Clash(request[q].who, request[r].who)

\* A new row has an id of its own.
NewRows == {i \in Rows : ~Exists(i) /\ \A q \in Requests :
                              At(q, {"commit"}) => request[q].into # i}

\* INSERT; the database refuses a duplicate.
Write(r) ==
    /\ At(r, {"write"})
    /\ ~Waits(r)
    /\ \/ Taken(r) /\ Leaves(r)
       \/ ~Taken(r) /\ \E i \in NewRows :
              Becomes(r, [request[r] EXCEPT !.at = "commit", !.into = i])
    /\ UNCHANGED <<lock, row, lapsed>>

Commit(r) ==
    /\ At(r, {"commit"})
    /\ LET i == request[r].into
       IN row' = [row EXCEPT ![i] =
                     [who     |-> request[r].who,
                      covered |-> request[r].by = "registerUser" /\ r \notin lapsed,
                      deleted |-> FALSE]]
    /\ Leaves(r)
    /\ UNCHANGED <<lock, lapsed>>

Release(r) ==
    /\ At(r, {"release"})
    /\ ReleaseLock(r, request[r].who)
    /\ Becomes(r, Idle)
    /\ lapsed' = lapsed \ {r}
    /\ UNCHANGED row

\* deleteUser: destroy() sets deletedAt.
DeleteUser(i) ==
    /\ Found(i)
    /\ row' = [row EXCEPT ![i].deleted = TRUE, ![i].covered = FALSE]
    /\ UNCHANGED <<lock, request, lapsed>>

-----------------------------------------------------------------------------
\* A statement fails and the transaction is rolled back.
Fail(r) ==
    /\ At(r, {"email", "name", "write", "commit"})
    /\ Leaves(r)
    /\ UNCHANGED <<lock, row, lapsed>>

\* The process ends; its locks stay until they lapse.
Crash(r) ==
    /\ ~At(r, {"idle"})
    /\ Becomes(r, Idle)
    /\ lock' = [v \in Identities |-> IF lock[v] = r THEN Gone ELSE lock[v]]
    /\ lapsed' = lapsed \ {r}
    /\ UNCHANGED row

Next == \/ \E r \in Requests, v \in Identities :
              Register(r, v) \/ UserCreate(r, v)
        \/ \E r \in Requests : \/ LookUp(r) \/ Write(r) \/ Commit(r) \/ Release(r)
                               \/ Fail(r) \/ Crash(r)
        \/ \E i \in Rows : DeleteUser(i)
        \/ \E v \in Identities : LockLapses(v)

Spec == Init /\ [][Next]_vars

-----------------------------------------------------------------------------
(* Properties                                                              *)

\* The values the variables take; a registration has its lock until it lapses.
TypeOK ==
    /\ lock \in [Identities -> Requests \cup {Nobody, Gone}]
    /\ row \in [Rows -> Users]
    /\ request \in [Requests -> Tasks]
    /\ lapsed \subseteq Requests
    /\ \A r \in Requests :
          At(r, {"release"}) \/ Registers(r, {"email", "name", "write", "commit"}) =>
              lock[request[r].who] = r \/ r \in lapsed

\* Two users never share an e-mail or a username, however registrations and
\* creations overlap; the look-ups do not see to that.
UniqueIdentity ==
    \A i, j \in Rows : Exists(i) /\ Exists(j) /\ Clash(row[i].who, row[j].who) => i = j

\* What a registration found stays true while its lock lasts: no other
\* registration under a lasting lock takes the same names between its look-up
\* and its insert.
LookUpStaysTrue ==
    \A r \in Requests :
        Registers(r, {"name", "write", "commit"}) /\ r \notin lapsed =>
            \A i \in Rows : Found(i) /\ row[i].covered => row[i].who # request[r].who

\* A lock ends by its own holder or by the clock.  In particular a holder that
\* outlives its lock does not free the lock of whoever has it by then.
NobodyFreesAnothersLock ==
    [][\A v \in Identities :
         lock[v] \in Requests /\ lock'[v] # lock[v] =>
             \/ lock'[v] = Nobody /\ lock[v] \in lapsed'
             \/ lock'[v] = Nobody /\ At(lock[v], {"release"}) /\ request'[lock[v]] = Idle
             \/ lock'[v] = Gone]_vars
=============================================================================
