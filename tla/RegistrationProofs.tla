------------------------- MODULE RegistrationProofs -------------------------
(***************************************************************************)
(* What the unique indexes guarantee by themselves and what the lock adds  *)
(* to them, for any number of identities, rows and requests.               *)
(***************************************************************************)
EXTENDS Registration, TLAPS

Work    == [at : {"email", "name", "write", "commit"}, who : Identities,
            by : Services, into : Rows \cup {NoRow}]
Entries == [who : Identities, covered : BOOLEAN, deleted : BOOLEAN]

\* What a transaction is about to commit is new, and clashes with no row and no
\* other transaction that is about to commit.
CommitsAreFree ==
    /\ \A q \in Requests : At(q, {"commit"}) =>
          /\ request[q].into \in Rows /\ ~Exists(request[q].into)
          /\ \A i \in Rows : Exists(i) => ~Clash(row[i].who, request[q].who)
    /\ \A q, r \in Requests : At(q, {"commit"}) /\ At(r, {"commit"}) /\ q # r =>
          /\ request[q].into # request[r].into
          /\ ~Clash(request[q].who, request[r].who)

IInv == TypeOK /\ CommitsAreFree /\ UniqueIdentity /\ LookUpStaysTrue

-----------------------------------------------------------------------------
\* What a request holds while it works, and while it releases its lock.
LEMMA TaskTypes ==
    ASSUME TypeOK, NEW r \in Requests
    PROVE  /\ At(r, {"email", "name"}) => request[r] \in Work
           /\ At(r, {"write"}) => request[r] \in Work
           /\ At(r, {"commit"}) => request[r] \in Work
           /\ At(r, {"email", "name", "write", "commit"}) => request[r] \in Work
           /\ At(r, {"release"}) => request[r].who \in Identities
BY DEF TypeOK, Tasks, Idle, At, Work

\* The tasks a request can be given.
LEMMA TaskMembers ==
    /\ Idle \in Tasks
    /\ Work \subseteq Tasks
    /\ \A v \in Identities : [at |-> "release", who |-> v] \in Tasks
BY DEF Tasks, Work

\* What a row holds.
LEMMA RowTypes ==
    ASSUME TypeOK, NEW i \in Rows, Exists(i)
    PROVE  row[i] \in Entries
BY DEF TypeOK, Users, Entries, Exists

\* Only the task of r changes.
LEMMA BecomesFacts ==
    ASSUME TypeOK, NEW r \in Requests, NEW task \in Tasks, Becomes(r, task)
    PROVE  /\ request' \in [Requests -> Tasks]
           /\ request'[r] = task
           /\ \A q \in Requests \ {r} : request'[q] = request[q]
BY DEF TypeOK, Becomes

\* A transaction that ends leaves a registration with its lock and another
\* request with nothing to do.
LEMMA LeavesFacts ==
    ASSUME TypeOK, NEW r \in Requests,
           At(r, {"email", "name", "write", "commit"}), Leaves(r)
    PROVE  /\ request' \in [Requests -> Tasks]
           /\ \A q \in Requests \ {r} : request'[q] = request[q]
           /\ ~At(r, {"email", "name", "write", "commit"})'
           /\ At(r, {"release"})' => /\ Registers(r, {"email", "name", "write", "commit"})
                                     /\ request'[r].who = request[r].who
<1> DEFINE task == IF request[r].by = "registerUser"
                   THEN [at |-> "release", who |-> request[r].who] ELSE Idle
<1>1. request[r] \in Work
  BY TaskTypes
<1>2. task \in Tasks /\ Becomes(r, task)
  BY <1>1, TaskMembers DEF Work, Leaves
<1>3. /\ task.at \in {"release", "idle"}
      /\ task.at = "release" => request[r].by = "registerUser" /\ task.who = request[r].who
  BY DEF Idle
<1> HIDE DEF task
<1>4. /\ request' \in [Requests -> Tasks] /\ request'[r] = task
      /\ \A q \in Requests \ {r} : request'[q] = request[q]
  BY <1>2, BecomesFacts
<1> QED BY <1>3, <1>4 DEF At, Registers

\* A step that only ends the transaction of a request, or the request, with the
\* lock of it: it commits and promises nothing.
LEMMA QuietKeeps ==
    ASSUME IInv, NEW r \in Requests,
           request' \in [Requests -> Tasks],
           \A q \in Requests \ {r} : request'[q] = request[q],
           ~At(r, {"email", "name", "write", "commit"})',
           At(r, {"release"})' => lock'[request'[r].who] = r \/ r \in lapsed',
           lock' \in [Identities -> Requests \cup {Nobody, Gone}],
           \A v \in Identities : lock'[v] # lock[v] => lock[v] = r,
           lapsed' \in {lapsed, lapsed \ {r}},
           UNCHANGED row
    PROVE  IInv'
<1> USE DEF IInv
<1>1. \A q \in Requests :
          /\ At(q, {"commit"})' => q # r /\ At(q, {"commit"})
          /\ Registers(q, {"name", "write", "commit"})'
                => q # r /\ Registers(q, {"name", "write", "commit"})
  BY DEF At, Registers
<1>2. TypeOK'
  <2>1. ASSUME NEW q \in Requests,
               \/ At(q, {"release"})'
               \/ Registers(q, {"email", "name", "write", "commit"})'
        PROVE  lock'[request'[q].who] = q \/ q \in lapsed'
    <3>1. CASE q = r
      BY <2>1, <3>1 DEF Registers
    <3>2. CASE q # r
      <4>1. At(q, {"release"}) \/ Registers(q, {"email", "name", "write", "commit"})
        BY <2>1, <3>2 DEF At, Registers
      <4>2. lock[request[q].who] = q \/ q \in lapsed
        BY <4>1 DEF TypeOK
      <4>3. request[q].who \in Identities
        BY <4>1, TaskTypes DEF Registers, Work
      <4> QED BY <3>2, <4>2, <4>3
    <3> QED BY <3>1, <3>2
  <2> QED BY <2>1 DEF TypeOK
<1>3. CommitsAreFree'
  BY <1>1 DEF CommitsAreFree, Exists
<1>4. UniqueIdentity'
  BY DEF UniqueIdentity, Exists
<1>5. LookUpStaysTrue'
  BY <1>1 DEF LookUpStaysTrue, Exists, Found
<1> QED BY <1>2, <1>3, <1>4, <1>5

\* An empty table and no locks.
LEMMA InitIInv == Init => IInv
<1> SUFFICES ASSUME Init PROVE IInv
    OBVIOUS
<1>1. \A r \in Requests : /\ ~At(r, {"release"}) /\ ~At(r, {"commit"})
                          /\ ~At(r, {"email", "name", "write", "commit"})
                          /\ ~At(r, {"name", "write", "commit"})
  BY DEF Init, At, Idle
<1>2. TypeOK
  BY <1>1, TaskMembers DEF Init, TypeOK, Users, Registers
<1> QED BY <1>1, <1>2
        DEF Init, IInv, CommitsAreFree, UniqueIdentity, LookUpStaysTrue, Registers, Exists

-----------------------------------------------------------------------------
\* The start of a request: one under the lock has it.
LEMMA StartKeeps ==
    ASSUME IInv, NEW r \in Requests, NEW v \in Identities,
           Register(r, v) \/ UserCreate(r, v)
    PROVE  IInv'
<1> USE DEF IInv
<1> DEFINE Starts(task) ==
        /\ Becomes(r, task)
        /\ task.at \in {"email", "name"}
        /\ task.at = "name" => task.by # "registerUser"
        /\ task.by = "registerUser" => /\ lock[task.who] = Nobody
                                       /\ lock' = [lock EXCEPT ![task.who] = r]
        /\ task.by # "registerUser" => UNCHANGED lock
<1>1. UNCHANGED <<row, lapsed>>
  BY DEF Register, UserCreate
<1>2. \E task \in Work : Starts(task)
  <2>1. CASE Register(r, v)
    <3> DEFINE task == [at |-> "email", who |-> v, by |-> "registerUser", into |-> NoRow]
    <3>1. Starts(task) /\ task \in Work
      BY <2>1 DEF Register, AcquireLock, Work, Services
    <3> QED BY <3>1
  <2>2. CASE UserCreate(r, v)
    <3> DEFINE task == [at |-> "name", who |-> v, by |-> "userCreate", into |-> NoRow]
    <3>1. Starts(task) /\ task \in Work
      BY <2>2 DEF UserCreate, Work, Services
    <3> QED BY <3>1
  <2> QED BY <2>1, <2>2
<1>3. PICK task \in Work : Starts(task)
  BY <1>2
<1>4. /\ request' \in [Requests -> Tasks] /\ request'[r] = task
      /\ \A q \in Requests \ {r} : request'[q] = request[q]
  BY <1>3, TaskMembers, BecomesFacts
<1>5. /\ task.who \in Identities
      /\ \A q \in Requests :
          /\ At(q, {"commit"})' => q # r /\ At(q, {"commit"})
          /\ At(q, {"release"})' => q # r /\ At(q, {"release"})
          /\ q # r /\ Registers(q, {"email", "name", "write", "commit"})'
                => Registers(q, {"email", "name", "write", "commit"})
          /\ Registers(q, {"name", "write", "commit"})'
                => q # r /\ Registers(q, {"name", "write", "commit"})
  BY <1>3, <1>4 DEF At, Registers, Work
<1>6. TypeOK'
  <2>1. lock' \in [Identities -> Requests \cup {Nobody, Gone}]
    BY <1>3 DEF TypeOK
  <2>2. ASSUME NEW q \in Requests,
               \/ At(q, {"release"})'
               \/ Registers(q, {"email", "name", "write", "commit"})'
        PROVE  lock'[request'[q].who] = q \/ q \in lapsed'
    <3>1. CASE q = r
      <4>1. task.by = "registerUser"
        BY <1>4, <1>5, <2>2, <3>1 DEF Registers
      <4>2. lock'[task.who] = r
        BY <1>3, <1>5, <4>1 DEF TypeOK
      <4> QED BY <1>4, <3>1, <4>2
    <3>2. CASE q # r
      <4>1. At(q, {"release"}) \/ Registers(q, {"email", "name", "write", "commit"})
        BY <1>5, <2>2, <3>2
      <4>2. lock[request[q].who] = q \/ q \in lapsed
        BY <4>1 DEF TypeOK
      <4>3. request[q].who \in Identities
        BY <4>1, TaskTypes DEF Registers, Work
      <4>4. lock[request[q].who] = q => lock'[request[q].who] = q
        BY <1>3, <4>3, RegistrationAssumption DEF TypeOK
      <4> QED BY <1>1, <1>4, <3>2, <4>2, <4>4
    <3> QED BY <3>1, <3>2
  <2> QED BY <1>1, <1>4, <2>1, <2>2 DEF TypeOK
<1>7. CommitsAreFree' /\ UniqueIdentity'
  BY <1>1, <1>4, <1>5 DEF CommitsAreFree, UniqueIdentity, Exists
<1>8. LookUpStaysTrue'
  BY <1>1, <1>4, <1>5 DEF LookUpStaysTrue, Found, Exists
<1> QED BY <1>6, <1>7, <1>8

\* A look-up that finds nobody is followed by the next, or by the write.
LEMMA NextLookFacts ==
    ASSUME NEW task \in Work, task.at \in {"email", "name"}
    PROVE  /\ NextLook(task) \in {"email", "name", "write"}
           /\ task.by = "registerUser" /\ task.at = "email" => NextLook(task) = "name"
           /\ task.by = "registerUser" /\ task.at = "name" => NextLook(task) = "write"
BY DEF NextLook

\* A registration that found nobody with its e-mail found nobody who is its
\* user.
LEMMA LookUpKeeps ==
    ASSUME IInv, NEW r \in Requests, LookUp(r)
    PROVE  IInv'
<1> USE DEF IInv
<1> DEFINE task == request[r]
           next == [task EXCEPT !.at = NextLook(task)]
<1>1. /\ At(r, {"email", "name"}) /\ UNCHANGED <<lock, row, lapsed>>
      /\ task \in Work /\ task.at \in {"email", "name"}
  BY TaskTypes DEF LookUp, At
<1>2. CASE Leaves(r)
  <2>1. /\ request' \in [Requests -> Tasks]
        /\ \A q \in Requests \ {r} : request'[q] = request[q]
        /\ ~At(r, {"email", "name", "write", "commit"})'
        /\ At(r, {"release"})' => /\ Registers(r, {"email", "name", "write", "commit"})
                                  /\ request'[r].who = request[r].who
    BY <1>1, <1>2, LeavesFacts DEF At
  <2> QED BY <1>1, <2>1, QuietKeeps DEF TypeOK
<1>3. CASE ~Leaves(r)
  <2>1. /\ ~\E i \in Rows : Found(i) /\ row[i].who[task.at] = task.who[task.at]
        /\ Becomes(r, next)
    BY <1>3 DEF LookUp
  <2>2. /\ next \in Work /\ next.at = NextLook(task)
        /\ next.who = task.who /\ next.by = task.by /\ next.into = task.into
    BY <1>1, NextLookFacts DEF Work
  <2>3. /\ request' \in [Requests -> Tasks] /\ request'[r] = next
        /\ \A q \in Requests \ {r} : request'[q] = request[q]
    BY <2>1, <2>2, TaskMembers, BecomesFacts
  <2>4. next.at \in {"email", "name", "write"}
    BY <1>1, <2>2, NextLookFacts
  <2> HIDE DEF next
  <2>5. \A q \in Requests :
            /\ At(q, {"commit"})' => q # r /\ At(q, {"commit"})
            /\ At(q, {"release"})' => q # r /\ At(q, {"release"})
            /\ Registers(q, {"email", "name", "write", "commit"})'
                  => Registers(q, {"email", "name", "write", "commit"})
            /\ request'[q].who = request[q].who /\ request'[q].into = request[q].into
    BY <1>1, <2>2, <2>3, <2>4 DEF At, Registers
  <2>6. TypeOK'
    BY <1>1, <2>3, <2>5 DEF TypeOK
  <2>7. CommitsAreFree' /\ UniqueIdentity'
    BY <1>1, <2>5 DEF CommitsAreFree, UniqueIdentity, Exists
  <2>8. ASSUME NEW q \in Requests, Registers(q, {"name", "write", "commit"})', q \notin lapsed,
               NEW i \in Rows, Found(i), row[i].covered
        PROVE  row[i].who # request[q].who
    <3>1. CASE q # r
      BY <2>3, <2>8, <3>1 DEF LookUpStaysTrue, Registers, At
    <3>2. CASE q = r
      <4>1. row[i].who[task.at] # task.who[task.at]
        BY <2>1, <2>8
      <4> QED BY <3>2, <4>1
    <3> QED BY <3>1, <3>2
  <2>9. LookUpStaysTrue'
    BY <1>1, <2>5, <2>8 DEF LookUpStaysTrue, Found, Exists
  <2> QED BY <2>6, <2>7, <2>9
<1> QED BY <1>2, <1>3

-----------------------------------------------------------------------------
\* A statement that does not wait clashes with no transaction still open, and
\* one that is not refused with no row.
LEMMA WriteKeeps ==
    ASSUME IInv, NEW r \in Requests, Write(r)
    PROVE  IInv'
<1> USE DEF IInv
<1>1. /\ At(r, {"write"}) /\ ~Waits(r) /\ UNCHANGED <<lock, row, lapsed>>
      /\ request[r] \in Work
  BY TaskTypes DEF Write
<1>2. CASE Leaves(r)
  <2>1. /\ request' \in [Requests -> Tasks]
        /\ \A q \in Requests \ {r} : request'[q] = request[q]
        /\ ~At(r, {"email", "name", "write", "commit"})'
        /\ At(r, {"release"})' => /\ Registers(r, {"email", "name", "write", "commit"})
                                  /\ request'[r].who = request[r].who
    BY <1>1, <1>2, LeavesFacts DEF At
  <2> QED BY <1>1, <2>1, QuietKeeps DEF TypeOK
<1>3. CASE ~Leaves(r)
  <2>1. ~Taken(r)
    BY <1>3 DEF Write
  <2>2. PICK i \in NewRows : Becomes(r, [request[r] EXCEPT !.at = "commit", !.into = i])
    BY <1>3 DEF Write
  <2> DEFINE next == [request[r] EXCEPT !.at = "commit", !.into = i]
  <2>3. /\ i \in Rows /\ ~Exists(i)
        /\ \A q \in Requests : At(q, {"commit"}) => request[q].into # i
    BY <2>2 DEF NewRows
  <2>4. /\ next \in Work /\ next.at = "commit" /\ next.into = i
        /\ next.who = request[r].who /\ next.by = request[r].by
    BY <1>1, <2>3 DEF Work
  <2>5. /\ request' \in [Requests -> Tasks] /\ request'[r] = next
        /\ \A q \in Requests \ {r} : request'[q] = request[q]
    BY <2>2, <2>4, TaskMembers, BecomesFacts
  <2> HIDE DEF next
  <2>6. \A q \in Requests :
            /\ At(q, {"commit"})' => q = r \/ At(q, {"commit"})
            /\ At(q, {"release"})' => At(q, {"release"})
            /\ Registers(q, {"email", "name", "write", "commit"})'
                  => Registers(q, {"email", "name", "write", "commit"})
            /\ Registers(q, {"name", "write", "commit"})'
                  => Registers(q, {"name", "write", "commit"})
            /\ request'[q].who = request[q].who
    BY <1>1, <2>4, <2>5 DEF At, Registers
  <2>7. TypeOK'
    BY <1>1, <2>5, <2>6 DEF TypeOK
  <2>8. /\ i \in Rows /\ ~Exists(i)
        /\ \A j \in Rows : Exists(j) => ~Clash(row[j].who, next.who)
        /\ \A q \in Requests \ {r} : At(q, {"commit"}) =>
              /\ request[q].into # i
              /\ ~Clash(request[q].who, next.who) /\ ~Clash(next.who, request[q].who)
    BY <1>1, <2>1, <2>3, <2>4 DEF Taken, Waits, Clash
  <2>9. CommitsAreFree'
    <3>1. ASSUME NEW q \in Requests, At(q, {"commit"})'
          PROVE  /\ request'[q].into \in Rows /\ row'[request'[q].into] = NoRow
                 /\ \A j \in Rows : Exists(j)' => ~Clash(row'[j].who, request'[q].who)
      <4>1. CASE q = r
        BY <1>1, <2>4, <2>5, <2>8, <4>1 DEF Exists
      <4>2. CASE q # r
        BY <1>1, <2>5, <2>6, <3>1, <4>2 DEF CommitsAreFree, Exists
      <4> QED BY <4>1, <4>2
    <3>2. ASSUME NEW q \in Requests, NEW p \in Requests, q # p,
                 At(q, {"commit"})', At(p, {"commit"})'
          PROVE  /\ request'[q].into # request'[p].into
                 /\ ~Clash(request'[q].who, request'[p].who)
      <4>1. CASE q = r \/ p = r
        BY <2>4, <2>5, <2>6, <2>8, <3>2, <4>1
      <4>2. CASE q # r /\ p # r
        BY <2>5, <2>6, <3>2, <4>2 DEF CommitsAreFree
      <4> QED BY <4>1, <4>2
    <3> QED BY <3>1, <3>2 DEF CommitsAreFree, Exists
  <2>10. UniqueIdentity'
    BY <1>1, <2>5, <2>6 DEF UniqueIdentity, Exists
  <2>11. LookUpStaysTrue'
    BY <1>1, <2>6 DEF LookUpStaysTrue, Found, Exists
  <2> QED BY <2>7, <2>9, <2>10, <2>11
<1> QED BY <1>2, <1>3

\* The row is committed; it was free, and under a lasting lock nobody else
\* works for the same user.
LEMMA CommitKeeps ==
    ASSUME IInv, NEW r \in Requests, Commit(r)
    PROVE  IInv'
<1> USE DEF IInv
<1> DEFINE i    == request[r].into
           new  == [who     |-> request[r].who,
                    covered |-> request[r].by = "registerUser" /\ r \notin lapsed,
                    deleted |-> FALSE]
<1>1. /\ At(r, {"commit"}) /\ row' = [row EXCEPT ![i] = new]
      /\ Leaves(r) /\ UNCHANGED <<lock, lapsed>>
      /\ request[r] \in Work
  BY TaskTypes DEF Commit
<1>2. i \in Rows /\ ~Exists(i) /\ \A j \in Rows : Exists(j) => ~Clash(row[j].who, request[r].who)
  BY <1>1 DEF CommitsAreFree
<1>3. /\ request' \in [Requests -> Tasks]
      /\ \A q \in Requests \ {r} : request'[q] = request[q]
      /\ ~At(r, {"email", "name", "write", "commit"})'
      /\ At(r, {"release"})' => /\ Registers(r, {"email", "name", "write", "commit"})
                                /\ request'[r].who = request[r].who
  BY <1>1, LeavesFacts DEF At
<1>4. /\ new \in Entries /\ new.who = request[r].who
      /\ new.covered = (request[r].by = "registerUser" /\ r \notin lapsed)
  BY <1>1 DEF Work, Entries
<1> HIDE DEF i, new
<1>5. /\ row' \in [Rows -> Users] /\ row'[i] = new
      /\ \A j \in Rows \ {i} : row'[j] = row[j]
  BY <1>1, <1>2, <1>4 DEF TypeOK, Users, Entries
<1>6. \A q \in Requests :
          /\ At(q, {"commit"})' => q # r /\ At(q, {"commit"})
          /\ Registers(q, {"name", "write", "commit"})'
                => q # r /\ Registers(q, {"name", "write", "commit"})
          /\ At(q, {"release"})' \/ Registers(q, {"email", "name", "write", "commit"})' =>
                /\ At(q, {"release"}) \/ Registers(q, {"email", "name", "write", "commit"})
                /\ request'[q].who = request[q].who
  BY <1>3 DEF At, Registers
<1>7. TypeOK'
  BY <1>1, <1>3, <1>5, <1>6 DEF TypeOK
<1>8. UniqueIdentity'
  BY <1>2, <1>4, <1>5 DEF UniqueIdentity, Exists, Clash
<1>9. CommitsAreFree'
  BY <1>1, <1>2, <1>3, <1>4, <1>5, <1>6 DEF CommitsAreFree, Exists, Clash, i
<1>10. ASSUME NEW q \in Requests, Registers(q, {"name", "write", "commit"})', q \notin lapsed',
              NEW j \in Rows, Found(j)', row'[j].covered
       PROVE  row'[j].who # request'[q].who
  <2>1. q # r /\ Registers(q, {"name", "write", "commit"}) /\ request'[q] = request[q]
    BY <1>3, <1>6, <1>10
  <2>2. CASE j # i
    BY <1>1, <1>5, <1>10, <2>1, <2>2 DEF LookUpStaysTrue, Found, Exists
  <2>3. CASE j = i
    <3>1. Registers(r, {"email", "name", "write", "commit"}) /\ r \notin lapsed
      BY <1>1, <1>4, <1>5, <1>10, <2>3 DEF Registers, At
    <3>2. lock[request[r].who] = r
      BY <3>1 DEF TypeOK
    <3>3. Registers(q, {"email", "name", "write", "commit"})
      BY <2>1 DEF Registers, At
    <3>4. lock[request[q].who] = q
      BY <1>1, <1>10, <3>3 DEF TypeOK
    <3> QED BY <1>4, <1>5, <2>1, <2>3, <3>2, <3>4
  <2> QED BY <2>2, <2>3
<1>11. LookUpStaysTrue'
  BY <1>10 DEF LookUpStaysTrue
<1> QED BY <1>7, <1>8, <1>9, <1>11

-----------------------------------------------------------------------------
\* A failed transaction wrote nothing; a registration releases its own lock or
\* none; a process that ends leaves its lock to the clock.
LEMMA EndKeeps ==
    ASSUME IInv, NEW r \in Requests, Fail(r) \/ Release(r) \/ Crash(r)
    PROVE  IInv'
<1> USE DEF IInv
<1>1. CASE Fail(r)
  <2>1. /\ request' \in [Requests -> Tasks]
        /\ \A q \in Requests \ {r} : request'[q] = request[q]
        /\ ~At(r, {"email", "name", "write", "commit"})'
        /\ At(r, {"release"})' => /\ Registers(r, {"email", "name", "write", "commit"})
                                  /\ request'[r].who = request[r].who
    BY <1>1, LeavesFacts DEF Fail
  <2> QED BY <1>1, <2>1, QuietKeeps DEF Fail, TypeOK
<1>2. CASE Release(r) \/ Crash(r)
  <2>1. /\ Becomes(r, Idle) /\ UNCHANGED row /\ lapsed' = lapsed \ {r}
        /\ lock' \in [Identities -> Requests \cup {Nobody, Gone}]
        /\ \A v \in Identities : lock'[v] # lock[v] => lock[v] = r
    <3>1. CASE Release(r)
      <4>1. request[r].who \in Identities
        BY <3>1, TaskTypes DEF Release
      <4> QED BY <3>1, <4>1 DEF Release, ReleaseLock, TypeOK
    <3>2. CASE Crash(r)
      BY <3>2 DEF Crash, TypeOK
    <3> QED BY <1>2, <3>1, <3>2
  <2>2. /\ request' \in [Requests -> Tasks] /\ request'[r] = Idle
        /\ \A q \in Requests \ {r} : request'[q] = request[q]
    BY <2>1, TaskMembers, BecomesFacts
  <2>3. ~At(r, {"email", "name", "write", "commit"})' /\ ~At(r, {"release"})'
    BY <2>2 DEF At, Idle
  <2> QED BY <2>1, <2>2, <2>3, QuietKeeps
<1> QED BY <1>1, <1>2

\* Whoever's lock lapses is known to work without it.
LEMMA LockLapsesKeeps ==
    ASSUME IInv, NEW v \in Identities, LockLapses(v)
    PROVE  IInv'
<1> USE DEF IInv
<1>1. /\ lock' = [lock EXCEPT ![v] = Nobody]
      /\ lapsed' = lapsed \cup ({lock[v]} \cap Requests)
      /\ UNCHANGED <<row, request>>
  BY DEF LockLapses
<1>2. TypeOK'
  <2>1. ASSUME NEW q \in Requests,
               At(q, {"release"}) \/ Registers(q, {"email", "name", "write", "commit"})
        PROVE  lock'[request[q].who] = q \/ q \in lapsed'
    <3>1. lock[request[q].who] = q \/ q \in lapsed
      BY <2>1 DEF TypeOK
    <3>2. request[q].who \in Identities
      BY <2>1, TaskTypes DEF Registers, Work
    <3> QED BY <1>1, <3>1, <3>2 DEF TypeOK
  <2> QED BY <1>1, <2>1 DEF TypeOK, At, Registers
<1>3. CommitsAreFree' /\ UniqueIdentity'
  BY <1>1 DEF CommitsAreFree, UniqueIdentity, Exists, At, Registers
<1>4. LookUpStaysTrue'
  BY <1>1 DEF LookUpStaysTrue, Found, Exists, At, Registers
<1> QED BY <1>2, <1>3, <1>4

\* A deleted row keeps its names, and promises nothing.
LEMMA DeleteUserKeeps ==
    ASSUME IInv, NEW i \in Rows, DeleteUser(i)
    PROVE  IInv'
<1> USE DEF IInv
<1>1. UNCHANGED <<lock, request, lapsed>> /\ Exists(i)
  BY DEF DeleteUser, Found
<1>2. row[i] \in Entries
  BY <1>1, RowTypes
<1>3. row' = [row EXCEPT ![i] = [row[i] EXCEPT !.deleted = TRUE, !.covered = FALSE]]
  BY <1>2 DEF DeleteUser, TypeOK, Entries
<1> DEFINE new == [row[i] EXCEPT !.deleted = TRUE, !.covered = FALSE]
<1>4. new \in Entries /\ new.who = row[i].who /\ ~new.covered
  BY <1>2 DEF Entries
<1> HIDE DEF new
<1>5. /\ row' \in [Rows -> Users] /\ row'[i] = new
      /\ \A j \in Rows \ {i} : row'[j] = row[j]
  BY <1>3, <1>4 DEF TypeOK, Users, Entries, new
<1>6. \A j \in Rows : /\ Exists(j)' => Exists(j) /\ row'[j].who = row[j].who
                      /\ Found(j)' /\ row'[j].covered => Found(j) /\ row[j].covered
  BY <1>1, <1>4, <1>5 DEF Exists, Found
<1>7. TypeOK'
  BY <1>1, <1>5 DEF TypeOK, At, Registers
<1>8. CommitsAreFree' /\ UniqueIdentity'
  BY <1>1, <1>6 DEF CommitsAreFree, UniqueIdentity, At, Registers
<1>9. LookUpStaysTrue'
  BY <1>1, <1>6 DEF LookUpStaysTrue, At, Registers, Found
<1> QED BY <1>7, <1>8, <1>9

-----------------------------------------------------------------------------
LEMMA NextKeeps == IInv /\ [Next]_vars => IInv'
<1> SUFFICES ASSUME IInv, [Next]_vars PROVE IInv'
    OBVIOUS
<1>1. CASE UNCHANGED vars
  BY <1>1 DEF vars, IInv, TypeOK, CommitsAreFree, UniqueIdentity, LookUpStaysTrue,
              At, Registers, Exists, Found
<1>2. CASE Next
  BY <1>2, StartKeeps, LookUpKeeps, WriteKeeps, CommitKeeps, EndKeeps, LockLapsesKeeps,
     DeleteUserKeeps DEF Next
<1> QED BY <1>1, <1>2

LEMMA IInvHolds == Spec => []IInv
BY InitIInv, NextKeeps, PTL DEF Spec

\* Locks, rows and requests keep their types, and acquireLock and releaseLock
\* leave a registration its lock until the time to live takes it.
THEOREM TypeCorrect == Spec => []TypeOK
BY IInvHolds, PTL DEF IInv

\* The indexes on e-mail and username keep registerUser and userCreate from
\* making two users one, whatever the look-ups missed.
THEOREM UniqueIdentityHolds == Spec => []UniqueIdentity
BY IInvHolds, PTL DEF IInv

\* No other registration under a lasting lock takes the names that registerUser
\* has looked up.
THEOREM LookUpStaysTrueHolds == Spec => []LookUpStaysTrue
BY IInvHolds, PTL DEF IInv

\* releaseLock frees the lock of its caller or none, although a lock may have
\* passed on before its first holder comes to release it.
THEOREM NobodyFreesAnothersLockHolds == Spec => NobodyFreesAnothersLock
<1> DEFINE Frees(v) ==
        \/ lock'[v] = Nobody /\ lock[v] \in lapsed'
        \/ lock'[v] = Nobody /\ At(lock[v], {"release"}) /\ request'[lock[v]] = Idle
        \/ lock'[v] = Gone
<1>1. ASSUME TypeOK, [Next]_vars
      PROVE  [\A v \in Identities :
                 lock[v] \in Requests /\ lock'[v] # lock[v] => Frees(v)]_vars
  <2> SUFFICES ASSUME Next, NEW v \in Identities, lock[v] \in Requests, lock'[v] # lock[v]
               PROVE  Frees(v)
      BY <1>1
  <2>1. ASSUME NEW r \in Requests, NEW w \in Identities, Register(r, w)
        PROVE  Frees(v)
    BY <1>1, <2>1, RegistrationAssumption DEF Register, AcquireLock, TypeOK
  <2>2. ASSUME NEW r \in Requests, Release(r)
        PROVE  Frees(v)
    BY <1>1, <2>2 DEF Release, ReleaseLock, Becomes, TypeOK
  <2>3. ASSUME NEW r \in Requests, Crash(r)
        PROVE  Frees(v)
    BY <1>1, <2>3 DEF Crash, TypeOK
  <2>4. ASSUME NEW w \in Identities, LockLapses(w)
        PROVE  Frees(v)
    BY <1>1, <2>4 DEF LockLapses, TypeOK
  <2> QED BY <2>1, <2>2, <2>3, <2>4
          DEF Next, UserCreate, LookUp, Write, Commit, Fail, DeleteUser
<1>2. Spec => []TypeOK
  BY TypeCorrect
<1> QED BY <1>1, <1>2, PTL DEF Spec, NobodyFreesAnothersLock
=============================================================================
