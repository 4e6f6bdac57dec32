---------------------------- MODULE CachesProofs ----------------------------
(***************************************************************************)
(* What a cache may serve, for any number of roles, tenants, requests and  *)
(* writes.                                                                 *)
(***************************************************************************)
EXTENDS Caches, TLAPS

Keys == Roles \cup Tenants

\* A row that is there has all its parts.
RowsWhole == \A k \in Keys : row[k] # Missing => row[k] \in [PartsOf(k) -> 0 .. MaxWrites]

\* So has the tenant that a request is about to change, but for its users.
ReadsWhole ==
    \A r \in Requests : At(r, "read") =>
        /\ request[r].of \in Tenants
        /\ request[r].value \in [TenantParts -> 0 .. MaxWrites \cup {Missing}]
        /\ \A p \in Columns : request[r].value[p] # Missing

\* What a request holds is what the database has, until a write overtakes it.
HoldsCommitted ==
    \A r \in Requests, k \in Keys : \A p \in PartsOf(k) :
        Has(Held(r, k), p) /\ <<r, p>> \notin overtaken =>
            row[k] # Missing /\ Held(r, k)[p] = row[k][p]

\* A row that a page lacks, or is about to lack, stays away.
GoneForGood ==
    /\ \A e \in Cached(Entries) : \A k \in e.of : cache[e][k] = Missing => row[k] = Missing
    /\ \A r \in Requests : At(r, "fill") =>
           \A k \in request[r].entry.of : request[r].value[k] = Missing => row[k] = Missing

IInv == TypeOK /\ RowsWhole /\ ReadsWhole /\ HoldsCommitted /\ GoneForGood /\ ServedIsCommitted

\* Why the part p of the copy e may be stale.
Excused(e, p) == \/ <<e, p>> \in missed
                 \/ \E r \in Requests : e \in Pending(r) /\ p \in PartsWritten(r)

-----------------------------------------------------------------------------
(* Lemmas about the operators                                              *)

\* The parts of a row, and of nothing else.
LEMMA PartsOfRows ==
    /\ \A k \in Roles : PartsOf(k) = Menus
    /\ \A k \in Tenants : PartsOf(k) = TenantParts
    /\ \A k \in Keys : PartsOf(k) \subseteq Parts
    /\ \A p \in Columns : p \in TenantParts /\ p # Users
BY CachesAssumption DEF PartsOf, Parts, TenantParts, Keys

\* The rows of a copy.
LEMMA EntryTypes ==
    /\ \A k \in Roles : Matrix(k) \in Entries /\ Matrix(k).of = {k}
    /\ \A k \in Tenants : /\ Tenant(k) \in Entries /\ Tenant(k).of = {k}
                          /\ Settings(k) \in Entries /\ Settings(k).of = {k}
    /\ Page \in Entries /\ Page.of = Tenants
    /\ \A k \in Tenants : Tenant(k) # Page /\ Settings(k) # Page
BY DEF Entries, Matrix, Tenant, Settings, Page

LEMMA EntriesOfRow ==
    ASSUME NEW e \in Entries
    PROVE  /\ e.of \subseteq Keys
           /\ \A k \in Roles : k \in e.of => e = Matrix(k)
           /\ \A k \in Tenants : k \in e.of => e = Tenant(k) \/ e = Settings(k) \/ e = Page
           /\ e.as = "settings" => \E k \in Tenants : e.of = {k}
BY CachesAssumption DEF Entries, Keys, Matrix, Tenant, Settings, Page

\* A copy is a function on its rows, and only the page may lack one.
LEMMA CopyTypes ==
    ASSUME NEW e \in Entries
    PROVE  /\ \A v \in Copies(e) : v \in [e.of -> Values \cup {Missing}]
           /\ [e.of -> Values] \subseteq Copies(e)
           /\ e = Page => [Tenants -> Values \cup {Missing}] = Copies(e)
           /\ Missing \notin Copies(e)
           /\ Missing \notin Values
<1>1. Missing \notin Copies(e) /\ Missing \notin Values
  BY CachesAssumption
<1>2. Page.of = Tenants
  BY DEF Page
<1> QED BY <1>1, <1>2 DEF Copies

\* What a task is.
LEMMA TaskCases ==
    ASSUME NEW x
    PROVE  x \in Tasks <=>
               \/ x = Idle
               \/ x \in [at : {"read"}, of : Tenants, value : Values]
               \/ \E e \in Entries : x \in [at : {"fill"}, entry : {e}, value : Copies(e),
                                           parts : SUBSET Parts]
               \/ x \in [at : {"drop"}, entries : SUBSET Entries, parts : SUBSET Parts]
<1> DEFINE Reads   == [at : {"read"}, of : Tenants, value : Values]
           F(e)    == [at : {"fill"}, entry : {e}, value : Copies(e), parts : SUBSET Parts]
           Fills   == UNION {F(e) : e \in Entries}
           Drops   == [at : {"drop"}, entries : SUBSET Entries, parts : SUBSET Parts]
<1>1. Tasks = {Idle} \cup Reads \cup Fills \cup Drops
  BY DEF Tasks
<1> HIDE DEF Reads, Drops, F
<1>2. x \in Fills <=> \E e \in Entries : x \in F(e)
  OBVIOUS
<1> HIDE DEF Fills
<1>3. x \in Tasks <=> x = Idle \/ x \in Reads \/ (\E e \in Entries : x \in F(e)) \/ x \in Drops
  BY <1>1, <1>2
<1> QED BY <1>3 DEF Reads, Drops, F

\* What a task holds has the type of a copy.
LEMMA TaskTypes ==
    ASSUME TypeOK, NEW r \in Requests
    PROVE  /\ At(r, "fill") => /\ request[r].entry \in Entries
                               /\ request[r].value \in Copies(request[r].entry)
                               /\ request[r].parts \subseteq Parts
           /\ At(r, "drop") => /\ request[r].entries \subseteq Entries
                               /\ request[r].parts \subseteq Parts
                               /\ request[r] = [at |-> "drop", entries |-> request[r].entries,
                                                parts |-> request[r].parts]
<1>1. request[r] \in Tasks
  BY DEF TypeOK
<1>2. CASE request[r] \in [at : {"drop"}, entries : SUBSET Entries, parts : SUBSET Parts]
  BY <1>2 DEF At
<1>3. CASE \E e \in Entries : request[r] \in [at : {"fill"}, entry : {e}, value : Copies(e),
                                              parts : SUBSET Parts]
  BY <1>3 DEF At
<1>4. CASE request[r] = Idle \/ request[r] \in [at : {"read"}, of : Tenants, value : Values]
  BY <1>4 DEF At, Idle
<1> QED BY <1>1, <1>2, <1>3, <1>4, TaskCases

\* The tasks a request can be given.
LEMMA TaskMembers ==
    /\ Idle \in Tasks
    /\ \A k \in Tenants, v \in Values : [at |-> "read", of |-> k, value |-> v] \in Tasks
    /\ \A e \in Entries : \A v \in Copies(e), P \in SUBSET Parts :
          [at |-> "fill", entry |-> e, value |-> v, parts |-> P] \in Tasks
    /\ \A S \in SUBSET Entries, P \in SUBSET Parts :
          [at |-> "drop", entries |-> S, parts |-> P] \in Tasks
<1>1. \A k \in Tenants, v \in Values : [at |-> "read", of |-> k, value |-> v] \in Tasks
  BY TaskCases
<1>2. \A e \in Entries : \A v \in Copies(e), P \in SUBSET Parts :
          [at |-> "fill", entry |-> e, value |-> v, parts |-> P] \in Tasks
  BY TaskCases
<1>3. \A S \in SUBSET Entries, P \in SUBSET Parts :
          [at |-> "drop", entries |-> S, parts |-> P] \in Tasks
  BY TaskCases
<1> QED BY <1>1, <1>2, <1>3, TaskCases

\* A request whose task stays holds and invalidates what it did.
LEMMA SameTask ==
    ASSUME NEW q \in Requests, request'[q] = request[q]
    PROVE  /\ \A k \in Keys : Held(q, k)' = Held(q, k)
           /\ Pending(q)' = Pending(q) /\ PartsWritten(q)' = PartsWritten(q)
           /\ At(q, "read")' = At(q, "read") /\ At(q, "fill")' = At(q, "fill")
BY DEF Held, Pending, PartsWritten, At

\* A request that is idle or drops copies holds no row; an idle one, or a
\* reader, invalidates nothing.
LEMMA HoldsNothing ==
    ASSUME NEW r \in Requests
    PROVE  /\ At(r, "idle") \/ At(r, "drop") => \A k \in Keys : Held(r, k) = Missing
           /\ At(r, "idle") \/ At(r, "read") => Pending(r) = {}
           /\ At(r, "fill") /\ request[r].parts = {} => Pending(r) = {}
BY DEF Held, Has, Pending, At

\* Without the parts that are stale for a reason, a copy agrees with the rows.
LEMMA ServedExcused ==
    ServedIsCommitted <=> \A e \in Cached(Entries) : \A k \in e.of : \A p \in PartsOf(k) :
                              Agrees(e, k, p) \/ Excused(e, p)
BY DEF ServedIsCommitted, Excused

\* In the beginning nothing is cached.
LEMMA InitIInv == Init => IInv
<1> SUFFICES ASSUME Init PROVE IInv
    OBVIOUS
<1>1. 0 \in 0 .. MaxWrites
  BY CachesAssumption
<1>2. ASSUME NEW k \in Keys
      PROVE  /\ row[k] \in [PartsOf(k) -> 0 .. MaxWrites]
             /\ row[k] \in Values
  BY <1>1, PartsOfRows DEF Init, Values, Keys
<1>3. TypeOK
  BY <1>1, <1>2, TaskMembers DEF Init, TypeOK, Keys
<1>4. \A r \in Requests : At(r, "idle") /\ ~At(r, "read") /\ ~At(r, "fill")
  BY DEF Init, At, Idle
<1>5. RowsWhole /\ ReadsWhole
  BY <1>2, <1>4 DEF RowsWhole, ReadsWhole
<1>6. HoldsCommitted
  BY <1>4, HoldsNothing DEF HoldsCommitted, Has
<1>7. GoneForGood /\ ServedIsCommitted
  BY <1>4 DEF Init, GoneForGood, ServedIsCommitted, Cached
<1> QED BY <1>3, <1>5, <1>6, <1>7 DEF IInv

-----------------------------------------------------------------------------
(* Steps that leave the rows alone                                         *)

\* A request begins to hold what it reads, or drops something it does not hold.
LEMMA StartQuietly ==
    ASSUME IInv, NEW r \in Requests, NEW task \in Tasks, At(r, "idle"),
           Becomes(r, task),
           UNCHANGED <<row, cache, writes, overtaken, missed>>,
           ReadsWhole',
           \A k \in Keys : \A p \in PartsOf(k) :
               Has(Held(r, k)', p) => row[k] # Missing /\ Held(r, k)'[p] = row[k][p],
           task.at = "fill" =>
               \A k \in task.entry.of : task.value[k] = Missing => row[k] = Missing
    PROVE  IInv'
<1> USE DEF IInv
<1>1. request'[r] = task /\ \A q \in Requests \ {r} : request'[q] = request[q]
  BY DEF TypeOK, Becomes
<1>2. TypeOK' /\ RowsWhole'
  BY DEF TypeOK, RowsWhole, Becomes
<1>3. HoldsCommitted'
  <2> SUFFICES ASSUME NEW q \in Requests, NEW k \in Keys, NEW p \in PartsOf(k),
                      Has(Held(q, k)', p), <<q, p>> \notin overtaken
               PROVE  row[k] # Missing /\ Held(q, k)'[p] = row[k][p]
    BY DEF HoldsCommitted, Has
  <2>1. CASE q # r
    <3>1. Held(q, k)' = Held(q, k)
      BY <1>1, <2>1, SameTask
    <3> QED BY <3>1 DEF HoldsCommitted, Has
  <2> QED BY <2>1
<1>4. GoneForGood'
  BY <1>1 DEF GoneForGood, Cached, At
<1>5. ServedIsCommitted'
  <2>1. ASSUME NEW e \in Entries, NEW p, Excused(e, p)
        PROVE  Excused(e, p)'
    <3>1. CASE <<e, p>> \in missed
      BY <3>1 DEF Excused
    <3>2. CASE <<e, p>> \notin missed
      <4>1. PICK q \in Requests : e \in Pending(q) /\ p \in PartsWritten(q)
        BY <2>1, <3>2 DEF Excused
      <4>2. q # r
        BY <4>1, HoldsNothing
      <4>3. Pending(q)' = Pending(q) /\ PartsWritten(q)' = PartsWritten(q)
        BY <1>1, <4>2, SameTask
      <4> QED BY <4>1, <4>3 DEF Excused
    <3> QED BY <3>1, <3>2
  <2>2. Cached(Entries)' = Cached(Entries)
    BY DEF Cached
  <2>3. \A e \in Entries : \A k \in e.of : \A p \in PartsOf(k) :
            Agrees(e, k, p)' = Agrees(e, k, p)
    BY DEF Agrees, Has
  <2>4. Cached(Entries) \subseteq Entries
    BY DEF Cached
  <2> QED BY <2>1, <2>2, <2>3, <2>4 DEF ServedIsCommitted, Excused
<1> QED BY <1>2, <1>3, <1>4, <1>5

\* What is read has the type of a copy.
LEMMA ShownType ==
    ASSUME IInv, NEW e \in Entries, e = Page \/ \A k \in e.of : IsFound(k)
    PROVE  Shown(e) \in Copies(e)
<1>1. e.of \subseteq Keys /\ (e.as = "settings" => \E k \in Tenants : e.of = {k})
  BY EntriesOfRow
<1>2. \A k \in Tenants : row[k] # Missing => Instance(row[k]) \in Values
  <2> SUFFICES ASSUME NEW k \in Tenants, row[k] # Missing PROVE Instance(row[k]) \in Values
    OBVIOUS
  <2>1. row[k] \in [TenantParts -> 0 .. MaxWrites]
    BY PartsOfRows DEF IInv, RowsWhole, Keys
  <2> QED BY <2>1 DEF Instance, Values
<1>3. \A k \in Keys : row[k] \in Values \cup {Missing}
  BY DEF IInv, TypeOK, Keys
<1>4. Shown(e) \in [e.of -> Values \cup {Missing}]
  BY <1>1, <1>2, <1>3 DEF Shown
<1>5. CASE e = Page
  BY <1>4, <1>5, CopyTypes, EntryTypes
<1>6. CASE \A k \in e.of : IsFound(k)
  <2>1. Shown(e) \in [e.of -> Values]
    BY <1>1, <1>2, <1>3, <1>6 DEF Shown, IsFound
  <2> QED BY <2>1, CopyTypes
<1> QED BY <1>5, <1>6

LEMMA LoadKeeps ==
    ASSUME IInv, NEW r \in Requests, NEW e \in Entries, Load(r, e)
    PROVE  IInv'
<1> DEFINE task == [at |-> "fill", entry |-> e, value |-> Shown(e), parts |-> {}]
<1>1. task \in Tasks
  BY ShownType, TaskMembers DEF Load
<1>2. /\ At(r, "idle") /\ Becomes(r, task)
      /\ UNCHANGED <<row, cache, writes, overtaken, missed>>
  BY DEF Load
<1>3. task.at = "fill" /\ task.entry = e /\ task.value = Shown(e)
  OBVIOUS
<1> HIDE DEF task
<1>4. request'[r] = task /\ \A q \in Requests \ {r} : request'[q] = request[q]
  BY <1>2 DEF IInv, TypeOK, Becomes
<1>5. e.of \subseteq Keys /\ (e.as = "settings" => \E k \in Tenants : e.of = {k})
  BY EntriesOfRow
<1>6. ReadsWhole'
  BY <1>3, <1>4 DEF IInv, ReadsWhole, At
<1>7. ASSUME NEW k \in Keys, NEW p \in PartsOf(k), Has(Held(r, k)', p)
      PROVE  row[k] # Missing /\ Held(r, k)'[p] = row[k][p]
  <2>1. k \in e.of /\ Held(r, k)' = Shown(e)[k]
    BY <1>3, <1>4, <1>7 DEF Held, At, Has
  <2>2. CASE row[k] = Missing
    BY <1>7, <2>1, <2>2 DEF Shown, Has
  <2>3. CASE row[k] # Missing
    <3>1. row[k] \in [PartsOf(k) -> 0 .. MaxWrites]
      BY <2>3 DEF IInv, RowsWhole
    <3> QED BY <1>7, <2>1, <2>3, <3>1 DEF Shown, Has, Instance
  <2> QED BY <2>2, <2>3
<1>8. \A k \in e.of : Shown(e)[k] = Missing => row[k] = Missing
  <2>1. Shown(e) \in Copies(e)
    BY ShownType DEF Load
  <2> SUFFICES ASSUME NEW k \in e.of, row[k] # Missing PROVE Shown(e)[k] # Missing
    OBVIOUS
  <2>2. CASE e.as = "settings"
    <3>1. e # Page /\ Copies(e) = [e.of -> Values]
      BY <2>2 DEF Page, Copies
    <3> QED BY <2>1, <3>1, CopyTypes
  <2>3. CASE e.as # "settings"
    BY <2>3 DEF Shown
  <2> QED BY <2>2, <2>3
<1>9. task.at = "fill" => \A k \in task.entry.of : task.value[k] = Missing => row[k] = Missing
  BY <1>3, <1>8
<1> QED BY <1>1, <1>2, <1>6, <1>7, <1>9, StartQuietly

LEMMA FindTenantKeeps ==
    ASSUME IInv, NEW r \in Requests, NEW k \in Tenants, FindTenant(r, k)
    PROVE  IInv'
<1> DEFINE task == [at |-> "read", of |-> k, value |-> Instance(row[k])]
<1>1. row[k] # Missing /\ row[k] \in [TenantParts -> 0 .. MaxWrites]
  BY PartsOfRows DEF FindTenant, IsFound, IInv, RowsWhole, Keys
<1>2. /\ Instance(row[k]) \in [TenantParts -> 0 .. MaxWrites \cup {Missing}]
      /\ Instance(row[k])[Users] = Missing
      /\ \A p \in Columns : /\ Instance(row[k])[p] = row[k][p]
                            /\ Instance(row[k])[p] \in 0 .. MaxWrites
  BY <1>1, PartsOfRows DEF Instance, TenantParts
<1>3. task \in Tasks
  BY <1>2, TaskMembers DEF Values
<1>4. /\ At(r, "idle") /\ Becomes(r, task)
      /\ UNCHANGED <<row, cache, writes, overtaken, missed>>
  BY DEF FindTenant
<1>5. task.at = "read" /\ task.of = k /\ task.value = Instance(row[k])
  OBVIOUS
<1> HIDE DEF task
<1>6. request'[r] = task /\ \A q \in Requests \ {r} : request'[q] = request[q]
  BY <1>4 DEF IInv, TypeOK, Becomes
<1>7. ReadsWhole'
  <2>1. \A p \in Columns : Instance(row[k])[p] # Missing
    BY <1>2, CachesAssumption
  <2> QED BY <1>2, <1>5, <1>6, <2>1 DEF IInv, ReadsWhole, At
<1>8. ASSUME NEW j \in Keys, NEW p \in PartsOf(j), Has(Held(r, j)', p)
      PROVE  row[j] # Missing /\ Held(r, j)'[p] = row[j][p]
  <2>1. j = k /\ Held(r, j)' = Instance(row[k])
    BY <1>5, <1>6, <1>8 DEF Held, At, Has
  <2>2. p \in Columns
    BY <1>2, <1>8, <2>1, PartsOfRows DEF Has, TenantParts
  <2> QED BY <1>1, <1>2, <2>1, <2>2
<1> QED BY <1>3, <1>4, <1>5, <1>7, <1>8, StartQuietly

LEMMA UpdateTenantSettingsKeeps ==
    ASSUME IInv, NEW r \in Requests, NEW k \in Tenants, UpdateTenantSettings(r, k)
    PROVE  IInv'
<1> DEFINE task == [at |-> "drop", entries |-> {Settings(k)}, parts |-> {}]
<1>1. task \in Tasks
  BY EntryTypes, TaskMembers
<1>2. /\ At(r, "idle") /\ Becomes(r, task)
      /\ UNCHANGED <<row, cache, writes, overtaken, missed>>
  BY DEF UpdateTenantSettings
<1>3. task.at = "drop"
  OBVIOUS
<1> HIDE DEF task
<1>4. request'[r] = task /\ \A q \in Requests \ {r} : request'[q] = request[q]
  BY <1>2 DEF IInv, TypeOK, Becomes
<1>5. ReadsWhole'
  BY <1>3, <1>4 DEF IInv, ReadsWhole, At
<1>6. \A j \in Keys : Held(r, j)' = Missing
  BY <1>3, <1>4 DEF Held, At
<1> QED BY <1>1, <1>2, <1>3, <1>5, <1>6, StartQuietly DEF Has

\* A copy that lapses is not served.
LEMMA ExpireKeeps ==
    ASSUME IInv, NEW e \in Entries, Expire(e)
    PROVE  IInv'
<1> USE DEF IInv
<1>1. /\ cache' = [cache EXCEPT ![e] = Missing]
      /\ missed' = missed \ ({e} \X Parts)
      /\ UNCHANGED <<row, request, writes, overtaken>>
  BY DEF Expire
<1>2. cache'[e] = Missing /\ \A f \in Entries \ {e} : cache'[f] = cache[f]
  BY <1>1 DEF TypeOK
<1>3. TypeOK'
  BY <1>1, <1>2 DEF TypeOK
<1>4. RowsWhole' /\ ReadsWhole' /\ HoldsCommitted'
  BY <1>1 DEF RowsWhole, ReadsWhole, HoldsCommitted, At, Held, Has
<1>5. GoneForGood'
  BY <1>1, <1>2 DEF GoneForGood, Cached, At
<1>6. ASSUME NEW f \in Cached(Entries)', NEW k \in f.of, NEW p \in PartsOf(k)
      PROVE  Agrees(f, k, p)' \/ Excused(f, p)'
  <2>1. f \in Cached(Entries) /\ f # e /\ cache'[f] = cache[f]
    BY <1>2 DEF Cached
  <2>2. Agrees(f, k, p)' = Agrees(f, k, p)
    BY <1>1, <2>1 DEF Agrees, Has
  <2>3. Excused(f, p) => Excused(f, p)'
    BY <1>1, <2>1 DEF Excused, Pending, PartsWritten, At
  <2> QED BY <2>1, <2>2, <2>3 DEF ServedIsCommitted, Excused
<1>7. ServedIsCommitted'
  BY <1>6 DEF ServedIsCommitted, Excused
<1> QED BY <1>3, <1>4, <1>5, <1>7

\* A part that a copy does not show is not stale.
LEMMA NotShown ==
    ASSUME GoneForGood, NEW e \in Cached(Entries), NEW k \in e.of, NEW p,
           ~Has(cache[e][k], p)
    PROVE  Agrees(e, k, p)
BY DEF Agrees, GoneForGood

\* What Miss does: the copies stay, and the parts they show are noted.
LEMMA MissNotes ==
    ASSUME TypeOK, NEW S \in SUBSET Entries, NEW P \in SUBSET Parts, Miss(S, P)
    PROVE  /\ cache' = cache /\ missed \subseteq missed'
           /\ missed' \subseteq Entries \X Parts
           /\ \A e \in Cached(Entries) \cap S : \A k \in e.of : \A p \in P :
                 Has(cache[e][k], p) => <<e, p>> \in missed'
<1>1. cache' = cache /\ missed' = missed \cup Showing(S, P)
  BY DEF Miss
<1>2. Showing(S, P) \subseteq Entries \X Parts
  BY DEF Showing, Cached
<1>3. ASSUME NEW e \in Cached(Entries) \cap S, NEW k \in e.of, NEW p \in P, Has(cache[e][k], p)
      PROVE  <<e, p>> \in Showing(S, P)
  <2>1. <<e, p>> \in Cached(S) \X P
    BY DEF Cached
  <2> QED BY <1>3, <2>1 DEF Showing
<1> QED BY <1>1, <1>2, <1>3 DEF TypeOK

\* Request r finishes a step on the copies and holds no row from then on.
LEMMA StepQuietly ==
    ASSUME IInv, NEW r \in Requests, NEW task \in Tasks,
           Becomes(r, task),
           task.at \in {"idle", "drop"},
           UNCHANGED <<row, writes>>,
           overtaken' \subseteq overtaken,
           \A q \in Requests \ {r}, p \in Parts : <<q, p>> \in overtaken => <<q, p>> \in overtaken',
           DOMAIN cache' = Entries,
           \A e \in Entries : cache'[e] \in Copies(e) \cup {Missing},
           missed' \subseteq Entries \X Parts,
           \A e \in Cached(Entries)' : \A k \in e.of : cache'[e][k] = Missing => row[k] = Missing,
           \A e \in Cached(Entries)' : \A k \in e.of : \A p \in PartsOf(k) :
               \/ Agrees(e, k, p)'
               \/ <<e, p>> \in missed'
               \/ e \in Pending(r)' /\ p \in PartsWritten(r)'
               \/ \E q \in Requests \ {r} : e \in Pending(q) /\ p \in PartsWritten(q)
    PROVE  IInv'
<1> USE DEF IInv
<1>1. request'[r] = task /\ \A q \in Requests \ {r} : request'[q] = request[q]
  BY DEF TypeOK, Becomes
<1>2. TypeOK' /\ RowsWhole'
  BY DEF TypeOK, RowsWhole, Becomes
<1>3. ReadsWhole'
  BY <1>1 DEF ReadsWhole, At
<1>4. HoldsCommitted'
  <2> SUFFICES ASSUME NEW q \in Requests, NEW k \in Keys, NEW p \in PartsOf(k),
                      Has(Held(q, k)', p), <<q, p>> \notin overtaken'
               PROVE  row[k] # Missing /\ Held(q, k)'[p] = row[k][p]
    BY DEF HoldsCommitted, Has
  <2>1. q # r
    BY <1>1 DEF Held, At, Has
  <2>2. Held(q, k)' = Held(q, k)
    BY <1>1, <2>1, SameTask
  <2>3. p \in Parts /\ <<q, p>> \notin overtaken
    BY <2>1, PartsOfRows
  <2> QED BY <2>2, <2>3 DEF HoldsCommitted, Has
<1>5. GoneForGood'
  BY <1>1 DEF GoneForGood, At
<1>6. ASSUME NEW e \in Cached(Entries)', NEW k \in e.of, NEW p \in PartsOf(k)
      PROVE  Agrees(e, k, p)' \/ Excused(e, p)'
  <2>1. CASE \E q \in Requests \ {r} : e \in Pending(q) /\ p \in PartsWritten(q)
    <3>1. PICK q \in Requests \ {r} : e \in Pending(q) /\ p \in PartsWritten(q)
      BY <2>1
    <3>2. Pending(q)' = Pending(q) /\ PartsWritten(q)' = PartsWritten(q)
      BY <1>1, SameTask
    <3> QED BY <3>1, <3>2 DEF Excused
  <2>2. CASE ~\E q \in Requests \ {r} : e \in Pending(q) /\ p \in PartsWritten(q)
    BY <2>2 DEF Excused
  <2> QED BY <2>1, <2>2
<1>7. ServedIsCommitted'
  BY <1>6 DEF ServedIsCommitted, Excused
<1> QED BY <1>2, <1>3, <1>4, <1>5, <1>7

\* The deletion of some copies leaves the others to the rest of it.
LEMMA DropKeeps ==
    ASSUME IInv, NEW r \in Requests, Drop(r)
    PROVE  IInv'
<1> USE DEF IInv
<1> DEFINE P == request[r].parts
<1>1. At(r, "drop") /\ UNCHANGED <<row, writes, overtaken>>
  BY DEF Drop
<1>2. /\ request[r].entries \subseteq Entries /\ P \subseteq Parts
      /\ request[r] = [at |-> "drop", entries |-> request[r].entries, parts |-> P]
  BY <1>1, TaskTypes
<1>3. PICK S \in SUBSET request[r].entries :
          /\ S # {}
          /\ \/ /\ cache' = [e \in Entries |-> IF e \in S THEN Missing ELSE cache[e]]
                /\ missed' = missed \ (S \X Parts)
             \/ Miss(S, P)
          /\ Becomes(r, IF S = request[r].entries THEN Idle
                         ELSE [request[r] EXCEPT !.entries = @ \ S])
  BY DEF Drop
<1> DEFINE rest == [at |-> "drop", entries |-> request[r].entries \ S, parts |-> P]
           task == IF S = request[r].entries THEN Idle ELSE rest
<1>4. [request[r] EXCEPT !.entries = @ \ S] = rest
  BY <1>2
<1>5. Becomes(r, task) /\ task \in Tasks /\ task.at \in {"idle", "drop"}
  <2>1. rest \in Tasks
    BY <1>2, TaskMembers
  <2> QED BY <1>3, <1>4, <2>1, TaskMembers DEF Idle
<1>6. Pending(r) = request[r].entries /\ PartsWritten(r) \subseteq P
  BY <1>1 DEF Pending, PartsWritten, At
<1>7. \A e \in Pending(r) \ S : e \in Pending(r)' /\ PartsWritten(r)' = P
  <2>1. request'[r] = task
    BY <1>5 DEF TypeOK, Becomes
  <2>2. CASE S = request[r].entries
    BY <1>6, <2>2
  <2>3. CASE S # request[r].entries
    <3>1. request'[r] = rest
      BY <2>1, <2>3
    <3> QED BY <1>6, <2>3, <3>1 DEF Pending, PartsWritten, At
  <2> QED BY <2>2, <2>3
<1> HIDE DEF task, rest, P
<1>8. /\ DOMAIN cache' = Entries
      /\ \A e \in Entries : cache'[e] \in Copies(e) \cup {Missing}
      /\ missed' \subseteq Entries \X Parts
      /\ Cached(Entries)' \subseteq Cached(Entries)
      /\ \A e \in Cached(Entries)' : cache'[e] = cache[e]
  BY <1>2, <1>3, MissNotes DEF TypeOK, Cached
<1>9. \A e \in Cached(Entries)' : \A k \in e.of : cache'[e][k] = Missing => row[k] = Missing
  BY <1>8 DEF GoneForGood
<1>10. ASSUME NEW e \in Cached(Entries)', NEW k \in e.of, NEW p \in PartsOf(k)
       PROVE  \/ Agrees(e, k, p)'
              \/ <<e, p>> \in missed'
              \/ e \in Pending(r)' /\ p \in PartsWritten(r)'
              \/ \E q \in Requests \ {r} : e \in Pending(q) /\ p \in PartsWritten(q)
  <2>1. e \in Cached(Entries) /\ Agrees(e, k, p)' = Agrees(e, k, p)
    BY <1>1, <1>8 DEF Agrees, Has
  <2>2. CASE e \in S
    <3>1. Miss(S, P)
      BY <1>3, <2>2, <1>8 DEF Cached
    <3>2. S \in SUBSET Entries /\ P \in SUBSET Parts
      BY <1>2
    <3>3. \/ ~Has(cache[e][k], p) \/ p \notin P
          \/ <<e, p>> \in missed'
      BY <2>1, <2>2, <3>1, <3>2, MissNotes
    <3>4. missed \subseteq missed'
      BY <3>1 DEF Miss
    <3> QED BY <1>6, <2>1, <3>3, <3>4, NotShown DEF ServedIsCommitted
  <2>3. CASE e \notin S
    <3>1. <<e, p>> \in missed => <<e, p>> \in missed'
      BY <1>3, <2>3 DEF Miss
    <3>2. e \in Pending(r) /\ p \in PartsWritten(r) => e \in Pending(r)' /\ p \in PartsWritten(r)'
      BY <1>6, <1>7, <2>3
    <3> QED BY <2>1, <3>1, <3>2 DEF ServedIsCommitted
  <2> QED BY <2>2, <2>3
<1> QED BY <1>1, <1>5, <1>8, <1>9, <1>10, StepQuietly

\* A set leaves what a request holds of a row, or a reason part by part.
LEMMA FillKeeps ==
    ASSUME IInv, NEW r \in Requests, Fill(r)
    PROVE  IInv'
<1> USE DEF IInv
<1> DEFINE e == request[r].entry
           v == request[r].value
           P == request[r].parts
           rest == [at |-> "drop", entries |-> {Page}, parts |-> P]
           task == IF P = {} THEN Idle ELSE rest
<1>1. /\ At(r, "fill") /\ UNCHANGED <<row, writes>>
      /\ \/ /\ cache' = [cache EXCEPT ![e] = v]
            /\ missed' = (missed \ ({e} \X Parts))
                             \cup ({e} \X {p \in Parts : <<r, p>> \in overtaken})
         \/ Miss({e}, P)
      /\ Becomes(r, task)
      /\ overtaken' = overtaken \ ({r} \X Parts)
  BY DEF Fill
<1>2. e \in Entries /\ v \in Copies(e) /\ P \subseteq Parts
  BY <1>1, TaskTypes
<1>3. task \in Tasks /\ task.at \in {"idle", "drop"}
  BY <1>2, TaskMembers, EntryTypes DEF Idle
<1>4. /\ \A f \in Pending(r) : f \in {e, Page} /\ P # {}
      /\ PartsWritten(r) \subseteq P
  BY <1>1 DEF Pending, PartsWritten, At
<1>5. P # {} => Page \in Pending(r)' /\ PartsWritten(r)' = P
  <2>1. P # {} => request'[r] = rest
    BY <1>1 DEF TypeOK, Becomes
  <2> QED BY <2>1 DEF Pending, PartsWritten, At
<1>6. \A k \in e.of : Held(r, k) = v[k]
  BY <1>1 DEF Held, At
<1>7. \A k \in e.of : v[k] = Missing => row[k] = Missing
  BY <1>1 DEF GoneForGood
<1>8. {e} \in SUBSET Entries /\ P \in SUBSET Parts /\ e.of \subseteq Keys
  BY <1>2, EntriesOfRow
<1> HIDE DEF task, rest, e, v, P
<1>9. CASE Miss({e}, P)
  <2>1. /\ cache' = cache /\ missed \subseteq missed' /\ missed' \subseteq Entries \X Parts
        /\ \A f \in Cached(Entries) \cap {e} : \A k \in f.of : \A p \in P :
              Has(cache[f][k], p) => <<f, p>> \in missed'
    BY <1>8, <1>9, MissNotes
  <2>2. Cached(Entries)' = Cached(Entries)
    BY <2>1 DEF Cached
  <2>3. ASSUME NEW f \in Cached(Entries)', NEW k \in f.of, NEW p \in PartsOf(k)
        PROVE  \/ Agrees(f, k, p)'
               \/ <<f, p>> \in missed'
               \/ f \in Pending(r)' /\ p \in PartsWritten(r)'
               \/ \E q \in Requests \ {r} : f \in Pending(q) /\ p \in PartsWritten(q)
    <3>1. f \in Cached(Entries) /\ Agrees(f, k, p)' = Agrees(f, k, p)
      BY <1>1, <2>1, <2>2 DEF Agrees, Has
    <3>2. CASE f = e /\ p \in P
      BY <2>1, <3>1, <3>2, NotShown
    <3>3. CASE ~(f = e /\ p \in P)
      <4>1. f \in Pending(r) /\ p \in PartsWritten(r) => f \in Pending(r)' /\ p \in PartsWritten(r)'
        BY <1>4, <1>5, <3>3
      <4> QED BY <2>1, <3>1, <4>1 DEF ServedIsCommitted
    <3> QED BY <3>2, <3>3
  <2>4. \A f \in Cached(Entries)' : \A k \in f.of : cache'[f][k] = Missing => row[k] = Missing
    BY <2>1, <2>2 DEF GoneForGood
  <2> QED BY <1>1, <1>3, <2>1, <2>3, <2>4, StepQuietly DEF TypeOK
<1>10. CASE ~Miss({e}, P)
  <2>1. /\ cache' = [cache EXCEPT ![e] = v]
        /\ missed' = (missed \ ({e} \X Parts)) \cup ({e} \X {p \in Parts : <<r, p>> \in overtaken})
    BY <1>1, <1>10
  <2>2. /\ cache'[e] = v /\ \A f \in Entries \ {e} : cache'[f] = cache[f]
        /\ DOMAIN cache' = Entries
    BY <1>2, <2>1 DEF TypeOK
  <2>3. ASSUME NEW f \in Cached(Entries)', NEW k \in f.of, NEW p \in PartsOf(k)
        PROVE  \/ Agrees(f, k, p)'
               \/ <<f, p>> \in missed'
               \/ f \in Pending(r)' /\ p \in PartsWritten(r)'
               \/ \E q \in Requests \ {r} : f \in Pending(q) /\ p \in PartsWritten(q)
    <3>1. CASE f = e
      <4>1. p \in Parts /\ k \in Keys
        BY <1>8, <3>1, PartsOfRows
      <4>2. CASE <<r, p>> \in overtaken
        BY <2>1, <3>1, <4>1, <4>2
      <4>3. CASE <<r, p>> \notin overtaken
        <5>1. Has(v[k], p) => row[k] # Missing /\ v[k][p] = row[k][p]
          BY <1>6, <3>1, <4>1, <4>3 DEF HoldsCommitted
        <5> QED BY <1>1, <1>7, <2>2, <3>1, <5>1 DEF Agrees, Has
      <4> QED BY <4>2, <4>3
    <3>2. CASE f # e
      <4>1. f \in Cached(Entries) /\ cache'[f] = cache[f]
        BY <2>2, <3>2 DEF Cached
      <4>2. Agrees(f, k, p)' = Agrees(f, k, p)
        BY <1>1, <4>1 DEF Agrees, Has
      <4>3. <<f, p>> \in missed => <<f, p>> \in missed'
        BY <2>1, <3>2
      <4>4. f \in Pending(r) /\ p \in PartsWritten(r) => f \in Pending(r)' /\ p \in PartsWritten(r)'
        BY <1>4, <1>5, <3>2
      <4> QED BY <4>1, <4>2, <4>3, <4>4 DEF ServedIsCommitted
    <3> QED BY <3>1, <3>2
  <2>4. \A f \in Cached(Entries)' : \A k \in f.of : cache'[f][k] = Missing => row[k] = Missing
    BY <1>7, <2>2 DEF GoneForGood, Cached
  <2>5. \A f \in Entries : cache'[f] \in Copies(f) \cup {Missing}
    BY <1>2, <2>2 DEF TypeOK
  <2>6. missed' \subseteq Entries \X Parts
    BY <1>2, <2>1 DEF TypeOK
  <2> QED BY <1>1, <1>3, <2>2, <2>3, <2>4, <2>5, <2>6, StepQuietly
<1> QED BY <1>9, <1>10

\* Whatever a request that fails was about to invalidate is missed.
LEMMA FailKeeps ==
    ASSUME IInv, NEW r \in Requests, Fail(r)
    PROVE  IInv'
<1> USE DEF IInv
<1>1. /\ Miss(Pending(r), PartsWritten(r)) /\ Becomes(r, Idle)
      /\ overtaken' = overtaken \ ({r} \X Parts)
      /\ UNCHANGED <<row, writes>>
  BY DEF Fail
<1>2. Pending(r) \in SUBSET Entries /\ PartsWritten(r) \in SUBSET Parts
  <2>1. CASE At(r, "drop")
    BY <2>1, TaskTypes DEF Pending, PartsWritten, At
  <2>2. CASE At(r, "fill") /\ request[r].parts # {}
    <3>1. Pending(r) = {request[r].entry, Page} /\ PartsWritten(r) = request[r].parts
      BY <2>2 DEF Pending, PartsWritten, At
    <3> QED BY <2>2, <3>1, TaskTypes, EntryTypes
  <2>3. CASE ~At(r, "drop") /\ ~(At(r, "fill") /\ request[r].parts # {})
    BY <2>3 DEF Pending, PartsWritten
  <2> QED BY <2>1, <2>2, <2>3
<1>3. /\ cache' = cache /\ missed \subseteq missed' /\ missed' \subseteq Entries \X Parts
      /\ \A f \in Cached(Entries) \cap Pending(r) : \A k \in f.of : \A p \in PartsWritten(r) :
            Has(cache[f][k], p) => <<f, p>> \in missed'
  BY <1>1, <1>2, MissNotes
<1>4. Cached(Entries)' = Cached(Entries)
  BY <1>3 DEF Cached
<1>5. ASSUME NEW f \in Cached(Entries)', NEW k \in f.of, NEW p \in PartsOf(k)
      PROVE  \/ Agrees(f, k, p)'
             \/ <<f, p>> \in missed'
             \/ f \in Pending(r)' /\ p \in PartsWritten(r)'
             \/ \E q \in Requests \ {r} : f \in Pending(q) /\ p \in PartsWritten(q)
  <2>1. f \in Cached(Entries) /\ Agrees(f, k, p)' = Agrees(f, k, p)
    BY <1>1, <1>3, <1>4 DEF Agrees, Has
  <2>2. CASE f \in Pending(r) /\ p \in PartsWritten(r)
    BY <1>3, <2>1, <2>2, NotShown
  <2>3. CASE ~(f \in Pending(r) /\ p \in PartsWritten(r))
    BY <1>3, <2>1, <2>3 DEF ServedIsCommitted
  <2> QED BY <2>2, <2>3
<1>6. \A f \in Cached(Entries)' : \A k \in f.of : cache'[f][k] = Missing => row[k] = Missing
  BY <1>3, <1>4 DEF GoneForGood
<1>7. Idle \in Tasks /\ Idle.at = "idle"
  BY TaskMembers DEF Idle
<1> QED BY <1>1, <1>3, <1>5, <1>6, <1>7, StepQuietly DEF TypeOK

-----------------------------------------------------------------------------
(* Steps that write rows                                                   *)

\* Request r changes the parts P of the rows in K: whoever holds one of them is
\* overtaken, r itself knows what it wrote, and the copies that show them are
\* about to be invalidated by r or missed.
LEMMA WriteKeeps ==
    ASSUME IInv, NEW r \in Requests, NEW K \in SUBSET Keys, NEW P \in SUBSET Parts,
           TypeOK', RowsWhole',
           At(r, "idle") \/ At(r, "read"),
           request'[r].at # "read",
           \A q \in Requests \ {r} : request'[q] = request[q],
           \A k \in Keys : row[k] = Missing => row'[k] = Missing,
           \A k \in Keys : \A p \in PartsOf(k) :
               \/ k \in K /\ p \in P
               \/ row[k] = Missing
               \/ row'[k] # Missing /\ row'[k][p] = row[k][p],
           overtaken' = overtaken \cup Holding(Requests \ {r}, K, P),
           cache' = cache, missed \subseteq missed',
           \A k \in Keys : \A p \in PartsOf(k) :
               Has(Held(r, k)', p) /\ <<r, p>> \notin overtaken =>
                   row'[k] # Missing /\ Held(r, k)'[p] = row'[k][p],
           request'[r].at = "fill" =>
               \A k \in request'[r].entry.of : request'[r].value[k] # Missing,
           \A e \in Cached(Entries) : \A k \in e.of \cap K : \A p \in P :
               Has(cache[e][k], p) =>
                   <<e, p>> \in missed' \/ (e \in Pending(r)' /\ p \in PartsWritten(r)')
    PROVE  IInv'
<1> USE DEF IInv
<1>1. ReadsWhole'
  BY DEF ReadsWhole, At
<1>2. HoldsCommitted'
  <2> SUFFICES ASSUME NEW q \in Requests, NEW k \in Keys, NEW p \in PartsOf(k),
                      Has(Held(q, k)', p), <<q, p>> \notin overtaken'
               PROVE  row'[k] # Missing /\ Held(q, k)'[p] = row'[k][p]
    BY DEF HoldsCommitted, Has
  <2>1. CASE q = r
    BY <2>1
  <2>2. CASE q # r
    <3>1. Held(q, k)' = Held(q, k)
      BY <2>2, SameTask
    <3>2. row[k] # Missing /\ Held(q, k)[p] = row[k][p]
      BY <3>1 DEF HoldsCommitted, Has
    <3>3. ~(k \in K /\ p \in P)
      <4> SUFFICES ASSUME k \in K, p \in P PROVE <<q, p>> \in Holding(Requests \ {r}, K, P)
        OBVIOUS
      <4>1. <<q, p>> \in (Requests \ {r}) \X P /\ Has(Held(q, k), p)
        BY <2>2, <3>1
      <4> QED BY <4>1 DEF Holding
    <3> QED BY <3>1, <3>2, <3>3
  <2> QED BY <2>1, <2>2
<1>3. GoneForGood'
  <2>1. \A e \in Cached(Entries)' : \A k \in e.of : cache'[e][k] = Missing => row'[k] = Missing
    <3>1. \A e \in Entries : e.of \subseteq Keys
      BY EntriesOfRow
    <3> QED BY <3>1 DEF GoneForGood, Cached
  <2>2. ASSUME NEW q \in Requests, At(q, "fill")', NEW k \in request'[q].entry.of,
               request'[q].value[k] = Missing
        PROVE  row'[k] = Missing
    <3>1. q # r
      BY <2>2 DEF At
    <3>2. request'[q] = request[q] /\ At(q, "fill")
      BY <2>2, <3>1 DEF At
    <3>3. request[q].entry \in Entries /\ k \in request[q].entry.of
      BY <2>2, <3>2, TaskTypes
    <3>4. k \in Keys
      BY <3>3, EntriesOfRow
    <3>5. row[k] = Missing
      BY <2>2, <3>2, <3>3 DEF GoneForGood
    <3> QED BY <3>4, <3>5
  <2>3. \A q \in Requests : At(q, "fill")' =>
            \A k \in request'[q].entry.of : request'[q].value[k] = Missing => row'[k] = Missing
    BY <2>2
  <2> HIDE DEF IInv
  <2> QED BY <2>1, <2>3 DEF GoneForGood
<1>4. ASSUME NEW e \in Cached(Entries)', NEW k \in e.of, NEW p \in PartsOf(k)
      PROVE  Agrees(e, k, p)' \/ Excused(e, p)'
  <2>1. e \in Cached(Entries) /\ e \in Entries
    BY DEF Cached
  <2>2. k \in Keys
    BY <2>1, EntriesOfRow
  <2>3. Excused(e, p) => Excused(e, p)'
    <3>1. ASSUME NEW q \in Requests, e \in Pending(q), p \in PartsWritten(q)
          PROVE  Excused(e, p)'
      <4>1. q # r
        BY <3>1, HoldsNothing
      <4>2. Pending(q)' = Pending(q) /\ PartsWritten(q)' = PartsWritten(q)
        BY <4>1, SameTask
      <4> QED BY <3>1, <4>2 DEF Excused
    <3> QED BY <3>1 DEF Excused
  <2>4. CASE Agrees(e, k, p)
    <3>1. CASE Has(cache[e][k], p) /\ k \in K /\ p \in P
      BY <2>1, <3>1 DEF Excused
    <3>2. CASE ~(Has(cache[e][k], p) /\ k \in K /\ p \in P)
      BY <2>2, <2>4, <3>2 DEF Agrees, Has
    <3> QED BY <3>1, <3>2
  <2>5. CASE ~Agrees(e, k, p)
    BY <2>1, <2>3, <2>5 DEF ServedIsCommitted, Excused
  <2> QED BY <2>4, <2>5
<1>5. ServedIsCommitted'
  BY <1>4 DEF ServedIsCommitted, Excused
<1> QED BY <1>1, <1>2, <1>3, <1>5

\* What Commit does to the rows.
LEMMA CommitWrites ==
    ASSUME IInv, NEW r \in Requests, NEW K \in SUBSET Keys, NEW P \in SUBSET Parts,
           NEW S \in SUBSET Entries, Commit(r, K, P, S), request' \in [Requests -> Tasks]
    PROVE  /\ TypeOK' /\ RowsWhole'
           /\ writes + 1 \in 0 .. MaxWrites
           /\ \A k \in Keys : row[k] = Missing <=> row'[k] = Missing
           /\ \A k \in K : row[k] # Missing => row'[k] = Written(row[k], P, writes + 1)
           /\ \A k \in Keys : \A p \in PartsOf(k) :
                 \/ k \in K /\ p \in P
                 \/ row[k] = Missing
                 \/ row'[k] # Missing /\ row'[k][p] = row[k][p]
           /\ overtaken' = overtaken \cup Holding(Requests \ {r}, K, P)
           /\ cache' = cache /\ missed \subseteq missed'
           /\ \A e \in Cached(Entries) \cap S : \A k \in e.of : \A p \in P :
                 Has(cache[e][k], p) => <<e, p>> \in missed'
<1> USE DEF IInv
<1>1. writes + 1 \in 0 .. MaxWrites
  BY CachesAssumption DEF TypeOK, Commit
<1>2. ASSUME NEW k \in Keys, row[k] # Missing
      PROVE  /\ Written(row[k], P, writes + 1) \in [PartsOf(k) -> 0 .. MaxWrites]
             /\ Written(row[k], P, writes + 1) # Missing
             /\ \A p \in PartsOf(k) \ P : Written(row[k], P, writes + 1)[p] = row[k][p]
  <2>1. row[k] \in [PartsOf(k) -> 0 .. MaxWrites]
    BY <1>2 DEF RowsWhole
  <2>2. Written(row[k], P, writes + 1) \in [PartsOf(k) -> 0 .. MaxWrites]
    BY <1>1, <2>1 DEF Written
  <2>3. \A p \in PartsOf(k) \ P : Written(row[k], P, writes + 1)[p] = row[k][p]
    BY <1>1, <2>1 DEF Written
  <2>4. [PartsOf(k) -> 0 .. MaxWrites] \subseteq Values
    <3>1. PartsOf(k) = Menus \/ PartsOf(k) = TenantParts
      BY PartsOfRows DEF Keys
    <3> QED BY <3>1 DEF Values
  <2>5. Missing \notin Values
    BY CachesAssumption
  <2> QED BY <2>2, <2>3, <2>4, <2>5
<1>3. row' = [k \in Keys |-> IF k \in K /\ row[k] # Missing THEN Written(row[k], P, writes + 1)
                              ELSE row[k]]
  BY DEF Commit, Keys
<1>4. /\ \A k \in Keys : row[k] = Missing <=> row'[k] = Missing
      /\ \A k \in K : row[k] # Missing => row'[k] = Written(row[k], P, writes + 1)
      /\ \A k \in Keys : \A p \in PartsOf(k) :
            \/ k \in K /\ p \in P
            \/ row[k] = Missing
            \/ row'[k] # Missing /\ row'[k][p] = row[k][p]
  BY <1>2, <1>3
<1>5. RowsWhole'
  BY <1>2, <1>3 DEF RowsWhole
<1>6. row' \in [Keys -> Values \cup {Missing}]
  <2>1. \A k \in Keys : [PartsOf(k) -> 0 .. MaxWrites] \subseteq Values
    BY PartsOfRows DEF Keys, Values
  <2> QED BY <1>2, <1>3, <2>1 DEF TypeOK, Keys
<1>7. /\ overtaken' = overtaken \cup Holding(Requests \ {r}, K, P)
      /\ Miss(S, P) /\ writes' = writes + 1
  BY DEF Commit
<1>8. /\ cache' = cache /\ missed \subseteq missed' /\ missed' \subseteq Entries \X Parts
      /\ \A e \in Cached(Entries) \cap S : \A k \in e.of : \A p \in P :
            Has(cache[e][k], p) => <<e, p>> \in missed'
  BY <1>7, MissNotes
<1>9. Holding(Requests \ {r}, K, P) \subseteq Requests \X Parts
  BY DEF Holding
<1>10. TypeOK'
  BY <1>1, <1>6, <1>7, <1>8, <1>9 DEF TypeOK, Keys
<1> QED BY <1>1, <1>4, <1>5, <1>7, <1>8, <1>10

\* A request without a copy of its own commits, and drops copies or leaves them.
LEMMA WriterKeeps ==
    ASSUME IInv, NEW r \in Requests, NEW K \in SUBSET Keys, NEW P \in SUBSET Parts,
           NEW S \in SUBSET Entries, NEW D \in SUBSET Entries, At(r, "idle"),
           Commit(r, K, P, S),
           \/ UNCHANGED request /\ D = {}
           \/ Becomes(r, [at |-> "drop", entries |-> D, parts |-> P]),
           \A e \in Entries : \A k \in e.of \cap K : e \in S \cup D
    PROVE  IInv'
<1> DEFINE task == [at |-> "drop", entries |-> D, parts |-> P]
<1>1. task \in Tasks /\ Idle \in Tasks
  BY TaskMembers
<1>2. /\ request' \in [Requests -> Tasks]
      /\ \A q \in Requests \ {r} : request'[q] = request[q]
      /\ (request'[r] = request[r] /\ D = {}) \/ request'[r] = task
  BY <1>1 DEF Becomes, IInv, TypeOK
<1>3. At(r, "idle")' \/ request'[r] = task
  BY <1>2 DEF At
<1>4. /\ request'[r].at \in {"idle", "drop"}
      /\ \A k \in Keys : Held(r, k)' = Missing
      /\ \A e \in D : e \in Pending(r)' /\ PartsWritten(r)' = P
  <2>1. CASE request'[r] = task
    BY <2>1 DEF Held, Pending, PartsWritten, At
  <2>2. CASE request'[r] = request[r] /\ D = {}
    BY <2>2 DEF Held, At
  <2> QED BY <1>2, <2>1, <2>2
<1> HIDE DEF task
<1>5. \A k \in Keys : \A p \in PartsOf(k) : ~Has(Held(r, k)', p)
  BY <1>4 DEF Has
<1>6. /\ TypeOK' /\ RowsWhole'
      /\ \A k \in Keys : row[k] = Missing => row'[k] = Missing
      /\ \A k \in Keys : \A p \in PartsOf(k) :
            \/ k \in K /\ p \in P
            \/ row[k] = Missing
            \/ row'[k] # Missing /\ row'[k][p] = row[k][p]
      /\ overtaken' = overtaken \cup Holding(Requests \ {r}, K, P)
      /\ cache' = cache /\ missed \subseteq missed'
      /\ \A e \in Cached(Entries) \cap S : \A k \in e.of : \A p \in P :
            Has(cache[e][k], p) => <<e, p>> \in missed'
  BY <1>2, CommitWrites
<1>7. \A e \in Cached(Entries) : \A k \in e.of \cap K : \A p \in P :
          Has(cache[e][k], p) =>
              <<e, p>> \in missed' \/ (e \in Pending(r)' /\ p \in PartsWritten(r)')
  <2> SUFFICES ASSUME NEW e \in Cached(Entries), NEW k \in e.of \cap K, NEW p \in P,
                      Has(cache[e][k], p)
               PROVE  <<e, p>> \in missed' \/ (e \in Pending(r)' /\ p \in PartsWritten(r)')
    OBVIOUS
  <2>1. e \in S \cup D
    BY DEF Cached
  <2>2. CASE e \in S
    BY <1>6, <2>2
  <2>3. CASE e \in D
    BY <1>4, <2>3
  <2> QED BY <2>1, <2>2, <2>3
<1>8. /\ request'[r].at # "read" /\ request'[r].at # "fill"
      /\ \A q \in Requests \ {r} : request'[q] = request[q]
  BY <1>2, <1>4
<1>9. \A k \in Keys : \A p \in PartsOf(k) :
          Has(Held(r, k)', p) /\ <<r, p>> \notin overtaken =>
              row'[k] # Missing /\ Held(r, k)'[p] = row'[k][p]
  BY <1>5
<1>10. /\ TypeOK' /\ RowsWhole'
       /\ overtaken' = overtaken \cup Holding(Requests \ {r}, K, P)
       /\ cache' = cache /\ missed \subseteq missed'
  BY <1>6
<1>11. \A k \in Keys : row[k] = Missing => row'[k] = Missing
  BY <1>6
<1>12. \A k \in Keys : \A p \in PartsOf(k) :
           \/ k \in K /\ p \in P
           \/ row[k] = Missing
           \/ row'[k] # Missing /\ row'[k][p] = row[k][p]
  BY <1>6
<1> QED BY <1>7, <1>8, <1>9, <1>10, <1>11, <1>12, WriteKeeps

LEMMA ChangePermissionKeeps ==
    ASSUME IInv, NEW r \in Requests, NEW k \in Roles, NEW p \in Menus,
           ChangePermission(r, k, p) \/ SeedPermission(r, k, p)
    PROVE  IInv'
<1>1. /\ {k} \in SUBSET Keys /\ {p} \in SUBSET Parts
      /\ {} \in SUBSET Entries /\ {Matrix(k)} \in SUBSET Entries
  BY EntryTypes DEF Keys, Parts
<1>2. \A e \in Entries : \A j \in e.of \cap {k} : e \in {Matrix(k)}
  BY EntriesOfRow
<1>3. CASE ChangePermission(r, k, p)
  <2>1. /\ At(r, "idle") /\ Commit(r, {k}, {p}, {})
        /\ Becomes(r, [at |-> "drop", entries |-> {Matrix(k)}, parts |-> {p}])
    BY <1>3 DEF ChangePermission
  <2>2. \A e \in Entries : \A j \in e.of \cap {k} : e \in {} \cup {Matrix(k)}
    BY <1>2
  <2> QED BY <1>1, <2>1, <2>2, WriterKeeps
<1>4. CASE SeedPermission(r, k, p)
  <2>1. At(r, "idle") /\ Commit(r, {k}, {p}, {Matrix(k)}) /\ UNCHANGED request
    BY <1>4 DEF SeedPermission
  <2>2. \A e \in Entries : \A j \in e.of \cap {k} : e \in {Matrix(k)} \cup {}
    BY <1>2
  <2> QED BY <1>1, <2>1, <2>2, WriterKeeps
<1> QED BY <1>3, <1>4

LEMMA ChangeMenuKeeps ==
    ASSUME IInv, NEW r \in Requests, NEW p \in Menus, ChangeMenu(r, p)
    PROVE  IInv'
<1> DEFINE D == {Matrix(k) : k \in Roles}
<1>1. Roles \in SUBSET Keys /\ {p} \in SUBSET Parts /\ {} \in SUBSET Entries /\ D \in SUBSET Entries
  BY EntryTypes DEF Keys, Parts
<1>2. /\ At(r, "idle") /\ Commit(r, Roles, {p}, {})
      /\ Becomes(r, [at |-> "drop", entries |-> D, parts |-> {p}])
  BY DEF ChangeMenu
<1>3. \A e \in Entries : \A k \in e.of \cap Roles : e \in {} \cup D
  BY EntriesOfRow
<1> HIDE DEF D
<1> QED BY <1>1, <1>2, <1>3, WriterKeeps

LEMMA UnseedKeeps ==
    ASSUME IInv, NEW r \in Requests, Unseed(r)
    PROVE  IInv'
<1> DEFINE S == {Matrix(k) : k \in Roles}
<1>1. Roles \in SUBSET Keys /\ Menus \in SUBSET Parts /\ {} \in SUBSET Entries /\ S \in SUBSET Entries
  BY EntryTypes DEF Keys, Parts
<1>2. At(r, "idle") /\ Commit(r, Roles, Menus, S) /\ UNCHANGED request
  BY DEF Unseed
<1>3. \A e \in Entries : \A k \in e.of \cap Roles : e \in S \cup {}
  BY EntriesOfRow
<1> HIDE DEF S
<1> QED BY <1>1, <1>2, <1>3, WriterKeeps

LEMMA ChangeUsersKeeps ==
    ASSUME IInv, NEW r \in Requests, NEW k \in Tenants, ChangeUsers(r, k)
    PROVE  IInv'
<1> DEFINE S == {Tenant(k), Settings(k), Page}
<1>1. /\ {k} \in SUBSET Keys /\ {Users} \in SUBSET Parts
      /\ {} \in SUBSET Entries /\ S \in SUBSET Entries
  BY EntryTypes DEF Keys, Parts, TenantParts
<1>2. At(r, "idle") /\ Commit(r, {k}, {Users}, S) /\ UNCHANGED request
  BY DEF ChangeUsers
<1>3. \A e \in Entries : \A j \in e.of \cap {k} : e \in S \cup {}
  BY EntriesOfRow
<1> HIDE DEF S
<1> QED BY <1>1, <1>2, <1>3, WriterKeeps

\* What is cached after an update is the row, part by part, but for what
\* somebody wrote since it was read.
LEMMA UpdateTenantKeeps ==
    ASSUME IInv, NEW r \in Requests, NEW p \in Columns, UpdateTenant(r, p)
    PROVE  IInv'
<1> USE DEF IInv
<1> DEFINE k    == request[r].of
           old  == request[r].value
           new  == Copy(old, p, writes + 1)
           v    == [t \in {k} |-> new]
           task == [at |-> "fill", entry |-> Tenant(k), value |-> v, parts |-> {p}]
<1>1. At(r, "read") /\ Commit(r, {k}, {p}, {Settings(k)})
  BY DEF UpdateTenant
<1>2. Becomes(r, task)
  BY DEF UpdateTenant, Becomes
<1>3. /\ k \in Tenants /\ k \in Keys
      /\ old \in [TenantParts -> 0 .. MaxWrites \cup {Missing}]
      /\ p \in TenantParts /\ p \in Parts /\ old[p] # Missing
      /\ old # Missing
  <2>1. old \in [TenantParts -> 0 .. MaxWrites \cup {Missing}] /\ old \in Values
    BY <1>1 DEF ReadsWhole, Values
  <2> QED BY <1>1, <2>1, PartsOfRows, CachesAssumption DEF ReadsWhole, Keys, Parts
<1>4. writes + 1 \in 0 .. MaxWrites
  BY <1>1, CachesAssumption DEF Commit, TypeOK
<1>5. /\ new \in [TenantParts -> 0 .. MaxWrites \cup {Missing}]
      /\ new[p] = writes + 1 /\ \A x \in TenantParts \ {p} : new[x] = old[x]
  BY <1>3, <1>4 DEF Copy, Written
<1>6. new \in Values /\ new # Missing
  <2>1. new \in Values
    BY <1>5 DEF Values
  <2> QED BY <2>1, CachesAssumption
<1>7. Held(r, k) = old
  BY <1>1 DEF Held, At
<1> HIDE DEF new, old, k
<1>8. /\ {k} \in SUBSET Keys /\ {p} \in SUBSET Parts /\ {Settings(k)} \in SUBSET Entries
      /\ Tenant(k) \in Entries /\ Tenant(k).of = {k} /\ Tenant(k) # Page
  BY <1>3, EntryTypes
<1>9. /\ task \in Tasks /\ task.at = "fill" /\ task.entry = Tenant(k)
      /\ task.value = v /\ task.parts = {p}
  <2>1. v \in [{k} -> Values]
    BY <1>6
  <2>2. v \in Copies(Tenant(k))
    BY <1>8, <2>1, CopyTypes
  <2> HIDE DEF v
  <2> QED BY <1>8, <2>2, TaskMembers
<1>10. v[k] = new
  OBVIOUS
<1> HIDE DEF task, v
<1>11. /\ request' \in [Requests -> Tasks] /\ request'[r] = task
       /\ \A q \in Requests \ {r} : request'[q] = request[q]
  BY <1>2, <1>9 DEF Becomes, TypeOK
<1> DEFINE K == {k}
           P == {p}
           S == {Settings(k)}
<1>12a. /\ K \in SUBSET Keys /\ P \in SUBSET Parts /\ S \in SUBSET Entries
      /\ Commit(r, K, P, S)
  BY <1>1, <1>8
<1> HIDE DEF K, P, S
<1>12. /\ TypeOK' /\ RowsWhole'
       /\ \A j \in Keys : row[j] = Missing => row'[j] = Missing
       /\ \A j \in K : row[j] # Missing => row'[j] = Written(row[j], P, writes + 1)
       /\ \A j \in Keys : row[j] = Missing <=> row'[j] = Missing
       /\ \A j \in Keys : \A x \in PartsOf(j) :
             \/ j \in K /\ x \in P
             \/ row[j] = Missing
             \/ row'[j] # Missing /\ row'[j][x] = row[j][x]
       /\ overtaken' = overtaken \cup Holding(Requests \ {r}, K, P)
       /\ cache' = cache /\ missed \subseteq missed'
       /\ \A e \in Cached(Entries) \cap S : \A j \in e.of : \A x \in P :
             Has(cache[e][j], x) => <<e, x>> \in missed'
  BY <1>12a, <1>11, CommitWrites
<1>13. ASSUME NEW j \in Keys, NEW x \in PartsOf(j), Has(Held(r, j)', x), <<r, x>> \notin overtaken
       PROVE  row'[j] # Missing /\ Held(r, j)'[x] = row'[j][x]
  <2>1. j = k /\ Held(r, j)' = new
    BY <1>8, <1>9, <1>10, <1>11, <1>13 DEF Held, At, Has
  <2>2. PartsOf(k) = TenantParts /\ x \in TenantParts
    BY <1>3, <2>1, PartsOfRows
  <2>3. Has(old, x) => row[k] # Missing /\ old[x] = row[k][x]
    BY <1>3, <1>7, <1>13, <2>1 DEF HoldsCommitted
  <2>4. CASE x = p
    <3>1. Has(old, p)
      BY <1>3 DEF Has
    <3>2. row[k] # Missing /\ row[k] \in [TenantParts -> 0 .. MaxWrites]
      BY <1>3, <2>2, <2>3, <2>4, <3>1 DEF RowsWhole
    <3> QED BY <1>3, <1>5, <1>12, <2>1, <2>4, <3>2 DEF Written, K, P
  <2>5. CASE x # p
    <3>1. new[x] = old[x] /\ Has(old, x)
      BY <1>3, <1>5, <1>13, <2>1, <2>2, <2>5 DEF Has
    <3> QED BY <1>3, <1>12, <2>1, <2>2, <2>3, <2>5, <3>1 DEF P
  <2> QED BY <2>4, <2>5
<1>14. request'[r].at = "fill" => \A j \in request'[r].entry.of : request'[r].value[j] # Missing
  BY <1>6, <1>8, <1>9, <1>10, <1>11
<1>15. Pending(r)' = {Tenant(k), Page} /\ PartsWritten(r)' = {p}
  BY <1>9, <1>11 DEF Pending, PartsWritten, At
<1>16. ASSUME NEW e \in Cached(Entries), NEW j \in e.of \cap K, NEW x \in P, Has(cache[e][j], x)
       PROVE  <<e, x>> \in missed' \/ (e \in Pending(r)' /\ x \in PartsWritten(r)')
  <2>1. e \in Entries
    BY DEF Cached
  <2>2. e = Tenant(k) \/ e = Settings(k) \/ e = Page
    BY <1>3, <2>1, EntriesOfRow DEF K
  <2>3. PartsWritten(r)' = P
    BY <1>15 DEF P
  <2> QED BY <1>12, <1>15, <1>16, <2>2, <2>3 DEF S
<1>17. At(r, "idle") \/ At(r, "read")
  BY <1>1
<1>18. request'[r].at # "read"
  BY <1>9, <1>11
<1>19. \A j \in Keys : \A x \in PartsOf(j) :
           Has(Held(r, j)', x) /\ <<r, x>> \notin overtaken =>
               row'[j] # Missing /\ Held(r, j)'[x] = row'[j][x]
  BY <1>13
<1>20. \A e \in Cached(Entries) : \A j \in e.of \cap K : \A x \in P :
           Has(cache[e][j], x) =>
               <<e, x>> \in missed' \/ (e \in Pending(r)' /\ x \in PartsWritten(r)')
  BY <1>16
<1> HIDE DEF IInv
<1> QED BY <1>12a, <1>11, <1>12, <1>14, <1>17, <1>18, <1>19, <1>20, WriteKeeps

LEMMA DeleteTenantKeeps ==
    ASSUME IInv, NEW r \in Requests, NEW k \in Tenants, DeleteTenant(r, k)
    PROVE  IInv'
<1> USE DEF IInv
<1> DEFINE D    == {Tenant(k), Settings(k), Page}
           K    == {k}
           task == [at |-> "drop", entries |-> D, parts |-> TenantParts]
<1>1. /\ At(r, "idle") /\ Becomes(r, task)
      /\ row' = [row EXCEPT ![k] = Missing]
      /\ overtaken' = overtaken \cup Holding(Requests, K, TenantParts)
      /\ writes < MaxWrites /\ writes' = writes + 1
      /\ UNCHANGED <<cache, missed>>
  BY DEF DeleteTenant
<1>2. /\ K \in SUBSET Keys /\ TenantParts \in SUBSET Parts /\ D \in SUBSET Entries
      /\ k \in Keys /\ PartsOf(k) = TenantParts
  BY EntryTypes, PartsOfRows DEF Keys, Parts
<1>3. \A e \in Entries : \A j \in e.of \cap K : e \in D
  BY EntriesOfRow
<1> HIDE DEF D, K
<1>4. task \in Tasks /\ task.at = "drop" /\ task.entries = D /\ task.parts = TenantParts
  BY <1>2, TaskMembers
<1> HIDE DEF task
<1>5. /\ request' \in [Requests -> Tasks] /\ request'[r] = task
      /\ \A q \in Requests \ {r} : request'[q] = request[q]
  BY <1>1, <1>4 DEF Becomes, TypeOK
<1>6. row'[k] = Missing /\ \A j \in Keys \ {k} : row'[j] = row[j]
  BY <1>1, <1>2 DEF TypeOK, Keys
<1>7. RowsWhole'
  BY <1>6 DEF RowsWhole
<1>8. Holding(Requests, K, TenantParts) = Holding(Requests \ {r}, K, TenantParts)
  <2>1. \A p \in TenantParts : ~Has(Held(r, k), p)
    BY <1>1, <1>2, HoldsNothing DEF Has
  <2> QED BY <2>1 DEF Holding, K
<1>9. TypeOK'
  <2>1. Holding(Requests, K, TenantParts) \subseteq Requests \X Parts
    BY <1>2 DEF Holding
  <2>2. writes' \in 0 .. MaxWrites
    BY <1>1, CachesAssumption DEF TypeOK
  <2>3. row' \in [Roles \cup Tenants -> Values \cup {Missing}]
    BY <1>1 DEF TypeOK
  <2> QED BY <1>1, <1>5, <2>1, <2>2, <2>3 DEF TypeOK
<1>10. \A j \in Keys : Held(r, j)' = Missing
  BY <1>4, <1>5 DEF Held, At
<1>11. \A e \in D : e \in Pending(r)' /\ PartsWritten(r)' = TenantParts
  BY <1>4, <1>5 DEF Pending, PartsWritten, At
<1>12. \A j \in Keys : \A p \in PartsOf(j) : ~Has(Held(r, j)', p)
  BY <1>10 DEF Has
<1>13. \A e \in Cached(Entries) : \A j \in e.of \cap K : \A p \in TenantParts :
           e \in Pending(r)' /\ p \in PartsWritten(r)'
  <2>1. \A e \in Cached(Entries) : e \in Entries
    BY DEF Cached
  <2> QED BY <1>3, <1>11, <2>1
<1>14. \A j \in Keys : row[j] = Missing => row'[j] = Missing
  BY <1>6
<1>15. \A j \in Keys : \A p \in PartsOf(j) :
           \/ j \in K /\ p \in TenantParts
           \/ row[j] = Missing
           \/ row'[j] # Missing /\ row'[j][p] = row[j][p]
  BY <1>2, <1>6 DEF K
<1>16. request'[r].at = "drop" /\ cache' = cache /\ missed \subseteq missed'
  BY <1>1, <1>4, <1>5
<1>17. /\ overtaken' = overtaken \cup Holding(Requests \ {r}, K, TenantParts)
       /\ request'[r].at # "read" /\ request'[r].at # "fill"
  BY <1>1, <1>8, <1>16
<1> HIDE DEF IInv
<1> QED BY <1>1, <1>2, <1>5, <1>7, <1>9, <1>12, <1>13, <1>14, <1>15, <1>16, <1>17, WriteKeeps

-----------------------------------------------------------------------------
LEMMA NextKeeps == IInv /\ [Next]_vars => IInv'
<1> SUFFICES ASSUME IInv, [Next]_vars PROVE IInv'
    OBVIOUS
<1>1. CASE UNCHANGED vars
  <2>1. TypeOK' /\ RowsWhole' /\ ReadsWhole' /\ GoneForGood'
    BY <1>1 DEF vars, IInv, TypeOK, RowsWhole, ReadsWhole, GoneForGood, Cached, At
  <2>2. HoldsCommitted'
    BY <1>1 DEF vars, IInv, HoldsCommitted, Has, Held, At
  <2>3. ServedIsCommitted'
    <3>1. Cached(Entries)' = Cached(Entries)
      BY <1>1 DEF vars, Cached
    <3>2. \A e \in Entries : \A k \in e.of : \A p \in PartsOf(k) : Agrees(e, k, p)' = Agrees(e, k, p)
      BY <1>1 DEF vars, Agrees, Has
    <3>3. \A r \in Requests : Pending(r)' = Pending(r) /\ PartsWritten(r)' = PartsWritten(r)
      BY <1>1, SameTask DEF vars
    <3>4. Cached(Entries) \subseteq Entries
      BY DEF Cached
    <3> QED BY <1>1, <3>1, <3>2, <3>3, <3>4 DEF vars, IInv, ServedIsCommitted
  <2> QED BY <2>1, <2>2, <2>3 DEF IInv
<1>2. ASSUME NEW r \in Requests, Start(r) PROVE IInv'
  BY <1>2, LoadKeeps, ChangePermissionKeeps, ChangeMenuKeeps, UnseedKeeps, FindTenantKeeps,
     DeleteTenantKeeps, UpdateTenantSettingsKeeps, ChangeUsersKeeps DEF Start
<1>3. ASSUME NEW r \in Requests, Step(r) PROVE IInv'
  BY <1>3, DropKeeps, FillKeeps, FailKeeps, UpdateTenantKeeps DEF Step
<1> QED BY <1>1, <1>2, <1>3, ExpireKeeps DEF Next

LEMMA IInvHolds == Spec => []IInv
BY InitIInv, NextKeeps, PTL DEF Spec

\* The variables of the caches keep their types; "not found" is never cached.
THEOREM TypeCorrect == Spec => []TypeOK
BY IInvHolds, PTL DEF IInv

\* For any number of roles, tenants, requests and writes: a part of a copy that
\* differs from its row is about to be invalidated, was read by a request that
\* the write of this part overtook, or the write did not reach the copy.
THEOREM ServedIsCommittedHolds == Spec => []ServedIsCommitted
BY IInvHolds, PTL DEF IInv
=============================================================================
