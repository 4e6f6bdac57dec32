------------------------------- MODULE Caches -------------------------------
(***************************************************************************)
(* The caches in Redis and the rows they copy: the permission matrix of a  *)
(* role (src/src/services/roles.service.js), a tenant with its users, a    *)
(* tenant with its settings, and the first page of the list of tenants     *)
(* (tenant.service.js), over the helpers of redis.service.js.              *)
(*                                                                         *)
(* Readers fill a cache after a miss.  Some writers drop or overwrite the  *)
(* copy after they committed, and some do not know of it.  Nothing orders  *)
(* a fill and a write that overlap, and a helper that meets an error       *)
(* answers as if it had done its work.                                     *)
(*                                                                         *)
(* A matrix is a number per menu, and a tenant a number per column and one *)
(* for its users: the number of the write that last changed it.            *)
(***************************************************************************)
EXTENDS Naturals, FiniteSets

CONSTANTS Roles, Tenants, Requests,
          Menus,      \* of a permission matrix
          Columns,    \* of a tenant
          Users,      \* the rows of users that belong to a tenant, or their number
          Missing,    \* no copy in the cache; no such row; not part of the copy
          MaxWrites   \* bound: writes, a deletion of a tenant among them

TenantParts == Columns \cup {Users}
Parts       == Menus \cup TenantParts
PartsOf(k)  == IF k \in Roles THEN Menus ELSE TenantParts
Values      == [Menus -> 0 .. MaxWrites] \cup [TenantParts -> 0 .. MaxWrites \cup {Missing}]

\* A copy is of a set of rows: of one, or of the tenants on the first page.
Matrix(k)   == [of |-> {k}, as |-> "matrix"]
Tenant(k)   == [of |-> {k}, as |-> "tenant"]
Settings(k) == [of |-> {k}, as |-> "settings"]
Page        == [of |-> Tenants, as |-> "page"]
Entries     == {Matrix(k) : k \in Roles} \cup {Tenant(k) : k \in Tenants}
                 \cup {Settings(k) : k \in Tenants} \cup {Page}

Copies(e) == IF e = Page THEN [Tenants -> Values \cup {Missing}] ELSE [e.of -> Values]

ASSUME CachesAssumption ==
    /\ MaxWrites \in Nat
    /\ Roles \cap Tenants = {}
    /\ Users \notin Columns
    /\ Missing \notin 0 .. MaxWrites
    /\ Missing \notin Values \cup (UNION {Copies(e) : e \in Entries})

VARIABLES
    row,      \* what the database has committed
    cache,    \* Redis
    request,  \* what each request does next
    writes,   \* how many writes were committed
    \* history
    overtaken,  \* <<request, part>>: written since the request read the row
    missed      \* <<copy, part>>: left by such a request, or written since and
                \*   not dropped

vars == <<row, cache, request, writes, overtaken, missed>>

Cached(S) == {e \in S : cache[e] # Missing}

\* "read": a tenant about to be changed.  "fill": about to be cached.  "drop":
\* copies that are still to be deleted.  parts: what a writer has changed, and
\* nothing for a reader.
Idle  == [at |-> "idle"]
Tasks == {Idle}
    \cup [at : {"read"}, of : Tenants, value : Values]
    \cup (UNION {[at : {"fill"}, entry : {e}, value : Copies(e), parts : SUBSET Parts] :
                   e \in Entries})
    \cup [at : {"drop"}, entries : SUBSET Entries, parts : SUBSET Parts]

At(r, step)      == request[r].at = step
Becomes(r, task) == request' = [request EXCEPT ![r] = task]

\* What request r holds of row k.
Held(r, k) == CASE At(r, "read") /\ request[r].of = k -> request[r].value
                [] At(r, "fill") /\ k \in request[r].entry.of -> request[r].value[k]
                [] OTHER -> Missing

\* The part p is in the copy v of a row.
Has(v, p) == v # Missing /\ p \in DOMAIN v /\ v[p] # Missing

\* The copies that request r has still to overwrite or to drop.
Pending(r) == CASE At(r, "drop") -> request[r].entries
                [] At(r, "fill") /\ request[r].parts # {} -> {request[r].entry, Page}
                [] OTHER -> {}

PartsWritten(r) == IF Pending(r) = {} THEN {} ELSE request[r].parts

Init == /\ row = [k \in Roles \cup Tenants |-> [p \in PartsOf(k) |-> 0]]
        /\ cache = [e \in Entries |-> Missing]
        /\ request = [r \in Requests |-> Idle]
        /\ writes = 0
        /\ overtaken = {} /\ missed = {}

-----------------------------------------------------------------------------
(* redis.service.js: get, set, del and delPattern                          *)

\* Mutant: the key is set without a time to live.
LapsesNever(e) == FALSE

\* setex
Lapses(e) == cache[e] # Missing

Expire(e) ==
    /\ Lapses(e)
    /\ cache' = [cache EXCEPT ![e] = Missing]
    /\ missed' = missed \ ({e} \X Parts)
    /\ UNCHANGED <<row, request, writes, overtaken>>

\* The parts in P that copies in S show.
Showing(S, P) ==
    {x \in Cached(S) \X P : \E k \in x[1].of : Has(cache[x[1]][k], x[2])}

\* What did not reach the copies leaves them there.
Miss(S, P) == /\ missed' = missed \cup Showing(S, P)
              /\ UNCHANGED cache

\* del, and delPattern batch after batch of its scan; each may fail.
Drop(r) ==
    /\ At(r, "drop")
    /\ \E S \in SUBSET request[r].entries :
           /\ S # {}
           /\ Becomes(r, IF S = request[r].entries THEN Idle
                         ELSE [request[r] EXCEPT !.entries = @ \ S])
           /\ \/ /\ cache' = [e \in Entries |-> IF e \in S THEN Missing ELSE cache[e]]
                 /\ missed' = missed \ (S \X Parts)
              \/ Miss(S, request[r].parts)
    /\ UNCHANGED <<row, writes, overtaken>>

\* set; what was there before stays when it fails.  updateTenant then drops the
\* pages of the list.
Fill(r) ==
    /\ At(r, "fill")
    /\ Becomes(r, IF request[r].parts = {} THEN Idle
                  ELSE [at |-> "drop", entries |-> {Page}, parts |-> request[r].parts])
    /\ LET e == request[r].entry
       IN \/ /\ cache' = [cache EXCEPT ![e] = request[r].value]
             /\ missed' = (missed \ ({e} \X Parts))
                              \cup ({e} \X {p \in Parts : <<r, p>> \in overtaken})
          \/ Miss({e}, request[r].parts)
    /\ overtaken' = overtaken \ ({r} \X Parts)
    /\ UNCHANGED <<row, writes>>

-----------------------------------------------------------------------------
(* getRolePermissionsMatrix, fetchSpecificTenant, getTenantSettings and    *)
(* fetchTenants: a hit changes nothing; after a miss, or when Redis does   *)
(* not answer, the rows are read.                                          *)

\* findByPk without include: a tenant without its users.
Instance(v) == [v EXCEPT ![Users] = Missing]

\* What a reader finds for the copy e.  Only the page, which lists what is
\* there, may lack a row.
Shown(e) == [k \in e.of |-> IF e.as = "settings" /\ row[k] # Missing
                            THEN Instance(row[k]) ELSE row[k]]

\* Mutant: the answer "not found" is cached too.
IsFoundAlways(k) == TRUE

IsFound(k) == row[k] # Missing

\* The list and its counts are two statements in the code; a write between them
\* overtakes the request like one after them.
Load(r, e) ==
    /\ At(r, "idle")
    /\ e = Page \/ \A k \in e.of : IsFound(k)
    /\ Becomes(r, [at |-> "fill", entry |-> e, value |-> Shown(e), parts |-> {}])
    /\ UNCHANGED <<row, cache, writes, overtaken, missed>>

-----------------------------------------------------------------------------
(* Writers                                                                 *)

\* The write number w changes the parts in P.
Written(v, P, w) == [p \in DOMAIN v |-> IF p \in P THEN w ELSE v[p]]

\* The parts in P that requests in R hold of rows in K.
Holding(R, K, P) == {x \in R \X P : \E k \in K : Has(Held(x[1], k), x[2])}

\* Request r commits the write of the parts P of the rows in K; the copies in S
\* are left as they are.
Commit(r, K, P, S) ==
    /\ writes < MaxWrites
    /\ writes' = writes + 1
    /\ row' = [k \in Roles \cup Tenants |->
                  IF k \in K /\ row[k] # Missing THEN Written(row[k], P, writes + 1)
                  ELSE row[k]]
    /\ overtaken' = overtaken \cup Holding(Requests \ {r}, K, P)
    /\ Miss(S, P)

\* assignMenuToRole and removeMenuFromRole: findOrCreate or update, or destroy.
ChangePermission(r, k, p) ==
    /\ At(r, "idle")
    /\ Commit(r, {k}, {p}, {})
    /\ Becomes(r, [at |-> "drop", entries |-> {Matrix(k)}, parts |-> {p}])

\* updateMenu and deleteMenu: the name of the menu is in every matrix.
ChangeMenu(r, p) ==
    /\ At(r, "idle")
    /\ Commit(r, Roles, {p}, {})
    /\ Becomes(r, [at |-> "drop", entries |-> {Matrix(k) : k \in Roles}, parts |-> {p}])

\* seedAll creates the permissions that a role lacks, each with an INSERT of its
\* own, and drops no matrix ...
SeedPermission(r, k, p) ==
    /\ At(r, "idle")
    /\ Commit(r, {k}, {p}, {Matrix(k)})
    /\ UNCHANGED request

\* ... nor does unseedAll, which deletes all of them.
Unseed(r) ==
    /\ At(r, "idle")
    /\ Commit(r, Roles, Menus, {Matrix(k) : k \in Roles})
    /\ UNCHANGED request

\* userCreate and deleteUser: a user of the tenant comes or goes, and no copy of
\* the tenant is dropped.
ChangeUsers(r, k) ==
    /\ At(r, "idle")
    /\ IsFound(k)
    /\ Commit(r, {k}, {Users}, {Tenant(k), Settings(k), Page})
    /\ UNCHANGED request

\* updateTenant: the row is read with the checks of code and name ...
FindTenant(r, k) ==
    /\ At(r, "idle")
    /\ IsFound(k)
    /\ Becomes(r, [at |-> "read", of |-> k, value |-> Instance(row[k])])
    /\ UNCHANGED <<row, cache, writes, overtaken, missed>>

\* Mutant: the row as it was read is cached.
CopyRead(v, p, w) == v

\* ... the instance, which has no users, takes the new values ...
Copy(v, p, w) == Written(v, {p}, w)

\* ... and is cached after the COMMIT.  UPDATE writes the columns that changed,
\* also of a row that was deleted since.  The copy under the settings key, of
\* the same row, is not touched.
UpdateTenant(r, p) ==
    /\ At(r, "read")
    /\ LET k == request[r].of
       IN /\ Becomes(r, [at |-> "fill", entry |-> Tenant(k), parts |-> {p},
                         value |-> [t \in {k} |-> Copy(request[r].value, p, writes + 1)]])
          /\ Commit(r, {k}, {p}, {Settings(k)})

\* deleteTenant of a tenant without users.
DeleteTenant(r, k) ==
    /\ At(r, "idle")
    /\ IsFound(k)
    /\ writes < MaxWrites
    /\ writes' = writes + 1
    /\ row' = [row EXCEPT ![k] = Missing]
    /\ overtaken' = overtaken \cup Holding(Requests, {k}, TenantParts)
    /\ Becomes(r, [at |-> "drop", entries |-> {Tenant(k), Settings(k), Page},
                   parts |-> TenantParts])
    /\ UNCHANGED <<cache, missed>>

\* updateTenantSettings writes rows of another table, which no copy shows.
UpdateTenantSettings(r, k) ==
    /\ At(r, "idle")
    /\ IsFound(k)
    /\ Becomes(r, [at |-> "drop", entries |-> {Settings(k)}, parts |-> {}])
    /\ UNCHANGED <<row, cache, writes, overtaken, missed>>

\* A statement is refused, or the process ends.
Fail(r) ==
    /\ ~At(r, "idle")
    /\ Becomes(r, Idle)
    /\ Miss(Pending(r), PartsWritten(r))
    /\ overtaken' = overtaken \ ({r} \X Parts)
    /\ UNCHANGED <<row, writes>>

-----------------------------------------------------------------------------
\* What begins at an idle request.
Start(r) == \/ \E e \in Entries : Load(r, e)
            \/ \E k \in Roles, p \in Menus : ChangePermission(r, k, p) \/ SeedPermission(r, k, p)
            \/ \E p \in Menus : ChangeMenu(r, p)
            \/ Unseed(r)
            \/ \E k \in Tenants : \/ FindTenant(r, k) \/ DeleteTenant(r, k)
                                  \/ UpdateTenantSettings(r, k) \/ ChangeUsers(r, k)

Step(r) == Fail(r) \/ Drop(r) \/ Fill(r) \/ \E p \in Columns : UpdateTenant(r, p)

Next == \/ \E r \in Requests : Start(r) \/ Step(r)
        \/ \E e \in Entries : Expire(e)

Spec == Init /\ [][Next]_vars

\* Redis removes an entry whose time to live has run out.  No request has to go
\* on: what it holds is no copy yet.
FairSpec == Spec /\ \A e \in Entries : WF_vars(Expire(e))

-----------------------------------------------------------------------------
(* Properties                                                              *)

\* The values the variables take: in particular "not found" is never cached.
TypeOK ==
    /\ row \in [Roles \cup Tenants -> Values \cup {Missing}]
    /\ DOMAIN cache = Entries
    /\ \A e \in Entries : cache[e] \in Copies(e) \cup {Missing}
    /\ request \in [Requests -> Tasks]
    /\ writes \in 0 .. MaxWrites
    /\ overtaken \subseteq Requests \X Parts
    /\ missed \subseteq Entries \X Parts

\* What the copy e shows of part p of row k is what the database has.
Agrees(e, k, p) ==
    IF cache[e][k] = Missing THEN row[k] = Missing
    ELSE Has(cache[e][k], p) => row[k] # Missing /\ cache[e][k][p] = row[k][p]

\* What is served from the cache is what the database has.  Each part of a copy
\* that is stale has a reason of its own: a write of this part is about to
\* invalidate the copy, a request that overlapped the write left it, or nothing
\* invalidates it: the invalidation failed or its process died, or the writer
\* drops no copy, as seedAll and unseedAll, userCreate and deleteUser (the tenant
\* is cached with its users, tenant.service.js:227-237) and, for the copy under
\* the settings key, updateTenant.
ServedIsCommitted ==
    \A e \in Cached(Entries) : \A k \in e.of : \A p \in PartsOf(k) :
        \/ Agrees(e, k, p)
        \/ <<e, p>> \in missed
        \/ \E r \in Requests : e \in Pending(r) /\ p \in PartsWritten(r)

\* Once no row changes any more the caches agree with the database for
\* good, whatever stale fills were under way: the time to live repairs what
\* invalidation could not.
CachesSettle ==
    <>[][UNCHANGED row]_vars => <>[](\A e \in Cached(Entries) : cache[e] = Shown(e))
=============================================================================
