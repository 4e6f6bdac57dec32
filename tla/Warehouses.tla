----------------------------- MODULE Warehouses -----------------------------
(***************************************************************************)
(* Warehouses, their storage locations, and the stock put there:           *)
(* warehouse.service.js and createStock of stock.service.js, for one       *)
(* tenant.                                                                 *)
(*                                                                         *)
(* Every operation is one transaction under READ COMMITTED that looks      *)
(* first and writes later.  No unique index covers a code.  A location is  *)
(* destroyed (StorageLocation is not paranoid) and the foreign key of the  *)
(* stocks then sets their location to NULL.  deleteWarehouse changes       *)
(* nothing here: its softDelete() assigns an attribute that the model does *)
(* not have, so that the row stays as it is.                               *)
(***************************************************************************)
EXTENDS Naturals, FiniteSets

CONSTANTS Warehouses, Locations,  \* rows the two tables may get
          Stocks,                 \* rows the stocks table may get
          Codes, Requests,
          Tenant,                 \* where warehouses are
          Unused, Gone,           \* rows not there yet, or destroyed
          Nowhere                 \* no location; no row yet

Places == Warehouses \cup Locations

VARIABLES
    place,     \* warehouses and storage_locations, as committed
    stock,     \* stocks, as committed
    request,   \* what each request does next
    overtaken, \* history: requests whose code somebody else took after their check
    doubled    \* history: places that got their code from such a request

vars == <<place, stock, request, overtaken, doubled>>

\* A code is checked among the warehouses of the tenant, or the locations of
\* one warehouse.
PlaceRows == [in : Warehouses \cup {Tenant}, code : Codes]
StockRows == [warehouse : Warehouses, location : Locations \cup {Nowhere}]

\* No two of the names mean the same.
ASSUME WarehousesAssumption ==
    /\ Warehouses \cap Locations = {}
    /\ Tenant \notin Warehouses /\ Nowhere \notin Warehouses \cup Locations
    /\ Unused # Gone /\ {Unused, Gone} \cap PlaceRows = {}
    /\ Nowhere \notin StockRows

\* seen: the stocks that a deletion could count.
Idle  == [at |-> "idle"]
Tasks == {Idle}
    \cup [at : {"check", "write", "written"}, in : Warehouses \cup {Tenant}, code : Codes,
          into : Places \cup {Nowhere}, fresh : BOOLEAN, changes : BOOLEAN]
    \cup [at : {"count", "destroy", "destroyed"}, row : Locations, seen : SUBSET Stocks]
    \cup [at : {"insert"}, row : StockRows]
    \cup [at : {"inserted"}, row : StockRows, into : Stocks]

At(r, steps)     == request[r].at \in steps
Becomes(r, task) == request' = [request EXCEPT ![r] = task]

Exists(i)    == place[i] \notin {Unused, Gone}
InUse(s)     == stock[s] # Nowhere
KeptAt(l)    == {s \in Stocks : InUse(s) /\ stock[s].location = l}

\* Row locks, until the transaction ends.
Writes(q, i)   == At(q, {"written"}) /\ request[q].into = i /\ request[q].changes
Destroys(q, i) == At(q, {"destroyed"}) /\ request[q].row = i
RefersTo(q, i) == At(q, {"inserted"}) /\ request[q].row.location = i

Init == /\ place = [i \in Places |-> Unused]
        /\ stock = [s \in Stocks |-> Nowhere]
        /\ request = [r \in Requests |-> Idle]
        /\ overtaken = {} /\ doubled = {}

-----------------------------------------------------------------------------
(* createWarehouse, updateWarehouse, createLocation, updateLocation        *)

\* A location needs its warehouse; one that is found stays.
Create(r, w, c) ==
    /\ At(r, {"idle"})
    /\ w # Tenant => Exists(w)
    /\ Becomes(r, [at |-> "check", in |-> w, code |-> c, into |-> Nowhere,
                   fresh |-> TRUE, changes |-> TRUE])
    /\ UNCHANGED <<place, stock, overtaken, doubled>>

\* An update writes the columns that differ from the row as it was found.
Update(r, i, c) ==
    /\ At(r, {"idle"})
    /\ Exists(i)
    /\ Becomes(r, [at |-> "check", in |-> place[i].in, code |-> c, into |-> i,
                   fresh |-> FALSE, changes |-> c # place[i].code])
    /\ UNCHANGED <<place, stock, overtaken, doubled>>

\* Mutant: any row with the code counts, whatever warehouse it is in, but only
\* a creation looks.
TakenForNew(task) == /\ task.fresh
                     /\ \E i \in Places : Exists(i) /\ place[i].code = task.code

Taken(task) == \E i \in Places \ {task.into} :
                   Exists(i) /\ place[i] = [in |-> task.in, code |-> task.code]

\* 409 when somebody else has the code.
Check(r) ==
    /\ At(r, {"check"})
    /\ Becomes(r, IF Taken(request[r]) THEN Idle ELSE [request[r] EXCEPT !.at = "write"])
    /\ UNCHANGED <<place, stock, overtaken, doubled>>

\* Mutant: an INSERT into either table.
TargetInEither(task) ==
    IF ~task.fresh THEN {task.into}
    ELSE {i \in Places : place[i] = Unused /\ \A q \in Requests : ~Writes(q, i)}

\* The row the statement writes.
Target(task) ==
    IF ~task.fresh THEN {task.into}
    ELSE {i \in IF task.in = Tenant THEN Warehouses ELSE Locations :
              place[i] = Unused /\ \A q \in Requests : ~Writes(q, i)}

\* INSERT or UPDATE; an UPDATE waits for whoever writes or destroys the row.
Write(r) ==
    /\ At(r, {"write"})
    /\ \A q \in Requests : request[r].changes =>
           ~Writes(q, request[r].into) /\ ~Destroys(q, request[r].into)
    /\ \E i \in Target(request[r]) :
           Becomes(r, [request[r] EXCEPT !.at = "written", !.into = i])
    /\ UNCHANGED <<place, stock, overtaken, doubled>>

\* An UPDATE of a row that was destroyed meanwhile writes none, without an error.
Commit(r) ==
    /\ At(r, {"written"})
    /\ Becomes(r, Idle)
    /\ LET task   == request[r]
           takes  == task.changes /\ place[task.into] # Gone
           rivals == {q \in Requests \ {r} :
                         /\ At(q, {"write", "written"})
                         /\ request[q].in = task.in /\ request[q].code = task.code}
       IN IF takes
          THEN /\ place' = [place EXCEPT ![task.into] = [in |-> task.in, code |-> task.code]]
               /\ overtaken' = (overtaken \cup rivals) \ {r}
               /\ doubled' = IF r \in overtaken THEN doubled \cup {task.into}
                                                ELSE doubled \ {task.into}
          ELSE overtaken' = overtaken \ {r} /\ UNCHANGED <<place, doubled>>
    /\ UNCHANGED stock

-----------------------------------------------------------------------------
(* deleteLocation                                                          *)

DeleteLocation(r, l) ==
    /\ At(r, {"idle"})
    /\ Exists(l)
    /\ Becomes(r, [at |-> "count", row |-> l, seen |-> {}])
    /\ UNCHANGED <<place, stock, overtaken, doubled>>

\* Mutant: the stocks are not counted.
CountsNothing(r, l) == Becomes(r, [at |-> "destroy", row |-> l, seen |-> {s \in Stocks : InUse(s)}])

\* 400 when something is kept there.
CountStocks(r, l) ==
    Becomes(r, IF KeptAt(l) # {} THEN Idle
               ELSE [at |-> "destroy", row |-> l, seen |-> {s \in Stocks : InUse(s)}])

Count(r) == /\ At(r, {"count"})
            /\ CountStocks(r, request[r].row)
            /\ UNCHANGED <<place, stock, overtaken, doubled>>

\* The DELETE waits for transactions that write or destroy the row, or that
\* inserted a reference to it.
Free(r, l) == \A q \in Requests \ {r} : ~Writes(q, l) /\ ~Destroys(q, l) /\ ~RefersTo(q, l)

Destroy(r) ==
    /\ At(r, {"destroy"})
    /\ Free(r, request[r].row)
    /\ Becomes(r, [request[r] EXCEPT !.at = "destroyed"])
    /\ UNCHANGED <<place, stock, overtaken, doubled>>

\* ON DELETE SET NULL.
CommitDestroy(r) ==
    /\ At(r, {"destroyed"})
    /\ LET l == request[r].row
       IN /\ place' = [place EXCEPT ![l] = Gone]
          /\ stock' = [s \in Stocks |-> IF s \in KeptAt(l)
                                        THEN [stock[s] EXCEPT !.location = Nowhere]
                                        ELSE stock[s]]
          /\ doubled' = doubled \ {l}
    /\ Becomes(r, Idle)
    /\ UNCHANGED overtaken

-----------------------------------------------------------------------------
(* createStock                                                             *)

\* Mutant: the location is looked up by its id alone.
VerifyAnywhere(row) == /\ Exists(row.warehouse)
                       /\ row.location # Nowhere => Exists(row.location)

\* The location is looked up in the warehouse.
Verify(row) ==
    /\ Exists(row.warehouse)
    /\ row.location # Nowhere => /\ Exists(row.location)
                                 /\ place[row.location].in = row.warehouse

CreateStock(r, row) ==
    /\ At(r, {"idle"})
    /\ Verify(row)
    /\ Becomes(r, [at |-> "insert", row |-> row])
    /\ UNCHANGED <<place, stock, overtaken, doubled>>

\* The INSERT waits for whoever destroys the location; the foreign key refuses
\* one that is gone.
Insert(r) ==
    /\ At(r, {"insert"})
    /\ LET l == request[r].row.location
       IN /\ \A q \in Requests : ~Destroys(q, l)
          /\ \/ /\ l # Nowhere /\ ~Exists(l)
                /\ Becomes(r, Idle)
             \/ /\ l # Nowhere => Exists(l)
                /\ \E s \in Stocks :
                      /\ ~InUse(s)
                      /\ \A q \in Requests : At(q, {"inserted"}) => request[q].into # s
                      /\ Becomes(r, [at |-> "inserted", row |-> request[r].row, into |-> s])
    /\ UNCHANGED <<place, stock, overtaken, doubled>>

CommitInsert(r) ==
    /\ At(r, {"inserted"})
    /\ stock' = [stock EXCEPT ![request[r].into] = request[r].row]
    /\ Becomes(r, Idle)
    /\ UNCHANGED <<place, overtaken, doubled>>

\* A statement fails, or the process ends: the transaction is rolled back.
Fail(r) ==
    /\ ~At(r, {"idle"})
    /\ Becomes(r, Idle)
    /\ overtaken' = overtaken \ {r}
    /\ UNCHANGED <<place, stock, doubled>>

-----------------------------------------------------------------------------
Next == \E r \in Requests :
            \/ \E c \in Codes : \/ \E w \in Warehouses \cup {Tenant} : Create(r, w, c)
                                \/ \E i \in Places : Update(r, i, c)
            \/ Check(r) \/ Write(r) \/ Commit(r)
            \/ \E l \in Locations : DeleteLocation(r, l)
            \/ Count(r) \/ Destroy(r) \/ CommitDestroy(r)
            \/ \E row \in StockRows : CreateStock(r, row)
            \/ Insert(r) \/ CommitInsert(r)
            \/ Fail(r)

Spec == Init /\ [][Next]_vars

-----------------------------------------------------------------------------
(* Properties                                                              *)

\* The values the variables take; only a destroyed location is gone.
TypeOK ==
    /\ place \in [Places -> PlaceRows \cup {Unused, Gone}]
    /\ stock \in [Stocks -> StockRows \cup {Nowhere}]
    /\ request \in [Requests -> Tasks]
    /\ overtaken \subseteq {r \in Requests : At(r, {"write", "written"})}
    /\ doubled \subseteq Places
    /\ \A w \in Warehouses : Exists(w) => place[w].in = Tenant

\* Two warehouses of a tenant, or two locations of a warehouse, share a code
\* only where somebody else committed it between a request's check and its
\* own commit: nothing but the look-up of the services keeps codes apart.
CodesDiffer ==
    \A i, j \in Places :
        Exists(i) /\ Exists(j) /\ place[i] = place[j] => i = j \/ {i, j} \cap doubled # {}

\* What a stock row refers to is there, and in the warehouse of the row, however
\* createStock overlaps the deletion of the location.
LocationsMatch ==
    \A s \in Stocks : InUse(s) /\ stock[s].location # Nowhere =>
        /\ Exists(stock[s].location)
        /\ place[stock[s].location].in = stock[s].warehouse

\* deleteLocation takes no location from a stock row that was there when it
\* counted the stocks.
CountedStocksStay ==
    [][\A s \in Stocks :
         InUse(s) /\ stock'[s] # stock[s] =>
             \E r \in Requests : At(r, {"destroyed"}) /\ s \notin request[r].seen]_vars
=============================================================================
