----------------------------- MODULE Inventory ------------------------------
(***************************************************************************)
(* src/src/services/stock.service.js: concurrent HTTP requests that read   *)
(* and write stock rows, transfers, adjustments and stock counts through   *)
(* Sequelize transactions on PostgreSQL.                                   *)
(*                                                                         *)
(* Every write operation of the service has the shape                      *)
(*    begin; lookups (no row locks); writes of absolute values computed    *)
(*    from the lookups; commit -- or roll back when anything throws        *)
(* and every `await` between them lets another request run.  Transactions  *)
(* run READ COMMITTED, PostgreSQL's default: a lookup sees the latest      *)
(* committed row, an UPDATE waits for the transaction that updated the     *)
(* same row and then overwrites what that transaction committed.           *)
(*                                                                         *)
(* One action is one awaited statement, with two reductions.  Lookups that *)
(* follow each other and whose results no property tells apart (warehouse, *)
(* location, duplicate SKU) are one step.  The last write of an operation  *)
(* and its COMMIT are one step: the operation runs no other statement in   *)
(* between, so another request sees the same whether it comes before or    *)
(* after both.  Only completing a transfer updates one row and then runs   *)
(* further lookups; its row lock is modelled (LockedBy).                   *)
(***************************************************************************)
EXTENDS InventoryTypes, Functions

CONSTANT PoolSize    \* DB_POOL_MAX: connections, hence open transactions

ASSUME PoolAssumption == PoolSize \in Nat \ {0}

VARIABLES
    stock,        \* committed rows of the table stocks
    transfer,     \* committed rows of stock_transfers
    opname,       \* committed status of each row of stock_opnames
    adjustments,  \* committed rows of stock_adjustments, by creating request
    pc,           \* how far each request has come
    call,         \* what each request asks for
    seen          \* the instances a request holds in memory, as it read them

tables == <<stock, transfer, opname, adjustments>>
vars   == <<stock, transfer, opname, adjustments, pc, call, seen>>

-----------------------------------------------------------------------------
InTx      == {"begun", "looked", "sourced", "debited", "matched"}
Answered  == {"ok", "error"}
OpenTx    == {r \in Requests : pc[r] \in InTx}
NoCall    == [op |-> "none"]

\* No lookup has returned anything yet.
NothingSeen(r) == [source |-> r, row |-> InitStock[r],
                   dest |-> r, destRow |-> InitStock[r], status |-> "none"]

Seen == [source: StockIds, row: StockRow, dest: StockIds, destRow: StockRow,
         status: TransferStatuses \cup OpnameStatuses \cup {"none"}]

Init == /\ stock = InitStock
        /\ transfer = InitTransfer
        /\ opname = InitOpname
        /\ adjustments = {}
        /\ pc = [r \in Requests |-> "idle"]
        /\ call = [r \in Requests |-> NoCall]
        /\ seen = [r \in Requests |-> NothingSeen(r)]

-----------------------------------------------------------------------------
\* A committed row that findOne with isDeleted: false returns.
Visible(s) == stock[s].exists /\ ~stock[s].isDeleted

\* The rows that a lookup by warehouse and item name may return: no ORDER BY.
Matching(w, i) == {s \in StockIds : /\ Visible(s)
                                    /\ stock[s].warehouse = w
                                    /\ stock[s].item = i}

\* The stock row that a request has updated and not yet committed.
LockedBy(r) == IF pc[r] \in {"debited", "matched"} THEN {seen[r].source} ELSE {}

Unlocked(s, r) == \A q \in Requests \ {r} : s \notin LockedBy(q)

\* instance.update writes only the columns that differ from the instance as
\* it was read; a column it does not write keeps its committed value.
Saved(new, read, committed) == IF new = read THEN committed ELSE new

Advance(r, label) == pc' = [pc EXCEPT ![r] = label] /\ UNCHANGED call

\* The request is answered and its connection goes back to the pool.
Finish(r, answer) == /\ Advance(r, answer)
                     /\ seen' = [seen EXCEPT ![r] = NothingSeen(r)]

\* Mutant: a catch block that neither rolls back nor answers.
FailSwallowed(r) == UNCHANGED vars

\* The catch block: roll back, rethrow.
Fail(r) == Finish(r, "error") /\ UNCHANGED tables

-----------------------------------------------------------------------------
(* The pool: `await db.transaction()`, and its acquire timeout.            *)

Start(r, c) ==
    /\ pc[r] = "idle"
    /\ Cardinality(OpenTx) < PoolSize
    /\ pc' = [pc EXCEPT ![r] = "begun"]
    /\ call' = [call EXCEPT ![r] = c]
    /\ UNCHANGED <<tables, seen>>

AcquireTimeout(r) ==
    /\ pc[r] = "idle"
    /\ Cardinality(OpenTx) >= PoolSize
    /\ Fail(r)

\* The server aborts a transaction: connection lost, statement failed.
DatabaseError(r) ==
    /\ pc[r] \in InTx
    /\ Fail(r)

-----------------------------------------------------------------------------
(* createStock, updateStock, deleteStock, createAdjustment                 *)

\* The lookups before an INSERT: the warehouse or the location may be
\* missing (404), a row with the same SKU may exist (409).
CheckInsert(r) ==
    /\ pc[r] = "begun"
    /\ call[r].op \in {"createStock", "createOpname"}
    /\ \/ Advance(r, "looked") /\ UNCHANGED <<tables, seen>>
       \/ Fail(r)

InsertStock(r) ==
    /\ pc[r] = "looked"
    /\ call[r].op = "createStock"
    /\ \/ /\ call[r].quantity > MaxQuantity
          /\ Fail(r)
       \/ /\ call[r].quantity <= MaxQuantity
          /\ stock' = [stock EXCEPT ![r] =
                 [exists |-> TRUE, isDeleted |-> FALSE,
                  warehouse |-> call[r].warehouse, item |-> call[r].item,
                  quantity |-> call[r].quantity]]
          /\ Finish(r, "ok")
          /\ UNCHANGED <<transfer, opname, adjustments>>

\* Mutant: write-offs are not checked against the quantity on stock.
InsufficientUnlessWriteOff(c, q) ==
    c.op = "createAdjustment" /\ c.type = "subtraction" /\ q < c.quantity

\* An adjustment that takes away more than the row was read to hold.
Insufficient(c, q) == c.op = "createAdjustment" /\ Adjusted(c, q) < 0

FindStock(r) ==
    /\ pc[r] = "begun"
    /\ call[r].op \in {"updateStock", "deleteStock", "createAdjustment"}
    /\ LET s == call[r].stock IN
       \/ /\ ~Visible(s) \/ Insufficient(call[r], stock[s].quantity)
          /\ Fail(r)
       \/ /\ Visible(s) /\ ~Insufficient(call[r], stock[s].quantity)
          /\ Advance(r, "looked")
          /\ seen' = [seen EXCEPT ![r].source = s, ![r].row = stock[s]]
          /\ UNCHANGED tables

\* The row that an UPDATE of item name and quantity leaves behind.
Overwritten(s, row, item, quantity) ==
    [stock[s] EXCEPT !.item = Saved(item, row.item, @),
                     !.quantity = Saved(quantity, row.quantity, @)]

SaveStock(r) ==
    /\ pc[r] = "looked"
    /\ call[r].op = "updateStock"
    /\ LET s        == seen[r].source
           row      == seen[r].row
           item     == IF call[r].item = Keep THEN row.item ELSE call[r].item
           quantity == IF call[r].quantity = Keep THEN row.quantity
                                                  ELSE call[r].quantity
       IN  \/ quantity > MaxQuantity /\ Fail(r)
           \/ /\ quantity <= MaxQuantity
              /\ Unlocked(s, r) \/ (item = row.item /\ quantity = row.quantity)
              /\ stock' = [stock EXCEPT ![s] = Overwritten(s, row, item, quantity)]
              /\ Finish(r, "ok")
              /\ UNCHANGED <<transfer, opname, adjustments>>

\* softDelete() assigns this.is_deleted, but the attribute the model declares
\* is isDeleted (column is_deleted): save() finds no changed attribute, sends
\* no statement and the row stays as it is.
SoftDelete(row) == row

DeleteStock(r) ==
    /\ pc[r] = "looked"
    /\ call[r].op = "deleteStock"
    /\ stock' = [stock EXCEPT ![seen[r].source] = SoftDelete(@)]
    /\ Finish(r, "ok")
    /\ UNCHANGED <<transfer, opname, adjustments>>

\* UPDATE of the quantity, INSERT of the adjustment, COMMIT.
AdjustStock(r) ==
    /\ pc[r] = "looked"
    /\ call[r].op = "createAdjustment"
    /\ LET s        == seen[r].source
           quantity == Adjusted(call[r], seen[r].row.quantity)
       IN  \/ quantity > MaxQuantity /\ Fail(r)
           \/ /\ quantity <= MaxQuantity
              /\ Unlocked(s, r)
              /\ stock' = [stock EXCEPT ![s].quantity = quantity]
              /\ adjustments' = adjustments \cup {r}
              /\ Finish(r, "ok")
              /\ UNCHANGED <<transfer, opname>>

-----------------------------------------------------------------------------
(* createTransfer, updateTransferStatus                                    *)

CheckTransfer(r) ==
    /\ pc[r] = "begun"
    /\ call[r].op = "createTransfer"
    /\ LET c       == call[r]
           sources == Matching(c.from, c.item)
       IN  \/ /\ c.from # c.to
              /\ \E s \in sources : stock[s].quantity >= c.quantity
              /\ Advance(r, "looked")
              /\ UNCHANGED <<tables, seen>>
           \/ /\ \/ c.from = c.to \/ sources = {}
                 \/ \E s \in sources : stock[s].quantity < c.quantity
              /\ Fail(r)

InsertTransfer(r) ==
    /\ pc[r] = "looked"
    /\ call[r].op = "createTransfer"
    /\ transfer' = [transfer EXCEPT ![r] =
           [status |-> "pending", from |-> call[r].from, to |-> call[r].to,
            item |-> call[r].item, quantity |-> call[r].quantity]]
    /\ Finish(r, "ok")
    /\ UNCHANGED <<stock, opname, adjustments>>

\* Mutant: a cancelled transfer may still be completed.
FindTransferAlsoCancelled(r) ==
    /\ pc[r] = "begun"
    /\ call[r].op = "updateTransferStatus"
    /\ LET status == transfer[call[r].transfer].status IN
       \/ status \in {"none", "completed"} /\ Fail(r)
       \/ /\ status \notin {"none", "completed"}
          /\ Advance(r, "looked")
          /\ seen' = [seen EXCEPT ![r].status = status]
          /\ UNCHANGED tables

FindTransfer(r) ==
    /\ pc[r] = "begun"
    /\ call[r].op = "updateTransferStatus"
    /\ LET status == transfer[call[r].transfer].status IN
       \/ /\ status = "none" \/ Terminal(status)
          /\ Fail(r)
       \/ /\ status # "none" /\ ~Terminal(status)
          /\ Advance(r, "looked")
          /\ seen' = [seen EXCEPT ![r].status = status]
          /\ UNCHANGED tables

\* A transition other than completion.  approvedBy, the other column the
\* UPDATE may write, is a function of the status.
SetTransferStatus(r) ==
    /\ pc[r] = "looked"
    /\ call[r].op = "updateTransferStatus"
    /\ call[r].status # "completed"
    /\ transfer' = [transfer EXCEPT ![call[r].transfer].status =
                       Saved(call[r].status, seen[r].status, @)]
    /\ Finish(r, "ok")
    /\ UNCHANGED <<stock, opname, adjustments>>

\* Completion, first lookup: the row of the source warehouse.
FindSource(r) ==
    /\ pc[r] = "looked"
    /\ call[r].op = "updateTransferStatus"
    /\ call[r].status = "completed"
    /\ LET t       == transfer[call[r].transfer]
           sources == Matching(t.from, t.item)
       IN  \/ \E s \in sources :
                /\ stock[s].quantity >= t.quantity
                /\ Advance(r, "sourced")
                /\ seen' = [seen EXCEPT ![r].source = s, ![r].row = stock[s]]
                /\ UNCHANGED tables
           \/ /\ \/ sources = {}
                 \/ \E s \in sources : stock[s].quantity < t.quantity
              /\ Fail(r)

\* The UPDATE of the source row: from here to the end of the transaction the
\* row is locked, and other requests keep reading its committed version.
DebitSource(r) ==
    /\ pc[r] = "sourced"
    /\ Unlocked(seen[r].source, r)
    /\ Advance(r, "debited")
    /\ UNCHANGED <<tables, seen>>

\* Mutant: findOrCreate without the transaction, its INSERT commits at once.
FindDestinationOutsideTx(r) ==
    /\ pc[r] = "debited"
    /\ LET t     == transfer[call[r].transfer]
           dests == Matching(t.to, t.item)
       IN  \/ \E d \in dests :
                /\ seen' = [seen EXCEPT ![r].dest = d, ![r].destRow = stock[d]]
                /\ UNCHANGED stock
           \/ /\ dests = {}
              /\ stock' = [stock EXCEPT ![r] =
                     [exists |-> TRUE, isDeleted |-> FALSE, warehouse |-> t.to,
                      item |-> t.item, quantity |-> t.quantity]]
              /\ UNCHANGED seen
    /\ Advance(r, "matched")
    /\ UNCHANGED <<transfer, opname, adjustments>>

\* findOrCreate in the destination warehouse.  The row it inserts when there
\* is none is named r and becomes visible at the commit.
FindDestination(r) ==
    /\ pc[r] = "debited"
    /\ LET t     == transfer[call[r].transfer]
           dests == Matching(t.to, t.item)
       IN  \/ \E d \in dests :
                seen' = [seen EXCEPT ![r].dest = d, ![r].destRow = stock[d]]
           \/ dests = {} /\ UNCHANGED seen
    /\ Advance(r, "matched")
    /\ UNCHANGED tables

\* Mutant: the quantity is deducted from the instance in memory only.
DebitedInMemory(r, q) == stock[seen[r].source]

\* The source row as the transaction's own UPDATE left it.
Debited(r, q) == [stock[seen[r].source] EXCEPT !.quantity = seen[r].row.quantity - q]

\* Mutant: the quantity is missing from the defaults of findOrCreate.
CreditedDefaultsOnly(r, t) ==
    IF seen[r].dest = r
    THEN [exists |-> TRUE, isDeleted |-> FALSE,
          warehouse |-> t.to, item |-> t.item, quantity |-> 0]
    ELSE [stock[seen[r].dest] EXCEPT !.quantity = seen[r].destRow.quantity + t.quantity]

\* Mutant: an existing destination row is left as it was.
CreditedOnlyIfCreated(r, t) ==
    IF seen[r].dest = r
    THEN [exists |-> TRUE, isDeleted |-> FALSE,
          warehouse |-> t.to, item |-> t.item, quantity |-> t.quantity]
    ELSE stock[seen[r].dest]

\* The destination row: created, or updated to the quantity read plus q.
Credited(r, t) ==
    IF seen[r].dest = r
    THEN [exists |-> TRUE, isDeleted |-> FALSE,
          warehouse |-> t.to, item |-> t.item, quantity |-> t.quantity]
    ELSE [stock[seen[r].dest] EXCEPT !.quantity = seen[r].destRow.quantity + t.quantity]

\* UPDATE of the destination row, UPDATE of the transfer, COMMIT.
CompleteTransfer(r) ==
    /\ pc[r] = "matched"
    /\ LET t == transfer[call[r].transfer] IN
       \/ Credited(r, t).quantity > MaxQuantity /\ Fail(r)
       \/ /\ Credited(r, t).quantity <= MaxQuantity
          /\ Unlocked(seen[r].dest, r)
          /\ stock' = [stock EXCEPT ![seen[r].source] = Debited(r, t.quantity),
                                    ![seen[r].dest]   = Credited(r, t)]
          /\ transfer' = [transfer EXCEPT ![call[r].transfer].status = "completed"]
          /\ Finish(r, "ok")
          /\ UNCHANGED <<opname, adjustments>>

-----------------------------------------------------------------------------
(* createOpname, updateOpnameStatus                                        *)

\* Mutant: a status that the ENUM of stock_opnames does not have.
InsertOpnameScheduled(r) ==
    /\ pc[r] = "looked"
    /\ call[r].op = "createOpname"
    /\ opname' = [opname EXCEPT ![r] = "scheduled"]
    /\ Finish(r, "ok")
    /\ UNCHANGED <<stock, transfer, adjustments>>

InsertOpname(r) ==
    /\ pc[r] = "looked"
    /\ call[r].op = "createOpname"
    /\ opname' = [opname EXCEPT ![r] = "draft"]
    /\ Finish(r, "ok")
    /\ UNCHANGED <<stock, transfer, adjustments>>

FindOpname(r) ==
    /\ pc[r] = "begun"
    /\ call[r].op = "updateOpnameStatus"
    /\ LET status == opname[call[r].opname] IN
       \/ /\ status \in {"none", "completed"}
          /\ Fail(r)
       \/ /\ status \notin {"none", "completed"}
          /\ Advance(r, "looked")
          /\ seen' = [seen EXCEPT ![r].status = status]
          /\ UNCHANGED tables

SetOpnameStatus(r) ==
    /\ pc[r] = "looked"
    /\ call[r].op = "updateOpnameStatus"
    /\ opname' = [opname EXCEPT ![call[r].opname] =
                     Saved(call[r].status, seen[r].status, @)]
    /\ Finish(r, "ok")
    /\ UNCHANGED <<stock, transfer, adjustments>>

-----------------------------------------------------------------------------
(* Two completions may each hold the row the other needs.  PostgreSQL      *)
(* aborts a transaction of the cycle (deadlock_timeout); the service rolls *)
(* back and answers with the error.                                        *)

Needs(r) == CASE pc[r] = "sourced" -> {seen[r].source}
              [] pc[r] = "matched" -> {seen[r].dest}
              [] OTHER             -> {}

WaitsFor(r, q) == r # q /\ Needs(r) \cap LockedBy(q) # {}

InWaitCycle(r) ==
    \E D \in SUBSET Requests :
        /\ r \in D
        /\ \A x \in D : /\ \E y \in D : WaitsFor(x, y)
                        /\ \E y \in D : WaitsFor(y, x)

DeadlockVictim(r) ==
    /\ pc[r] \in InTx
    /\ InWaitCycle(r)
    /\ Fail(r)

-----------------------------------------------------------------------------
Lookup(r) == \/ CheckInsert(r) \/ FindStock(r) \/ CheckTransfer(r)
             \/ FindTransfer(r) \/ FindSource(r) \/ FindOpname(r)

StockWrite(r) == InsertStock(r) \/ SaveStock(r) \/ DeleteStock(r) \/ AdjustStock(r)

Completion(r) == DebitSource(r) \/ FindDestination(r) \/ CompleteTransfer(r)

StatusWrite(r) == \/ InsertTransfer(r) \/ SetTransferStatus(r)
                  \/ InsertOpname(r) \/ SetOpnameStatus(r)

\* What an open transaction does next.
Proceed(r) == Lookup(r) \/ StockWrite(r) \/ Completion(r) \/ StatusWrite(r)

Next == \E r \in Requests :
            \/ \E c \in Workload : Start(r, c)
            \/ AcquireTimeout(r)
            \/ Proceed(r)
            \/ DeadlockVictim(r)
            \/ DatabaseError(r)

\* Node runs the continuation of a settled promise, PostgreSQL serves an
\* unblocked statement and resolves a deadlock; no client has to call.
Fairness == \A r \in Requests : WF_vars(Proceed(r)) /\ WF_vars(DeadlockVictim(r))

Spec     == Init /\ [][Next]_vars
FairSpec == Spec /\ Fairness

-----------------------------------------------------------------------------
(* Properties                                                              *)

\* Type invariant: rows, program counters and in-memory instances have the
\* shape the models of src/src/models/Stock*.js declare.
TypeOK ==
    /\ stock \in [StockIds -> StockRow]
    /\ transfer \in [TransferIds -> TransferRow]
    /\ opname \in [OpnameIds -> OpnameStatuses \cup {"none"}]
    /\ adjustments \subseteq Requests
    /\ pc \in [Requests -> {"idle"} \cup InTx \cup Answered]
    /\ call \in [Requests -> Calls \cup {NoCall}]
    /\ seen \in [Requests -> Seen]

\* No committed row ever holds a negative quantity, or one the column cannot
\* hold, whatever requests interleave: every absolute value written was
\* computed from a legal quantity that covered it (the checks at
\* stock.service.js:301 and :492), however stale that quantity is.
QuantityInRange == \A s \in StockIds : stock[s].quantity \in Quantity

\* The tables change only in the step in which one open request commits and
\* succeeds: nothing of a request that fails, or has not finished, is visible.
AllOrNothing ==
    [][tables' # tables => \E r \in Requests : pc[r] \in InTx /\ pc'[r] = "ok"]_vars

\* A completion that commits.
Completes(r) == pc[r] = "matched" /\ pc'[r] = "ok"

\* What the row found in the destination warehouse was read to hold: nothing
\* when the completion creates it.
DestinationHeld(r) == IF seen[r].dest = r THEN 0 ELSE seen[r].destRow.quantity

\* A transfer becomes completed only by a request that moves it, and whatever
\* happened since that request read its two rows, in the step that commits
\* they are two rows of the two warehouses, read as rows of the transferred
\* item; the source is written as it was read less the quantity, which it
\* covered, the destination as it was read plus the quantity, and no other row
\* changes.  What a completion takes or gives differs from the transferred
\* quantity only by what others committed to the row after the read, which it
\* overwrites (stock.service.js:481-533).
CompletionPays ==
    [][/\ \A t \in TransferIds :
            transfer[t].status # "completed" /\ transfer'[t].status = "completed" =>
              \E r \in Requests : Completes(r) /\ call[r].transfer = t
       /\ \A r \in Requests : Completes(r) =>
            LET t == transfer[call[r].transfer]
                s == seen[r].source
                d == seen[r].dest
            IN  /\ transfer'[call[r].transfer].status = "completed"
                /\ s # d
                /\ stock[s].exists /\ stock[s].warehouse = t.from
                /\ stock'[d].exists /\ stock'[d].warehouse = t.to
                /\ seen[r].row.item = t.item
                /\ (IF d = r THEN stock'[d] ELSE seen[r].destRow).item = t.item
                /\ stock'[s].quantity = seen[r].row.quantity - t.quantity
                /\ stock'[s].quantity >= 0
                /\ stock'[d].quantity = DestinationHeld(r) + t.quantity
                /\ \A x \in StockIds \ {s, d} : stock'[x] = stock[x]]_vars

\* Every request that got a connection is answered, although completions in
\* opposite directions wait for each other's row locks.
EveryRequestAnswered ==
    \A r \in Requests : (pc[r] \in InTx) ~> (pc[r] \in Answered)

\* Units of all items in all warehouses.
UnitsOf(row) == IF row.exists THEN row.quantity ELSE 0

Units        == SumFunctionOnSet([s \in StockIds |-> UnitsOf(stock[s])], StockIds)
InitialUnits == SumFunctionOnSet([s \in StockIds |-> UnitsOf(InitStock[s])], StockIds)

\* What the answered creations and the recorded adjustments say was added.
Recorded(r) == CASE r \in adjustments -> Adjusted(call[r], 0)
                 [] pc[r] = "ok" /\ call[r].op = "createStock" -> call[r].quantity
                 [] OTHER -> 0

RecordedUnits == SumFunctionOnSet([r \in Requests |-> Recorded(r)], Requests)

\* As long as nobody has overwritten a quantity by hand, the books balance:
\* the units on stock are the initial ones plus everything the creations and
\* adjustments recorded.  Transfers move units and neither make nor lose any
\* ("Execute the transfer atomically", stock.service.js:481).
UnitsAccountedFor ==
    (\A r \in Requests : pc[r] = "ok" => call[r].op # "updateStock") =>
        Units = InitialUnits + RecordedUnits

\* Requests that come one at a time take effect atomically: every behaviour of
\* this specification with one connection is one of AtomicInventory, in which
\* a request is answered by the step that has its effect.
Atomic == INSTANCE AtomicInventory
            WITH answer <- [r \in Requests |->
                              IF pc[r] \in Answered THEN pc[r] ELSE "none"]
ImplementsAtomic == Atomic!Spec
=============================================================================
