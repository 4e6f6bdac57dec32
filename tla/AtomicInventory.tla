-------------------------- MODULE AtomicInventory ---------------------------
(***************************************************************************)
(* What the write operations of src/src/services/stock.service.js promise  *)
(* to their callers: each request takes effect at once, on the tables as   *)
(* they are at that moment, or has no effect.  Inventory implements this   *)
(* specification when requests come one at a time.                         *)
(***************************************************************************)
EXTENDS InventoryTypes

VARIABLES stock, transfer, opname, adjustments,
          answer    \* what each request was told

tables == <<stock, transfer, opname, adjustments>>
vars   == <<stock, transfer, opname, adjustments, answer>>

Init == /\ stock = InitStock
        /\ transfer = InitTransfer
        /\ opname = InitOpname
        /\ adjustments = {}
        /\ answer = [r \in Requests |-> "none"]

Holding(w, i) == {s \in StockIds : /\ stock[s].exists /\ ~stock[s].isDeleted
                                   /\ stock[s].warehouse = w /\ stock[s].item = i}

NewRow(w, i, q) == [exists |-> TRUE, isDeleted |-> FALSE,
                    warehouse |-> w, item |-> i, quantity |-> q]

Raised(row, q) == [row EXCEPT !.quantity = @ + q]

-----------------------------------------------------------------------------
\* Effects on the tables, one per operation.

CreateStock(r, c) ==
    /\ c.quantity \in Quantity
    /\ stock' = [stock EXCEPT ![r] = NewRow(c.warehouse, c.item, c.quantity)]
    /\ UNCHANGED <<transfer, opname, adjustments>>

UpdateStock(c) ==
    /\ stock[c.stock].exists
    /\ c.quantity # Keep => c.quantity \in Quantity
    /\ stock' = [stock EXCEPT ![c.stock].item = IF c.item = Keep THEN @ ELSE c.item,
                              ![c.stock].quantity = IF c.quantity = Keep THEN @ ELSE c.quantity]
    /\ UNCHANGED <<transfer, opname, adjustments>>

DeleteStock(c) == stock[c.stock].exists /\ UNCHANGED tables

\* An adjustment changes the row by exactly the amount that it records.
Adjust(r, c) ==
    /\ stock[c.stock].exists
    /\ Adjusted(c, stock[c.stock].quantity) \in Quantity
    /\ stock' = [stock EXCEPT ![c.stock].quantity = Adjusted(c, @)]
    /\ adjustments' = adjustments \cup {r}
    /\ UNCHANGED <<transfer, opname>>

RequestTransfer(r, c) ==
    /\ c.from # c.to
    /\ \E s \in Holding(c.from, c.item) : stock[s].quantity >= c.quantity
    /\ transfer' = [transfer EXCEPT ![r] =
           [status |-> "pending", from |-> c.from, to |-> c.to,
            item |-> c.item, quantity |-> c.quantity]]
    /\ UNCHANGED <<stock, opname, adjustments>>

\* A transfer that is neither completed nor cancelled may take any status ...
OpenTransfer(t) == transfer[t].status \in {"pending", "in_transit"}

SetTransfer(c) ==
    /\ OpenTransfer(c.transfer)
    /\ c.status # "completed"
    /\ transfer' = [transfer EXCEPT ![c.transfer].status = c.status]
    /\ UNCHANGED <<stock, opname, adjustments>>

\* ... and completing it moves its units from a row of the one warehouse to a
\* row of the other, which is created when there is none.
MoveUnits(r, c) ==
    /\ OpenTransfer(c.transfer)
    /\ c.status = "completed"
    /\ LET t     == transfer[c.transfer]
           dests == Holding(t.to, t.item)
       IN  \E s \in Holding(t.from, t.item), d \in IF dests = {} THEN {r} ELSE dests :
              /\ stock[s].quantity >= t.quantity
              /\ stock' = [stock EXCEPT
                    ![s] = Raised(stock[s], -t.quantity),
                    ![d] = IF d = r THEN NewRow(t.to, t.item, t.quantity)
                                    ELSE Raised(stock[d], t.quantity)]
              /\ stock'[d].quantity \in Quantity
    /\ transfer' = [transfer EXCEPT ![c.transfer].status = "completed"]
    /\ UNCHANGED <<opname, adjustments>>

CreateOpname(r) ==
    /\ opname' = [opname EXCEPT ![r] = "draft"]
    /\ UNCHANGED <<stock, transfer, adjustments>>

SetOpname(c) ==
    /\ opname[c.opname] \in {"draft", "in_progress"}
    /\ opname' = [opname EXCEPT ![c.opname] = c.status]
    /\ UNCHANGED <<stock, transfer, adjustments>>

-----------------------------------------------------------------------------
Effect(r, c) ==
    CASE c.op = "createStock"      -> CreateStock(r, c)
      [] c.op = "updateStock"      -> UpdateStock(c)
      [] c.op = "deleteStock"      -> DeleteStock(c)
      [] c.op = "createAdjustment" -> Adjust(r, c)
      [] c.op = "createTransfer"   -> RequestTransfer(r, c)
      [] c.op = "updateTransferStatus" -> SetTransfer(c) \/ MoveUnits(r, c)
      [] c.op = "createOpname"     -> CreateOpname(r)
      [] c.op = "updateOpnameStatus"   -> SetOpname(c)

Accept(r) == /\ answer[r] = "none"
             /\ answer' = [answer EXCEPT ![r] = "ok"]
             /\ \E c \in Workload : Effect(r, c)

Reject(r) == /\ answer[r] = "none"
             /\ answer' = [answer EXCEPT ![r] = "error"]
             /\ UNCHANGED tables

Next == \E r \in Requests : Accept(r) \/ Reject(r)

Spec == Init /\ [][Next]_vars
=============================================================================
