--------------------------- MODULE InventoryTypes ---------------------------
(***************************************************************************)
(* The data of the stock component: the rows of the tables stocks,         *)
(* stock_transfers and stock_opnames (src/src/models), and the calls that  *)
(* the routes of src/src/routes/api/stock.js admit once the Joi            *)
(* schemas of src/src/validators/stock.validator.js have accepted them.    *)
(*                                                                         *)
(* One tenant is modelled: every query of the service carries the caller's *)
(* tenantId.  A row created by request r is named r: its real name is a    *)
(* fresh UUID, and no request creates two rows of one table.               *)
(***************************************************************************)
EXTENDS Integers, FiniteSets

CONSTANTS
    Requests,       \* the HTTP calls of one behaviour
    Warehouses,     \* warehouses of the tenant
    Items,          \* item names
    SeedStocks,     \* stock rows that exist before the first call
    SeedTransfers,  \* transfers that exist before the first call
    SeedOpnames,    \* stock counts that exist before the first call
    MaxQuantity,    \* largest value the INTEGER column stocks.quantity holds
    Amounts,        \* quantities that a caller sends
    Keep,           \* an optional field the caller leaves out
    InitStock,      \* the initial contents of the three tables
    InitTransfer,
    InitOpname,
    Workload        \* the calls that the clients make

StockIds    == SeedStocks \cup Requests
TransferIds == SeedTransfers \cup Requests
OpnameIds   == SeedOpnames \cup Requests

Quantity == 0 .. MaxQuantity

TransferStatuses == {"pending", "in_transit", "completed", "cancelled"}
OpnameStatuses   == {"draft", "in_progress", "completed"}

\* isDeleted is part of the row: every lookup of the service filters on it.
StockRow == [exists: BOOLEAN, isDeleted: BOOLEAN,
             warehouse: Warehouses, item: Items, quantity: Int]

\* A transfer that no request has inserted yet has the status "none".
TransferRow == [status: TransferStatuses \cup {"none"},
                from: Warehouses, to: Warehouses,
                item: Items, quantity: Amounts]

-----------------------------------------------------------------------------
\* The bodies and parameters of the calls, as the validators let them through.

CreateStockCall == [op: {"createStock"}, warehouse: Warehouses, item: Items,
                    quantity: Amounts \cup {0}]
UpdateStockCall == [op: {"updateStock"}, stock: StockIds,
                    item: Items \cup {Keep}, quantity: Amounts \cup {0, Keep}]
DeleteStockCall == [op: {"deleteStock"}, stock: StockIds]
AdjustmentCall  == [op: {"createAdjustment"}, stock: StockIds,
                    type: {"addition", "subtraction", "write_off"},
                    quantity: Amounts]
CreateTransferCall == [op: {"createTransfer"}, from: Warehouses, to: Warehouses,
                       item: Items, quantity: Amounts]
TransferStatusCall == [op: {"updateTransferStatus"}, transfer: TransferIds,
                       status: TransferStatuses]
CreateOpnameCall == [op: {"createOpname"}, warehouse: Warehouses]
OpnameStatusCall == [op: {"updateOpnameStatus"}, opname: OpnameIds,
                     status: OpnameStatuses]

Calls == CreateStockCall \cup UpdateStockCall \cup DeleteStockCall
           \cup AdjustmentCall \cup CreateTransferCall \cup TransferStatusCall
           \cup CreateOpnameCall \cup OpnameStatusCall

\* The quantity an adjustment leaves behind in a row that held q.
Adjusted(c, q) == IF c.type = "addition" THEN q + c.quantity ELSE q - c.quantity

Terminal(status) == status \in {"completed", "cancelled"}

-----------------------------------------------------------------------------
\* Amounts are at least 1 (Joi: integer, min 1), and rows of later requests
\* do not exist at the start; the rows that do exist hold legal quantities.
ASSUME TypesAssumption ==
    /\ MaxQuantity \in Nat
    /\ Amounts \subseteq Nat \ {0}
    /\ Keep \notin Items /\ Keep \notin Int
    /\ Requests \cap (SeedStocks \cup SeedTransfers \cup SeedOpnames) = {}
    /\ InitStock \in [StockIds -> StockRow]
    /\ \A s \in StockIds : InitStock[s].quantity \in Quantity
    /\ \A r \in Requests : ~InitStock[r].exists
    /\ InitTransfer \in [TransferIds -> TransferRow]
    /\ \A r \in Requests : InitTransfer[r].status = "none"
    /\ \A t \in SeedTransfers : InitTransfer[t].from # InitTransfer[t].to
    /\ InitOpname \in [OpnameIds -> OpnameStatuses \cup {"none"}]
    /\ \A r \in Requests : InitOpname[r] = "none"
    /\ Workload \subseteq Calls
=============================================================================
