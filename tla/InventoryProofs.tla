-------------------------- MODULE InventoryProofs ---------------------------
(***************************************************************************)
(* Theorems about Inventory, for every set of requests, rows and items,    *)
(* every pool size and every workload.                                     *)
(***************************************************************************)
EXTENDS Inventory, FiniteSetTheorems, WellFoundedInduction, TLAPS

(***************************************************************************)
(* QuantityInRange is not inductive: a request writes a quantity that it   *)
(* computed from an instance read earlier.  What makes the write legal is  *)
(* what the request has checked of that instance, whatever happened to the *)
(* row since.                                                              *)
(***************************************************************************)

\* Instances in memory hold legal quantities.
SeenLegal == \A r \in Requests : /\ seen[r].row.quantity \in Quantity
                                 /\ seen[r].destRow.quantity \in Quantity

\* An adjustment that passed its check takes away at most what it saw.
AdjustmentCovered ==
    \A r \in Requests :
        pc[r] = "looked" /\ call[r].op = "createAdjustment" =>
            Adjusted(call[r], seen[r].row.quantity) >= 0

\* A completion under way is one of an existing transfer, and from the debit
\* on the source was seen to hold the quantity of the transfer.
Completing(r) == pc[r] \in {"sourced", "debited", "matched"}

CompletionCovered ==
    \A r \in Requests :
        /\ pc[r] = "looked" /\ call[r].op = "updateTransferStatus" =>
              transfer[call[r].transfer].status # "none"
        /\ Completing(r) =>
              /\ call[r].op = "updateTransferStatus"
              /\ transfer[call[r].transfer].status # "none"
              /\ transfer[call[r].transfer].quantity <= seen[r].row.quantity

\* A request in a transaction has a call; its transfer row is not there yet.
RequestsWellFormed ==
    \A r \in Requests : /\ pc[r] \in InTx => call[r] \in Calls
                        /\ pc[r] \notin Answered => transfer[r].status = "none"

IInv == /\ TypeOK
        /\ QuantityInRange
        /\ SeenLegal
        /\ AdjustmentCovered
        /\ CompletionCovered
        /\ RequestsWellFormed

-----------------------------------------------------------------------------
\* Amounts are numbers, and the keep marker is none.
LEMMA AmountsAreNumbers == /\ \A q \in Amounts : q \in Int /\ q > 0
                           /\ \A q \in Quantity : q \in Int /\ 0 <= q /\ q <= MaxQuantity
  BY TypesAssumption DEF Quantity

\* The fields of a call, by its operation.
LEMMA CallFields ==
  ASSUME NEW c \in Calls
  PROVE  /\ c.op = "createStock" => /\ c.warehouse \in Warehouses /\ c.item \in Items
                                    /\ c.quantity \in Int /\ c.quantity >= 0
         /\ c.op = "updateStock" => /\ c.stock \in StockIds
                                    /\ c.item # Keep => c.item \in Items
                                    /\ c.quantity # Keep => c.quantity \in Int /\ c.quantity >= 0
         /\ c.op = "deleteStock" => c.stock \in StockIds
         /\ c.op = "createAdjustment" => c.stock \in StockIds /\ c.quantity \in Int
         /\ c.op = "createTransfer" => /\ c.from \in Warehouses /\ c.to \in Warehouses
                                       /\ c.item \in Items /\ c.quantity \in Amounts
         /\ c.op = "updateTransferStatus" => /\ c.transfer \in TransferIds
                                             /\ c.status \in TransferStatuses
         /\ c.op = "updateOpnameStatus" => /\ c.opname \in OpnameIds
                                           /\ c.status \in OpnameStatuses
  BY AmountsAreNumbers
     DEF Calls, CreateStockCall, UpdateStockCall, DeleteStockCall, AdjustmentCall,
         CreateTransferCall, TransferStatusCall, CreateOpnameCall, OpnameStatusCall

\* The empty memory of a request is a legal one.
LEMMA NothingSeenLegal ==
  ASSUME NEW r \in Requests
  PROVE  /\ NothingSeen(r) \in Seen
         /\ NothingSeen(r).row.quantity \in Quantity
         /\ NothingSeen(r).destRow.quantity \in Quantity
  BY TypesAssumption DEF NothingSeen, Seen, StockIds

THEOREM InitEstablishes == Init => IInv
<1> SUFFICES ASSUME Init PROVE IInv
  OBVIOUS
<1>1. TypeOK
  BY TypesAssumption, NothingSeenLegal DEF Init, TypeOK, NoCall
<1>2. QuantityInRange
  BY TypesAssumption DEF Init, QuantityInRange
<1>3. SeenLegal
  BY NothingSeenLegal DEF Init, SeenLegal
<1>4. AdjustmentCovered /\ CompletionCovered
  BY DEF Init, AdjustmentCovered, CompletionCovered, Completing
<1>5. RequestsWellFormed
  BY TypesAssumption DEF Init, RequestsWellFormed, InTx
<1> QED
  BY <1>1, <1>2, <1>3, <1>4, <1>5 DEF IInv

-----------------------------------------------------------------------------
\* A request that rolls back leaves the invariant alone.
LEMMA FailStep ==
  ASSUME IInv, NEW r \in Requests, Fail(r)
  PROVE  IInv'
<1> USE DEF IInv, Fail, Finish, Advance, tables
<1>1. TypeOK'
  BY NothingSeenLegal DEF TypeOK, Answered
<1>2. QuantityInRange'
  BY DEF QuantityInRange
<1>3. SeenLegal'
  BY NothingSeenLegal DEF SeenLegal, TypeOK
<1>4. AdjustmentCovered' /\ CompletionCovered'
  BY DEF AdjustmentCovered, CompletionCovered, Completing, TypeOK
<1>5. RequestsWellFormed'
  BY DEF RequestsWellFormed, TypeOK, InTx, Answered
<1> QED
  BY <1>1, <1>2, <1>3, <1>4, <1>5

\* A lookup changes only the request's own label and memory.
LEMMA AdvanceStep ==
  ASSUME IInv, NEW r \in Requests, NEW label \in InTx, pc[r] \in InTx,
         Advance(r, label), UNCHANGED tables, NEW new \in Seen,
         new.row.quantity \in Quantity, new.destRow.quantity \in Quantity,
         seen' = [seen EXCEPT ![r] = new],
         label = "looked" /\ call[r].op = "createAdjustment" =>
            Adjusted(call[r], new.row.quantity) >= 0,
         label = "looked" /\ call[r].op = "updateTransferStatus" =>
            transfer[call[r].transfer].status # "none",
         label \in {"sourced", "debited", "matched"} =>
            /\ call[r].op = "updateTransferStatus"
            /\ transfer[call[r].transfer].status # "none"
            /\ transfer[call[r].transfer].quantity <= new.row.quantity
  PROVE  IInv'
<1> USE DEF IInv, Advance, tables
<1>1. TypeOK'
  BY DEF TypeOK
<1>2. QuantityInRange'
  BY DEF QuantityInRange
<1>3. SeenLegal'
  BY DEF SeenLegal, TypeOK
<1>4. AdjustmentCovered'
  BY DEF AdjustmentCovered, TypeOK
<1>5. CompletionCovered'
  BY DEF CompletionCovered, Completing, TypeOK
<1>6. RequestsWellFormed'
  BY DEF RequestsWellFormed, TypeOK, InTx, Answered
<1> QED
  BY <1>1, <1>2, <1>3, <1>4, <1>5, <1>6

\* A successful request writes legal rows and keeps every row of a transfer
\* that exists, up to its status.
LEMMA CommitStep ==
  ASSUME IInv, NEW r \in Requests, pc[r] \in InTx, Finish(r, "ok"),
         stock' \in [StockIds -> StockRow],
         \A s \in StockIds : stock'[s].quantity \in Quantity,
         transfer' \in [TransferIds -> TransferRow],
         \A t \in TransferIds :
            transfer[t].status # "none" =>
               transfer'[t].status # "none" /\ transfer'[t].quantity = transfer[t].quantity,
         \A q \in Requests \ {r} :
            transfer[q].status = "none" => transfer'[q].status = "none",
         opname' \in [OpnameIds -> OpnameStatuses \cup {"none"}],
         adjustments' \subseteq Requests
  PROVE  IInv'
<1> USE DEF IInv, Finish, Advance
<1>1. TypeOK'
  BY NothingSeenLegal DEF TypeOK, Answered
<1>2. QuantityInRange'
  BY DEF QuantityInRange
<1>3. SeenLegal'
  BY NothingSeenLegal DEF SeenLegal, TypeOK
<1>4. AdjustmentCovered'
  BY DEF AdjustmentCovered, TypeOK
<1>5. CompletionCovered'
  <2> SUFFICES ASSUME NEW q \in Requests,
                      \/ pc'[q] = "looked" /\ call'[q].op = "updateTransferStatus"
                      \/ Completing(q)'
               PROVE  /\ transfer'[call'[q].transfer].status # "none"
                      /\ Completing(q)' =>
                           /\ call'[q].op = "updateTransferStatus"
                           /\ transfer'[call'[q].transfer].quantity <= seen'[q].row.quantity
    BY DEF CompletionCovered
  <2>1. q # r /\ pc'[q] = pc[q] /\ call'[q] = call[q] /\ seen'[q] = seen[q]
    BY DEF Completing, TypeOK
  <2>2. /\ call[q].op = "updateTransferStatus" /\ transfer[call[q].transfer].status # "none"
        /\ Completing(q) => transfer[call[q].transfer].quantity <= seen[q].row.quantity
    BY <2>1 DEF CompletionCovered, Completing
  <2>3. call[q].transfer \in TransferIds
    <3>1. call[q] \in Calls
      BY <2>1 DEF RequestsWellFormed, Completing, InTx
    <3> QED
      BY <3>1, <2>2, CallFields
  <2> QED
    BY <2>1, <2>2, <2>3 DEF Completing
<1>6. RequestsWellFormed'
  BY DEF RequestsWellFormed, TypeOK, InTx, Answered
<1> QED
  BY <1>1, <1>2, <1>3, <1>4, <1>5, <1>6

-----------------------------------------------------------------------------
\* What the invariant says of the request that takes a step.
LEMMA RequestFacts ==
  ASSUME IInv, NEW r \in Requests, pc[r] \in InTx
  PROVE  /\ call[r] \in Calls
         /\ seen[r] \in Seen
         /\ seen[r].row.quantity \in Quantity
         /\ seen[r].destRow.quantity \in Quantity
         /\ r \in StockIds /\ r \in TransferIds /\ r \in OpnameIds
         /\ transfer[r].status = "none"
  BY DEF IInv, TypeOK, RequestsWellFormed, SeenLegal, StockIds, TransferIds,
         OpnameIds, InTx, Answered

LEMMA StartStep ==
  ASSUME IInv, NEW r \in Requests, NEW c \in Workload, Start(r, c)
  PROVE  IInv'
<1> USE DEF IInv, Start, tables
<1>0. c \in Calls
  BY TypesAssumption
<1>1. TypeOK'
  BY <1>0 DEF TypeOK, InTx
<1>2. QuantityInRange' /\ SeenLegal'
  BY DEF QuantityInRange, SeenLegal
<1>3. AdjustmentCovered' /\ CompletionCovered'
  BY DEF AdjustmentCovered, CompletionCovered, Completing, TypeOK
<1>4. RequestsWellFormed'
  BY <1>0 DEF RequestsWellFormed, TypeOK, InTx, Answered
<1> QED
  BY <1>1, <1>2, <1>3, <1>4

LEMMA CheckInsertStep ==
  ASSUME IInv, NEW r \in Requests, CheckInsert(r)
  PROVE  IInv'
<1>1. CASE Fail(r)
  BY <1>1, FailStep
<1>2. CASE Advance(r, "looked") /\ UNCHANGED <<tables, seen>>
  <2>1. pc[r] \in InTx /\ call[r].op \in {"createStock", "createOpname"}
    BY DEF CheckInsert, InTx
  <2>2. seen' = [seen EXCEPT ![r] = seen[r]]
    BY <1>2 DEF IInv, TypeOK
  <2> QED
    BY <1>2, <2>1, <2>2, RequestFacts, AdvanceStep DEF InTx
<1> QED
  BY <1>1, <1>2 DEF CheckInsert

LEMMA FindStockStep ==
  ASSUME IInv, NEW r \in Requests, FindStock(r)
  PROVE  IInv'
<1> DEFINE s == call[r].stock
           new == [seen[r] EXCEPT !.source = s, !.row = stock[s]]
<1>1. CASE Fail(r)
  BY <1>1, FailStep
<1>2. CASE /\ Visible(s) /\ ~Insufficient(call[r], stock[s].quantity)
           /\ Advance(r, "looked")
           /\ seen' = [seen EXCEPT ![r].source = s, ![r].row = stock[s]]
           /\ UNCHANGED tables
  <2>1. pc[r] \in InTx /\ call[r].op \in {"updateStock", "deleteStock", "createAdjustment"}
    BY DEF FindStock, InTx
  <2>2. s \in StockIds
    BY <2>1, RequestFacts, CallFields
  <2>3. /\ new \in Seen /\ new.row.quantity \in Quantity
        /\ new.destRow.quantity \in Quantity /\ new.row = stock[s]
    BY <2>1, <2>2, RequestFacts DEF IInv, TypeOK, Seen, QuantityInRange
  <2>4. seen' = [seen EXCEPT ![r] = new]
    BY <1>2 DEF IInv, TypeOK
  <2>5. call[r].op = "createAdjustment" => Adjusted(call[r], new.row.quantity) >= 0
    <3>1. call[r].op = "createAdjustment" =>
            Adjusted(call[r], stock[s].quantity) \in Int
      BY <2>1, <2>2, RequestFacts, CallFields, AmountsAreNumbers
         DEF Adjusted, IInv, QuantityInRange
    <3> QED
      BY <1>2, <2>3, <3>1 DEF Insufficient
  <2> HIDE DEF s, new
  <2> QED
    BY <1>2, <2>1, <2>3, <2>4, <2>5, AdvanceStep DEF InTx
<1> QED
  BY <1>1, <1>2 DEF FindStock

LEMMA CheckTransferStep ==
  ASSUME IInv, NEW r \in Requests, CheckTransfer(r)
  PROVE  IInv'
<1>1. CASE Fail(r)
  BY <1>1, FailStep
<1>2. CASE Advance(r, "looked") /\ UNCHANGED <<tables, seen>>
  <2>1. pc[r] \in InTx /\ call[r].op = "createTransfer"
    BY DEF CheckTransfer, InTx
  <2>2. seen' = [seen EXCEPT ![r] = seen[r]]
    BY <1>2 DEF IInv, TypeOK
  <2> QED
    BY <1>2, <2>1, <2>2, RequestFacts, AdvanceStep DEF InTx
<1> QED
  BY <1>1, <1>2 DEF CheckTransfer

LEMMA FindTransferStep ==
  ASSUME IInv, NEW r \in Requests, FindTransfer(r)
  PROVE  IInv'
<1> DEFINE status == transfer[call[r].transfer].status
           new == [seen[r] EXCEPT !.status = status]
<1>1. CASE Fail(r)
  BY <1>1, FailStep
<1>2. CASE /\ status # "none"
           /\ Advance(r, "looked")
           /\ seen' = [seen EXCEPT ![r].status = status]
           /\ UNCHANGED tables
  <2>1. pc[r] \in InTx /\ call[r].op = "updateTransferStatus"
    BY DEF FindTransfer, InTx
  <2>2. status \in TransferStatuses
    BY <1>2, <2>1, RequestFacts, CallFields DEF IInv, TypeOK, TransferRow
  <2>3. new \in Seen /\ new.row.quantity \in Quantity /\ new.destRow.quantity \in Quantity
    BY <2>1, <2>2, RequestFacts DEF Seen
  <2>4. seen' = [seen EXCEPT ![r] = new]
    BY <1>2 DEF IInv, TypeOK
  <2> HIDE DEF new
  <2> QED
    BY <1>2, <2>1, <2>3, <2>4, AdvanceStep DEF InTx
<1> QED
  BY <1>1, <1>2 DEF FindTransfer

LEMMA FindOpnameStep ==
  ASSUME IInv, NEW r \in Requests, FindOpname(r)
  PROVE  IInv'
<1> DEFINE status == opname[call[r].opname]
           new == [seen[r] EXCEPT !.status = status]
<1>1. CASE Fail(r)
  BY <1>1, FailStep
<1>2. CASE /\ status \notin {"none", "completed"}
           /\ Advance(r, "looked")
           /\ seen' = [seen EXCEPT ![r].status = status]
           /\ UNCHANGED tables
  <2>1. pc[r] \in InTx /\ call[r].op = "updateOpnameStatus"
    BY DEF FindOpname, InTx
  <2>2. status \in OpnameStatuses
    BY <1>2, <2>1, RequestFacts, CallFields DEF IInv, TypeOK
  <2>3. new \in Seen /\ new.row.quantity \in Quantity /\ new.destRow.quantity \in Quantity
    BY <2>1, <2>2, RequestFacts DEF Seen
  <2>4. seen' = [seen EXCEPT ![r] = new]
    BY <1>2 DEF IInv, TypeOK
  <2> HIDE DEF new
  <2> QED
    BY <1>2, <2>1, <2>3, <2>4, AdvanceStep DEF InTx
<1> QED
  BY <1>1, <1>2 DEF FindOpname

LEMMA FindSourceStep ==
  ASSUME IInv, NEW r \in Requests, FindSource(r)
  PROVE  IInv'
<1> DEFINE t == transfer[call[r].transfer]
<1>0. pc[r] = "looked" /\ pc[r] \in InTx /\ call[r].op = "updateTransferStatus"
  BY DEF FindSource, InTx
<1>1. CASE Fail(r)
  BY <1>1, FailStep
<1>2. ASSUME NEW s \in Matching(t.from, t.item), stock[s].quantity >= t.quantity,
             Advance(r, "sourced"),
             seen' = [seen EXCEPT ![r].source = s, ![r].row = stock[s]],
             UNCHANGED tables
      PROVE  IInv'
  <2> DEFINE new == [seen[r] EXCEPT !.source = s, !.row = stock[s]]
  <2>1. s \in StockIds
    BY DEF Matching
  <2>2. /\ new \in Seen /\ new.row.quantity \in Quantity
        /\ new.destRow.quantity \in Quantity /\ new.row = stock[s]
    BY <1>0, <2>1, RequestFacts DEF IInv, TypeOK, Seen, QuantityInRange
  <2>3. seen' = [seen EXCEPT ![r] = new]
    BY <1>2 DEF IInv, TypeOK
  <2>4. t.status # "none"
    BY <1>0 DEF IInv, CompletionCovered
  <2>5. t.quantity <= new.row.quantity
    <3>1. t.quantity \in Int /\ stock[s].quantity \in Int
      BY <1>0, <2>1, RequestFacts, CallFields, AmountsAreNumbers
         DEF IInv, TypeOK, TransferRow, StockRow
    <3> QED
      BY <1>2, <2>2, <3>1
  <2> HIDE DEF new
  <2> QED
    BY <1>0, <1>2, <2>2, <2>3, <2>4, <2>5, AdvanceStep DEF InTx
<1> QED
  BY <1>1, <1>2 DEF FindSource

\* DebitSource and FindDestination keep what FindSource established.
LEMMA DebitSourceStep ==
  ASSUME IInv, NEW r \in Requests, DebitSource(r)
  PROVE  IInv'
<1>1. pc[r] \in InTx /\ Completing(r)
  BY DEF DebitSource, InTx, Completing
<1>2. seen' = [seen EXCEPT ![r] = seen[r]]
  BY DEF DebitSource, IInv, TypeOK
<1>3. /\ call[r].op = "updateTransferStatus"
      /\ transfer[call[r].transfer].status # "none"
      /\ transfer[call[r].transfer].quantity <= seen[r].row.quantity
  BY <1>1 DEF IInv, CompletionCovered
<1> QED
  BY <1>1, <1>2, <1>3, RequestFacts, AdvanceStep DEF DebitSource, InTx

LEMMA FindDestinationStep ==
  ASSUME IInv, NEW r \in Requests, FindDestination(r)
  PROVE  IInv'
<1> DEFINE t == transfer[call[r].transfer]
<1>1. pc[r] \in InTx /\ Completing(r)
  BY DEF FindDestination, InTx, Completing
<1>2. /\ call[r].op = "updateTransferStatus"
      /\ t.status # "none" /\ t.quantity <= seen[r].row.quantity
  BY <1>1 DEF IInv, CompletionCovered
<1>3. Advance(r, "matched") /\ UNCHANGED tables
  BY DEF FindDestination
<1>4. CASE UNCHANGED seen
  <2>1. seen' = [seen EXCEPT ![r] = seen[r]]
    BY <1>4 DEF IInv, TypeOK
  <2> QED
    BY <1>1, <1>2, <1>3, <2>1, RequestFacts, AdvanceStep DEF InTx
<1>5. ASSUME NEW d \in Matching(t.to, t.item),
             seen' = [seen EXCEPT ![r].dest = d, ![r].destRow = stock[d]]
      PROVE  IInv'
  <2> DEFINE new == [seen[r] EXCEPT !.dest = d, !.destRow = stock[d]]
  <2>1. d \in StockIds
    BY DEF Matching
  <2>2. /\ new \in Seen /\ new.row.quantity \in Quantity
        /\ new.destRow.quantity \in Quantity /\ new.row = seen[r].row
    BY <1>1, <2>1, RequestFacts DEF IInv, TypeOK, Seen, QuantityInRange
  <2>3. seen' = [seen EXCEPT ![r] = new]
    BY <1>5 DEF IInv, TypeOK
  <2> HIDE DEF new
  <2> QED
    BY <1>1, <1>2, <1>3, <2>2, <2>3, AdvanceStep DEF InTx
<1> QED
  BY <1>4, <1>5 DEF FindDestination

-----------------------------------------------------------------------------
\* The writes.

LEMMA InsertStockStep ==
  ASSUME IInv, NEW r \in Requests, InsertStock(r)
  PROVE  IInv'
<1>1. CASE Fail(r)
  BY <1>1, FailStep
<1>2. CASE ~Fail(r)
  <2> DEFINE row == [exists |-> TRUE, isDeleted |-> FALSE,
                     warehouse |-> call[r].warehouse, item |-> call[r].item,
                     quantity |-> call[r].quantity]
  <2>1. /\ pc[r] \in InTx /\ call[r].op = "createStock" /\ Finish(r, "ok")
        /\ call[r].quantity <= MaxQuantity
        /\ stock' = [stock EXCEPT ![r] = row]
        /\ UNCHANGED <<transfer, opname, adjustments>>
    BY <1>2 DEF InsertStock, InTx
  <2>2. row \in StockRow /\ row.quantity \in Quantity
    BY <2>1, RequestFacts, CallFields, TypesAssumption DEF StockRow, Quantity
  <2> HIDE DEF row
  <2>3. stock' \in [StockIds -> StockRow] /\ \A s \in StockIds : stock'[s].quantity \in Quantity
    BY <2>1, <2>2 DEF IInv, TypeOK, QuantityInRange
  <2> QED
    BY <2>1, <2>3, CommitStep DEF IInv, TypeOK
<1> QED
  BY <1>1, <1>2

LEMMA SaveStockStep ==
  ASSUME IInv, NEW r \in Requests, SaveStock(r)
  PROVE  IInv'
<1>1. CASE Fail(r)
  BY <1>1, FailStep
<1>2. CASE ~Fail(r)
  <2> DEFINE s        == seen[r].source
             row      == seen[r].row
             item     == IF call[r].item = Keep THEN row.item ELSE call[r].item
             quantity == IF call[r].quantity = Keep THEN row.quantity ELSE call[r].quantity
             new      == Overwritten(s, row, item, quantity)
  <2>1. /\ pc[r] \in InTx /\ call[r].op = "updateStock" /\ Finish(r, "ok")
        /\ quantity <= MaxQuantity
        /\ stock' = [stock EXCEPT ![s] = new]
        /\ UNCHANGED <<transfer, opname, adjustments>>
    BY <1>2 DEF SaveStock, InTx
  <2>2. s \in StockIds /\ row \in StockRow /\ row.quantity \in Quantity
    BY <2>1, RequestFacts DEF Seen
  <2>3. item \in Items /\ quantity \in Quantity
    BY <2>1, <2>2, RequestFacts, CallFields, TypesAssumption DEF StockRow, Quantity
  <2>4. stock[s] \in StockRow /\ stock[s].quantity \in Quantity
    BY <2>2 DEF IInv, TypeOK, QuantityInRange
  <2>5. new \in StockRow /\ new.quantity \in Quantity
    <3> HIDE DEF s, row, item, quantity
    <3> QED
      BY <2>3, <2>4, AmountsAreNumbers DEF Overwritten, Saved, StockRow
  <2> HIDE DEF s, new
  <2>6. stock' \in [StockIds -> StockRow] /\ \A x \in StockIds : stock'[x].quantity \in Quantity
    BY <2>1, <2>5 DEF IInv, TypeOK, QuantityInRange
  <2> QED
    BY <2>1, <2>6, CommitStep DEF IInv, TypeOK
<1> QED
  BY <1>1, <1>2

LEMMA DeleteStockStep ==
  ASSUME IInv, NEW r \in Requests, DeleteStock(r)
  PROVE  IInv'
<1>1. /\ pc[r] \in InTx /\ Finish(r, "ok")
      /\ UNCHANGED <<transfer, opname, adjustments>>
  BY DEF DeleteStock, InTx
<1>2. stock' = stock
  BY DEF DeleteStock, SoftDelete, IInv, TypeOK
<1> QED
  BY <1>1, <1>2, CommitStep DEF IInv, TypeOK, QuantityInRange

LEMMA AdjustStockStep ==
  ASSUME IInv, NEW r \in Requests, AdjustStock(r)
  PROVE  IInv'
<1>1. CASE Fail(r)
  BY <1>1, FailStep
<1>2. CASE ~Fail(r)
  <2> DEFINE s        == seen[r].source
             quantity == Adjusted(call[r], seen[r].row.quantity)
  <2>1. /\ pc[r] = "looked" /\ pc[r] \in InTx /\ call[r].op = "createAdjustment"
        /\ Finish(r, "ok") /\ quantity <= MaxQuantity
        /\ stock' = [stock EXCEPT ![s].quantity = quantity]
        /\ adjustments' = adjustments \cup {r}
        /\ UNCHANGED <<transfer, opname>>
    BY <1>2 DEF AdjustStock, InTx
  <2>2. quantity \in Int /\ s \in StockIds
    BY <2>1, RequestFacts, CallFields, AmountsAreNumbers DEF Adjusted, Seen
  <2>3. quantity \in Quantity
    BY <2>1, <2>2, TypesAssumption DEF IInv, AdjustmentCovered, Quantity
  <2> HIDE DEF s, quantity
  <2>4. stock' \in [StockIds -> StockRow] /\ \A x \in StockIds : stock'[x].quantity \in Quantity
    BY <2>1, <2>2, <2>3, AmountsAreNumbers DEF IInv, TypeOK, QuantityInRange, StockRow
  <2> QED
    BY <2>1, <2>4, CommitStep DEF IInv, TypeOK
<1> QED
  BY <1>1, <1>2

LEMMA InsertTransferStep ==
  ASSUME IInv, NEW r \in Requests, InsertTransfer(r)
  PROVE  IInv'
<1> DEFINE row == [status |-> "pending", from |-> call[r].from, to |-> call[r].to,
                   item |-> call[r].item, quantity |-> call[r].quantity]
<1>1. /\ pc[r] \in InTx /\ call[r].op = "createTransfer" /\ Finish(r, "ok")
      /\ transfer' = [transfer EXCEPT ![r] = row]
      /\ UNCHANGED <<stock, opname, adjustments>>
  BY DEF InsertTransfer, InTx
<1>2. row \in TransferRow
  BY <1>1, RequestFacts, CallFields DEF TransferRow, TransferStatuses
<1>3. r \in TransferIds /\ transfer[r].status = "none"
  BY <1>1, RequestFacts
<1> HIDE DEF row
<1>4. /\ transfer' \in [TransferIds -> TransferRow]
      /\ \A t \in TransferIds :
            transfer[t].status # "none" =>
               transfer'[t].status # "none" /\ transfer'[t].quantity = transfer[t].quantity
      /\ \A q \in Requests \ {r} :
            transfer[q].status = "none" => transfer'[q].status = "none"
  BY <1>1, <1>2, <1>3 DEF IInv, TypeOK
<1> QED
  BY <1>1, <1>4, CommitStep DEF IInv, TypeOK, QuantityInRange

\* Changing the status of an existing transfer keeps everything else of it.
LEMMA StatusChange ==
  ASSUME IInv, NEW t \in TransferIds, transfer[t].status # "none",
         NEW status \in TransferStatuses,
         transfer' = [transfer EXCEPT ![t].status = status]
  PROVE  /\ transfer' \in [TransferIds -> TransferRow]
         /\ \A u \in TransferIds :
               transfer[u].status # "none" =>
                  transfer'[u].status # "none" /\ transfer'[u].quantity = transfer[u].quantity
         /\ \A q \in Requests : transfer[q].status = "none" => transfer'[q].status = "none"
  BY DEF IInv, TypeOK, TransferRow, TransferStatuses, TransferIds

LEMMA SetTransferStatusStep ==
  ASSUME IInv, NEW r \in Requests, SetTransferStatus(r)
  PROVE  IInv'
<1> DEFINE t      == call[r].transfer
           status == Saved(call[r].status, seen[r].status, transfer[t].status)
<1>1. /\ pc[r] = "looked" /\ pc[r] \in InTx /\ call[r].op = "updateTransferStatus"
      /\ Finish(r, "ok") /\ UNCHANGED <<stock, opname, adjustments>>
      /\ transfer' = [transfer EXCEPT ![t].status = status]
  BY DEF SetTransferStatus, InTx
<1>2. t \in TransferIds /\ call[r].status \in TransferStatuses
  BY <1>1, RequestFacts, CallFields
<1>3. transfer[t].status # "none"
  BY <1>1 DEF IInv, CompletionCovered
<1>4. status \in TransferStatuses
  BY <1>2, <1>3 DEF Saved, IInv, TypeOK, TransferRow
<1> HIDE DEF t, status
<1> QED
  BY <1>1, <1>2, <1>3, <1>4, StatusChange, CommitStep DEF IInv, TypeOK, QuantityInRange

LEMMA CompleteTransferStep ==
  ASSUME IInv, NEW r \in Requests, CompleteTransfer(r)
  PROVE  IInv'
<1>1. CASE Fail(r)
  BY <1>1, FailStep
<1>2. CASE ~Fail(r)
  <2> DEFINE i        == call[r].transfer
             t        == transfer[i]
             src      == seen[r].source
             dst      == seen[r].dest
             debited  == Debited(r, t.quantity)
             credited == Credited(r, t)
  <2>1. /\ pc[r] = "matched" /\ pc[r] \in InTx /\ Finish(r, "ok")
        /\ credited.quantity <= MaxQuantity
        /\ stock' = [stock EXCEPT ![src] = debited, ![dst] = credited]
        /\ transfer' = [transfer EXCEPT ![i].status = "completed"]
        /\ UNCHANGED <<opname, adjustments>>
    BY <1>2 DEF CompleteTransfer, InTx
  <2>2. /\ call[r].op = "updateTransferStatus" /\ t.status # "none"
        /\ t.quantity <= seen[r].row.quantity
    BY <2>1 DEF IInv, CompletionCovered, Completing
  <2>3. i \in TransferIds
    BY <2>1, <2>2, RequestFacts, CallFields
  <2>4. t \in TransferRow /\ t.quantity \in Int /\ t.quantity > 0
    BY <2>3, AmountsAreNumbers DEF IInv, TypeOK, TransferRow
  <2>5. /\ src \in StockIds /\ dst \in StockIds
        /\ seen[r].row.quantity \in Quantity /\ seen[r].destRow.quantity \in Quantity
    BY <2>1, RequestFacts DEF Seen
  <2>6. stock[src] \in StockRow /\ stock[dst] \in StockRow
    BY <2>5 DEF IInv, TypeOK
  <2>7. debited \in StockRow /\ debited.quantity \in Quantity
    <3>1. seen[r].row.quantity - t.quantity \in Quantity
      BY <2>2, <2>4, <2>5, TypesAssumption DEF Quantity
    <3> QED
      BY <2>6, <3>1, AmountsAreNumbers DEF Debited, StockRow
  <2>8. credited \in StockRow /\ credited.quantity \in Quantity
    <3>1. CASE dst = r
      BY <2>1, <2>4, <3>1, TypesAssumption DEF Credited, StockRow, TransferRow, Quantity
    <3>2. CASE dst # r
      <4> DEFINE sum == seen[r].destRow.quantity + t.quantity
      <4>1. credited = [stock[dst] EXCEPT !.quantity = sum]
        BY <3>2 DEF Credited
      <4>2. sum \in Int /\ sum >= 0
        BY <2>4, <2>5, AmountsAreNumbers
      <4> HIDE DEF sum, credited
      <4>3. credited \in StockRow /\ credited.quantity = sum
        BY <2>6, <4>1, <4>2 DEF StockRow
      <4> QED
        BY <2>1, <4>2, <4>3, TypesAssumption DEF Quantity
    <3> QED
      BY <3>1, <3>2
  <2> HIDE DEF i, t, src, dst, debited, credited
  <2>9. stock' \in [StockIds -> StockRow] /\ \A x \in StockIds : stock'[x].quantity \in Quantity
    BY <2>1, <2>7, <2>8 DEF IInv, TypeOK, QuantityInRange
  <2>10. transfer[i].status # "none" /\ "completed" \in TransferStatuses
    BY <2>2 DEF t, TransferStatuses
  <2> QED
    BY <2>1, <2>3, <2>9, <2>10, StatusChange, CommitStep DEF IInv, TypeOK
<1> QED
  BY <1>1, <1>2

LEMMA OpnameWrites ==
  ASSUME IInv, NEW r \in Requests, InsertOpname(r) \/ SetOpnameStatus(r)
  PROVE  IInv'
<1>1. /\ pc[r] \in InTx /\ Finish(r, "ok") /\ UNCHANGED <<stock, transfer, adjustments>>
  BY DEF InsertOpname, SetOpnameStatus, InTx
<1>2. opname' \in [OpnameIds -> OpnameStatuses \cup {"none"}]
  <2>1. CASE InsertOpname(r)
    BY <2>1 DEF InsertOpname, IInv, TypeOK, OpnameStatuses
  <2>2. CASE SetOpnameStatus(r)
    <3>1. call[r].opname \in OpnameIds /\ call[r].status \in OpnameStatuses
      BY <1>1, <2>2, RequestFacts, CallFields DEF SetOpnameStatus
    <3>2. Saved(call[r].status, seen[r].status, opname[call[r].opname])
            \in OpnameStatuses \cup {"none"}
      BY <3>1 DEF Saved, IInv, TypeOK
    <3> QED
      BY <2>2, <3>1, <3>2 DEF SetOpnameStatus, IInv, TypeOK
  <2> QED
    BY <2>1, <2>2
<1> QED
  BY <1>1, <1>2, CommitStep DEF IInv, TypeOK, QuantityInRange

-----------------------------------------------------------------------------
THEOREM NextPreserves == IInv /\ [Next]_vars => IInv'
<1> SUFFICES ASSUME IInv, [Next]_vars PROVE IInv'
  OBVIOUS
<1>1. CASE UNCHANGED vars
  BY <1>1 DEF vars, IInv, TypeOK, QuantityInRange, SeenLegal, AdjustmentCovered,
              CompletionCovered, Completing, RequestsWellFormed
<1>2. ASSUME NEW r \in Requests, NEW c \in Workload, Start(r, c)
      PROVE  IInv'
  BY <1>2, StartStep
<1>3. ASSUME NEW r \in Requests, AcquireTimeout(r) \/ DeadlockVictim(r) \/ DatabaseError(r)
      PROVE  IInv'
  BY <1>3, FailStep DEF AcquireTimeout, DeadlockVictim, DatabaseError
<1>4. ASSUME NEW r \in Requests, Lookup(r)
      PROVE  IInv'
  BY <1>4, CheckInsertStep, FindStockStep, CheckTransferStep, FindTransferStep,
     FindSourceStep, FindOpnameStep DEF Lookup
<1>5. ASSUME NEW r \in Requests, StockWrite(r)
      PROVE  IInv'
  BY <1>5, InsertStockStep, SaveStockStep, DeleteStockStep, AdjustStockStep DEF StockWrite
<1>6. ASSUME NEW r \in Requests, Completion(r)
      PROVE  IInv'
  BY <1>6, DebitSourceStep, FindDestinationStep, CompleteTransferStep DEF Completion
<1>7. ASSUME NEW r \in Requests, StatusWrite(r)
      PROVE  IInv'
  BY <1>7, InsertTransferStep, SetTransferStatusStep, OpnameWrites DEF StatusWrite
<1> QED
  BY <1>1, <1>2, <1>3, <1>4, <1>5, <1>6, <1>7 DEF Next, Proceed

\* The inductive invariant holds throughout.
THEOREM Inductive == Spec => []IInv
  BY InitEstablishes, NextPreserves, PTL DEF Spec

\* Rows, calls and in-memory instances stay well typed, whatever interleaves.
THEOREM TypeCorrect == Spec => []TypeOK
<1>1. IInv => TypeOK
  BY DEF IInv
<1> QED
  BY <1>1, Inductive, PTL

\* No interleaving of requests commits a negative quantity, or one that the
\* column cannot hold.
THEOREM QuantityNeverNegative == Spec => []QuantityInRange
<1>1. IInv => QuantityInRange
  BY DEF IInv
<1> QED
  BY <1>1, Inductive, PTL

-----------------------------------------------------------------------------
\* Every change of the tables is the commit of one request that was in a
\* transaction and is then answered with success.
THEOREM AllOrNothingHolds == Spec => AllOrNothing
<1> DEFINE A == tables' # tables => \E r \in Requests : pc[r] \in InTx /\ pc'[r] = "ok"
<1>1. IInv /\ [Next]_vars => [A]_vars
  <2> SUFFICES ASSUME IInv, Next PROVE A
    OBVIOUS
  <2>1. ASSUME NEW r \in Requests, pc[r] \in InTx, Finish(r, "ok")
        PROVE  A
    BY <2>1 DEF Finish, Advance, IInv, TypeOK
  <2>2. ASSUME NEW r \in Requests, Fail(r)
        PROVE  A
    BY <2>2 DEF Fail
  <2>3. ASSUME NEW r \in Requests, NEW c \in Workload, Start(r, c)
        PROVE  A
    BY <2>3 DEF Start, tables
  <2>4. ASSUME NEW r \in Requests, AcquireTimeout(r) \/ DeadlockVictim(r) \/ DatabaseError(r)
        PROVE  A
    BY <2>2, <2>4 DEF AcquireTimeout, DeadlockVictim, DatabaseError
  <2>5. ASSUME NEW r \in Requests, Lookup(r)
        PROVE  A
    BY <2>2, <2>5 DEF Lookup, CheckInsert, FindStock, CheckTransfer, FindTransfer,
                      FindSource, FindOpname, tables
  <2>6. ASSUME NEW r \in Requests, StockWrite(r) \/ StatusWrite(r)
        PROVE  A
    BY <2>1, <2>2, <2>6 DEF StockWrite, InsertStock, SaveStock, DeleteStock, AdjustStock,
         StatusWrite, InsertTransfer, SetTransferStatus, InsertOpname, SetOpnameStatus, InTx
  <2>7. ASSUME NEW r \in Requests, Completion(r)
        PROVE  A
    BY <2>1, <2>2, <2>7 DEF Completion, DebitSource, FindDestination, CompleteTransfer,
                            tables, InTx
  <2> QED
    BY <2>3, <2>4, <2>5, <2>6, <2>7 DEF Next, Proceed
<1> QED
  BY <1>1, Inductive, PTL DEF Spec, AllOrNothing

-----------------------------------------------------------------------------
(***************************************************************************)
(* Completing a transfer moves its units: the property CompletionPays.     *)
(*                                                                         *)
(* A completion remembers two rows and updates them several steps later.   *)
(* It pays because rows and transfers never move: nothing that other       *)
(* requests do takes the remembered rows out of their warehouses, and the  *)
(* two warehouses of a transfer differ.                                    *)
(***************************************************************************)

\* A transfer goes from one warehouse to another one.
Apart ==
    /\ \A t \in TransferIds :
          transfer[t].status # "none" => transfer[t].from # transfer[t].to
    /\ \A r \in Requests :
          pc[r] = "looked" /\ call[r].op = "createTransfer" => call[r].from # call[r].to

\* The row named after a request is inserted by its commit.
NotYetInserted == \A r \in Requests : pc[r] \notin Answered => ~stock[r].exists

\* Only the last lookup of a completion finds a destination row.
NoDestinationYet == \A r \in Requests : pc[r] # "matched" => seen[r].dest = r

\* The rows a completion has found are still where it found them, and were
\* rows of the transferred item when it read them.
InPlace ==
    \A r \in Requests :
        LET t == transfer[call[r].transfer] IN
        /\ Completing(r) => /\ stock[seen[r].source].exists
                            /\ stock[seen[r].source].warehouse = t.from
                            /\ seen[r].row.item = t.item
        /\ pc[r] = "matched" /\ seen[r].dest # r =>
              /\ stock[seen[r].dest].exists
              /\ stock[seen[r].dest].warehouse = t.to
              /\ seen[r].destRow.item = t.item

Placed == Apart /\ NotYetInserted /\ NoDestinationYet /\ InPlace

-----------------------------------------------------------------------------
\* A completion under way is one of a transfer that exists.
LEMMA CompletingFacts ==
  ASSUME IInv, NEW r \in Requests, Completing(r)
  PROVE  /\ call[r].op = "updateTransferStatus"
         /\ call[r].transfer \in TransferIds
         /\ transfer[call[r].transfer].status # "none"
         /\ seen[r].source \in StockIds /\ seen[r].dest \in StockIds
<1>1. call[r].op = "updateTransferStatus" /\ transfer[call[r].transfer].status # "none"
  BY DEF IInv, CompletionCovered
<1>2. call[r] \in Calls
  BY DEF IInv, RequestsWellFormed, Completing, InTx
<1>3. seen[r] \in Seen
  BY DEF IInv, TypeOK
<1> QED
  BY <1>1, <1>2, <1>3, CallFields DEF Seen

LEMMA InitPlaced == Init => Placed
  BY TypesAssumption DEF Init, Placed, Apart, NotYetInserted, NoDestinationYet, InPlace,
     Completing, StockIds, TransferIds, Answered, NothingSeen

\* A step that leaves the tables alone: what the request has now found is in
\* place, and the other requests have found nothing new.
LEMMA QuietStep ==
  ASSUME IInv, Placed, NEW r \in Requests, UNCHANGED tables,
         \A q \in Requests \ {r} :
            pc'[q] = pc[q] /\ call'[q] = call[q] /\ seen'[q] = seen[q],
         pc[r] \notin Answered \/ pc'[r] \in Answered,
         pc'[r] = "looked" /\ call'[r].op = "createTransfer" => call'[r].from # call'[r].to,
         pc'[r] # "matched" => seen'[r].dest = r,
         Completing(r)' =>
            /\ stock[seen'[r].source].exists
            /\ stock[seen'[r].source].warehouse = transfer[call'[r].transfer].from
            /\ seen'[r].row.item = transfer[call'[r].transfer].item,
         pc'[r] = "matched" /\ seen'[r].dest # r =>
            /\ stock[seen'[r].dest].exists
            /\ stock[seen'[r].dest].warehouse = transfer[call'[r].transfer].to
            /\ seen'[r].destRow.item = transfer[call'[r].transfer].item
  PROVE  Placed'
<1> USE DEF Placed, tables
<1>1. Apart'
  BY DEF Apart
<1>2. NotYetInserted' /\ NoDestinationYet'
  BY DEF NotYetInserted, NoDestinationYet
<1>3. InPlace'
  <2> SUFFICES ASSUME NEW q \in Requests
               PROVE  LET t == transfer'[call'[q].transfer] IN
                      /\ Completing(q)' => /\ stock'[seen'[q].source].exists
                                           /\ stock'[seen'[q].source].warehouse = t.from
                                           /\ seen'[q].row.item = t.item
                      /\ pc'[q] = "matched" /\ seen'[q].dest # q =>
                            /\ stock'[seen'[q].dest].exists
                            /\ stock'[seen'[q].dest].warehouse = t.to
                            /\ seen'[q].destRow.item = t.item
    BY DEF InPlace
  <2>1. CASE q = r
    BY <2>1
  <2>2. CASE q # r
    BY <2>2 DEF InPlace, Completing
  <2> QED
    BY <2>1, <2>2
<1> QED
  BY <1>1, <1>2, <1>3

\* A commit that keeps every row and every transfer where it is.
LEMMA LoudStep ==
  ASSUME IInv, Placed, NEW r \in Requests, pc[r] \in InTx, Finish(r, "ok"),
         \A s \in StockIds : stock[s].exists =>
            stock'[s].exists /\ stock'[s].warehouse = stock[s].warehouse,
         \A q \in Requests \ {r} : ~stock[q].exists => ~stock'[q].exists,
         \A t \in TransferIds : transfer[t].status # "none" =>
            /\ transfer'[t].from = transfer[t].from /\ transfer'[t].to = transfer[t].to
            /\ transfer'[t].item = transfer[t].item,
         \A t \in TransferIds : transfer[t].status = "none" =>
            transfer'[t].status = "none" \/ transfer'[t].from # transfer'[t].to
  PROVE  Placed'
<1>0. /\ pc'[r] = "ok" /\ call' = call /\ seen'[r].dest = r
      /\ \A q \in Requests \ {r} : pc'[q] = pc[q] /\ seen'[q] = seen[q]
  BY DEF Finish, Advance, IInv, TypeOK, NothingSeen
<1>1. Apart'
  BY <1>0 DEF Placed, Apart
<1>2. NotYetInserted' /\ NoDestinationYet'
  BY <1>0 DEF Placed, NotYetInserted, NoDestinationYet, Answered
<1>3. InPlace'
  <2> SUFFICES ASSUME NEW q \in Requests, Completing(q)'
               PROVE  LET t == transfer'[call'[q].transfer] IN
                      /\ stock'[seen'[q].source].exists
                      /\ stock'[seen'[q].source].warehouse = t.from
                      /\ seen'[q].row.item = t.item
                      /\ pc'[q] = "matched" /\ seen'[q].dest # q =>
                            /\ stock'[seen'[q].dest].exists
                            /\ stock'[seen'[q].dest].warehouse = t.to
                            /\ seen'[q].destRow.item = t.item
    BY DEF InPlace, Completing
  <2>1. q # r /\ Completing(q) /\ pc'[q] = pc[q] /\ seen'[q] = seen[q] /\ call'[q] = call[q]
    BY <1>0 DEF Completing
  <2>2. /\ call[q].transfer \in TransferIds
        /\ transfer[call[q].transfer].status # "none"
        /\ seen[q].source \in StockIds /\ seen[q].dest \in StockIds
    BY <2>1, CompletingFacts
  <2> QED
    BY <2>1, <2>2 DEF Placed, InPlace
<1> QED
  BY <1>1, <1>2, <1>3 DEF Placed

-----------------------------------------------------------------------------
LEMMA FailPlaced ==
  ASSUME IInv, Placed, NEW r \in Requests, Fail(r)
  PROVE  Placed'
<1>1. /\ UNCHANGED tables /\ pc'[r] = "error" /\ call' = call /\ seen'[r].dest = r
      /\ \A q \in Requests \ {r} : pc'[q] = pc[q] /\ seen'[q] = seen[q]
  BY DEF Fail, Finish, Advance, IInv, TypeOK, NothingSeen
<1> QED
  BY <1>1, QuietStep DEF Answered, Completing

LEMMA StartPlaced ==
  ASSUME IInv, Placed, NEW r \in Requests, NEW c \in Workload, Start(r, c)
  PROVE  Placed'
<1>1. /\ UNCHANGED tables /\ pc[r] = "idle" /\ pc'[r] = "begun" /\ seen' = seen
      /\ \A q \in Requests \ {r} : pc'[q] = pc[q] /\ call'[q] = call[q]
  BY DEF Start, IInv, TypeOK
<1>2. seen[r].dest = r
  BY <1>1 DEF Placed, NoDestinationYet
<1> QED
  BY <1>1, <1>2, QuietStep DEF Answered, Completing

\* Lookups outside a completion find nothing that has to stay in place.
LEMMA LookupPlaced ==
  ASSUME IInv, Placed, NEW r \in Requests, Lookup(r)
  PROVE  Placed'
<1>1. CASE Fail(r)
  BY <1>1, FailPlaced
<1>2. CASE ~Fail(r) /\ ~FindSource(r)
  <2>1. /\ UNCHANGED tables /\ pc[r] = "begun" /\ pc'[r] = "looked" /\ call' = call
        /\ \A q \in Requests \ {r} : pc'[q] = pc[q] /\ seen'[q] = seen[q]
    BY <1>2 DEF Lookup, CheckInsert, FindStock, CheckTransfer, FindTransfer, FindOpname,
                Advance, IInv, TypeOK
  <2>2. seen'[r].dest = r
    <3>1. seen[r].dest = r /\ seen \in [Requests -> Seen]
      BY <2>1 DEF Placed, NoDestinationYet, IInv, TypeOK
    <3> QED
      BY <1>2, <3>1 DEF Lookup, CheckInsert, FindStock, CheckTransfer, FindTransfer,
                        FindOpname, Seen
  <2>3. call[r].op = "createTransfer" => call[r].from # call[r].to
    BY <1>2 DEF Lookup, CheckInsert, FindStock, CheckTransfer, FindTransfer, FindOpname
  <2> QED
    BY <2>1, <2>2, <2>3, QuietStep DEF Answered, Completing
<1>3. CASE ~Fail(r) /\ FindSource(r)
  <2> DEFINE t == transfer[call[r].transfer]
  <2>1. PICK s \in Matching(t.from, t.item) :
           /\ Advance(r, "sourced") /\ UNCHANGED tables
           /\ seen' = [seen EXCEPT ![r].source = s, ![r].row = stock[s]]
    BY <1>3 DEF FindSource
  <2>2. s \in StockIds /\ stock[s].exists /\ stock[s].warehouse = t.from /\ stock[s].item = t.item
    BY DEF Matching, Visible
  <2>3. /\ pc[r] = "looked" /\ pc'[r] = "sourced" /\ call' = call
        /\ seen'[r].source = s /\ seen'[r].dest = seen[r].dest /\ seen'[r].row = stock[s]
        /\ \A q \in Requests \ {r} : pc'[q] = pc[q] /\ seen'[q] = seen[q]
    <3>1. /\ pc[r] = "looked" /\ pc'[r] = "sourced" /\ call' = call
          /\ \A q \in Requests \ {r} : pc'[q] = pc[q]
      BY <1>3 DEF FindSource, Advance, IInv, TypeOK
    <3>2. seen \in [Requests -> Seen]
      BY DEF IInv, TypeOK
    <3>3. /\ seen'[r].source = s /\ seen'[r].dest = seen[r].dest /\ seen'[r].row = stock[s]
          /\ \A q \in Requests \ {r} : seen'[q] = seen[q]
      BY <2>1, <3>2 DEF Seen
    <3> QED
      BY <3>1, <3>3
  <2>4. seen[r].dest = r
    BY <2>3 DEF Placed, NoDestinationYet
  <2> QED
    BY <2>1, <2>2, <2>3, <2>4, QuietStep DEF Answered
<1> QED
  BY <1>1, <1>2, <1>3

LEMMA StockWritePlaced ==
  ASSUME IInv, Placed, NEW r \in Requests, StockWrite(r)
  PROVE  Placed'
<1>1. CASE Fail(r)
  BY <1>1, FailPlaced
<1>2. CASE ~Fail(r)
  <2>1. pc[r] \in InTx /\ Finish(r, "ok") /\ UNCHANGED <<transfer, opname>>
    BY <1>2 DEF StockWrite, InsertStock, SaveStock, DeleteStock, AdjustStock, InTx
  <2>2. r \in StockIds /\ ~stock[r].exists /\ seen[r].source \in StockIds
    BY <2>1, RequestFacts DEF Placed, NotYetInserted, InTx, Answered, Seen
  <2>3. stock \in [StockIds -> StockRow]
    BY DEF IInv, TypeOK
  <2>4. /\ \A s \in StockIds : stock[s].exists =>
              stock'[s].exists /\ stock'[s].warehouse = stock[s].warehouse
        /\ \A q \in Requests \ {r} : ~stock[q].exists => ~stock'[q].exists
    <3>1. CASE InsertStock(r)
      BY <1>2, <2>2, <2>3, <3>1 DEF InsertStock, StockIds
    <3>2. CASE SaveStock(r)
      <4> DEFINE x == seen[r].source
      <4>1. PICK item, quantity :
               stock' = [stock EXCEPT ![x] = Overwritten(x, seen[r].row, item, quantity)]
        BY <1>2, <3>2 DEF SaveStock
      <4>2. x \in StockIds /\ stock[x] \in StockRow
        BY <2>2, <2>3
      <4>3. /\ stock'[x].exists = stock[x].exists
            /\ stock'[x].warehouse = stock[x].warehouse
        <5>1. \A i, n : LET o == [stock[x] EXCEPT !.item = i, !.quantity = n] IN
                        o.exists = stock[x].exists /\ o.warehouse = stock[x].warehouse
          BY <4>2 DEF StockRow
        <5>2. stock'[x] = Overwritten(x, seen[r].row, item, quantity)
          BY <2>3, <4>1, <4>2
        <5> QED
          BY <5>1, <5>2 DEF Overwritten
      <4>4. \A y \in StockIds \ {x} : stock'[y] = stock[y]
        BY <2>3, <4>1
      <4> QED
        BY <4>3, <4>4 DEF StockIds
    <3>3. CASE DeleteStock(r)
      BY <2>2, <2>3, <3>3 DEF DeleteStock, SoftDelete, StockIds
    <3>4. CASE AdjustStock(r)
      BY <1>2, <2>2, <2>3, <3>4 DEF AdjustStock, StockRow, StockIds
    <3> QED
      BY <3>1, <3>2, <3>3, <3>4 DEF StockWrite
  <2> QED
    BY <2>1, <2>4, LoudStep DEF Placed, Apart
<1> QED
  BY <1>1, <1>2

LEMMA StatusWritePlaced ==
  ASSUME IInv, Placed, NEW r \in Requests, StatusWrite(r)
  PROVE  Placed'
<1>1. /\ pc[r] \in InTx /\ Finish(r, "ok") /\ UNCHANGED stock
  BY DEF StatusWrite, InsertTransfer, SetTransferStatus, InsertOpname, SetOpnameStatus, InTx
<1>2. r \in TransferIds /\ transfer[r].status = "none" /\ call[r] \in Calls
  BY <1>1, RequestFacts
<1>3. transfer \in [TransferIds -> TransferRow]
  BY DEF IInv, TypeOK
<1>4. /\ \A t \in TransferIds : transfer[t].status # "none" =>
            /\ transfer'[t].from = transfer[t].from /\ transfer'[t].to = transfer[t].to
            /\ transfer'[t].item = transfer[t].item
      /\ \A t \in TransferIds : transfer[t].status = "none" =>
            transfer'[t].status = "none" \/ transfer'[t].from # transfer'[t].to
  <2>1. CASE InsertTransfer(r)
    <3>1. call[r].from # call[r].to
      BY <2>1 DEF InsertTransfer, Placed, Apart
    <3> QED
      BY <1>2, <1>3, <2>1, <3>1 DEF InsertTransfer
  <2>2. CASE SetTransferStatus(r)
    <3>1. call[r].transfer \in TransferIds /\ transfer[call[r].transfer].status # "none"
      BY <1>2, <2>2, CallFields DEF SetTransferStatus, IInv, CompletionCovered
    <3> QED
      BY <1>3, <2>2, <3>1 DEF SetTransferStatus, TransferRow
  <2>3. CASE InsertOpname(r) \/ SetOpnameStatus(r)
    BY <2>3 DEF InsertOpname, SetOpnameStatus
  <2> QED
    BY <2>1, <2>2, <2>3 DEF StatusWrite
<1> QED
  BY <1>1, <1>4, LoudStep DEF IInv, TypeOK

-----------------------------------------------------------------------------
\* The two rows of a completion that commits, and what it does to them.
LEMMA CompletionMoves ==
  ASSUME IInv, Placed, NEW r \in Requests, CompleteTransfer(r), ~Fail(r)
  PROVE  LET k == call[r].transfer
             s == seen[r].source
             d == seen[r].dest
         IN  /\ k \in TransferIds /\ s \in StockIds /\ d \in StockIds /\ s # d
             /\ stock[s].exists /\ stock[s].warehouse = transfer[k].from
             /\ d # r => stock[d].exists /\ stock[d].warehouse = transfer[k].to
             /\ seen[r].row.item = transfer[k].item
             /\ d # r => seen[r].destRow.item = transfer[k].item
             /\ stock' = [stock EXCEPT ![s] = Debited(r, transfer[k].quantity),
                                       ![d] = Credited(r, transfer[k])]
             /\ transfer' = [transfer EXCEPT ![k].status = "completed"]
             /\ pc[r] \in InTx /\ Finish(r, "ok")
<1> DEFINE k == call[r].transfer
           s == seen[r].source
           d == seen[r].dest
<1>1. pc[r] = "matched"
  BY DEF CompleteTransfer
<1>2. k \in TransferIds /\ transfer[k].status # "none" /\ s \in StockIds /\ d \in StockIds
  BY <1>1, CompletingFacts DEF Completing
<1>3. /\ stock[s].exists /\ stock[s].warehouse = transfer[k].from
      /\ d # r => stock[d].exists /\ stock[d].warehouse = transfer[k].to
      /\ seen[r].row.item = transfer[k].item
      /\ d # r => seen[r].destRow.item = transfer[k].item
  BY <1>1 DEF Placed, InPlace, Completing
<1>4. s # d
  <2>1. ~stock[r].exists
    BY <1>1 DEF Placed, NotYetInserted, Answered
  <2>2. transfer[k].from # transfer[k].to
    BY <1>2 DEF Placed, Apart
  <2> QED
    BY <1>3, <2>1, <2>2
<1> QED
  BY <1>1, <1>2, <1>3, <1>4 DEF CompleteTransfer, InTx

LEMMA CompletionPlaced ==
  ASSUME IInv, Placed, NEW r \in Requests, Completion(r)
  PROVE  Placed'
<1>1. CASE DebitSource(r)
  <2>1. /\ UNCHANGED <<tables, seen>> /\ pc[r] = "sourced" /\ pc'[r] = "debited" /\ call' = call
        /\ \A q \in Requests \ {r} : pc'[q] = pc[q]
    BY <1>1 DEF DebitSource, Advance, IInv, TypeOK
  <2>2. /\ stock[seen[r].source].exists
        /\ stock[seen[r].source].warehouse = transfer[call[r].transfer].from
        /\ seen[r].row.item = transfer[call[r].transfer].item
    BY <2>1 DEF Placed, InPlace, Completing
  <2>3. seen[r].dest = r
    BY <2>1 DEF Placed, NoDestinationYet
  <2> QED
    BY <2>1, <2>2, <2>3, QuietStep DEF Answered
<1>2. CASE FindDestination(r)
  <2> DEFINE t == transfer[call[r].transfer]
  <2>1. /\ UNCHANGED tables /\ pc[r] = "debited" /\ pc'[r] = "matched" /\ call' = call
        /\ \A q \in Requests \ {r} : pc'[q] = pc[q] /\ seen'[q] = seen[q]
        /\ seen'[r].source = seen[r].source /\ seen'[r].row = seen[r].row
        /\ \/ seen'[r].dest = seen[r].dest
           \/ /\ seen'[r].dest \in Matching(t.to, t.item)
              /\ seen'[r].destRow = stock[seen'[r].dest]
    <3>1. /\ UNCHANGED tables /\ pc[r] = "debited" /\ pc'[r] = "matched" /\ call' = call
          /\ \A q \in Requests \ {r} : pc'[q] = pc[q]
      BY <1>2 DEF FindDestination, Advance, IInv, TypeOK
    <3>2. seen \in [Requests -> Seen]
      BY DEF IInv, TypeOK
    <3>3. CASE UNCHANGED seen
      BY <3>1, <3>3
    <3>4. ASSUME NEW d \in Matching(t.to, t.item),
                 seen' = [seen EXCEPT ![r].dest = d, ![r].destRow = stock[d]]
          PROVE  /\ \A q \in Requests \ {r} : seen'[q] = seen[q]
                 /\ seen'[r].source = seen[r].source /\ seen'[r].dest = d
                 /\ seen'[r].row = seen[r].row /\ seen'[r].destRow = stock[d]
      BY <3>2, <3>4 DEF Seen
    <3> QED
      BY <1>2, <3>1, <3>3, <3>4 DEF FindDestination
  <2>2. /\ stock[seen[r].source].exists /\ stock[seen[r].source].warehouse = t.from
        /\ seen[r].row.item = t.item
    BY <2>1 DEF Placed, InPlace, Completing
  <2>3. seen[r].dest = r
    BY <2>1 DEF Placed, NoDestinationYet
  <2> QED
    BY <2>1, <2>2, <2>3, QuietStep DEF Answered, Matching, Visible
<1>3. CASE CompleteTransfer(r)
  <2>1. CASE Fail(r)
    BY <2>1, FailPlaced
  <2>2. CASE ~Fail(r)
    <3> DEFINE k == call[r].transfer
               s == seen[r].source
               d == seen[r].dest
    <3>1. /\ k \in TransferIds /\ s \in StockIds /\ d \in StockIds /\ s # d
          /\ stock[s].exists /\ stock[s].warehouse = transfer[k].from
          /\ d # r => stock[d].exists /\ stock[d].warehouse = transfer[k].to
          /\ stock' = [stock EXCEPT ![s] = Debited(r, transfer[k].quantity),
                                    ![d] = Credited(r, transfer[k])]
          /\ transfer' = [transfer EXCEPT ![k].status = "completed"]
          /\ pc[r] \in InTx /\ Finish(r, "ok")
      BY <1>3, <2>2, CompletionMoves
    <3>2. /\ \A x \in StockIds : stock[x].exists =>
                stock'[x].exists /\ stock'[x].warehouse = stock[x].warehouse
          /\ \A q \in Requests \ {r} : ~stock[q].exists => ~stock'[q].exists
      <4>1. ~stock[r].exists
        BY <3>1 DEF Placed, NotYetInserted, InTx, Answered
      <4> QED
        BY <3>1, <4>1 DEF Debited, Credited, IInv, TypeOK, StockRow, StockIds
    <3>3. transfer[k].status # "none"
      BY <1>3, CompletingFacts DEF CompleteTransfer, Completing
    <3>4. /\ \A t \in TransferIds : transfer[t].status # "none" =>
                /\ transfer'[t].from = transfer[t].from /\ transfer'[t].to = transfer[t].to
                /\ transfer'[t].item = transfer[t].item
          /\ \A t \in TransferIds : transfer[t].status = "none" =>
                transfer'[t].status = "none" \/ transfer'[t].from # transfer'[t].to
      BY <3>1, <3>3 DEF IInv, TypeOK, TransferRow
    <3> QED
      BY <3>1, <3>2, <3>4, LoudStep
  <2> QED
    BY <2>1, <2>2
<1> QED
  BY <1>1, <1>2, <1>3 DEF Completion
-----------------------------------------------------------------------------
\* No step of any request moves a row or a transfer.
LEMMA PlacedPreserved == IInv /\ Placed /\ [Next]_vars => Placed'
<1> SUFFICES ASSUME IInv, Placed, [Next]_vars PROVE Placed'
  OBVIOUS
<1>1. CASE UNCHANGED vars
  BY <1>1 DEF Placed, Apart, NotYetInserted, NoDestinationYet, InPlace, Completing, vars
<1>2. ASSUME NEW r \in Requests, NEW c \in Workload, Start(r, c) PROVE Placed'
  BY <1>2, StartPlaced
<1>3. ASSUME NEW r \in Requests, AcquireTimeout(r) \/ DeadlockVictim(r) \/ DatabaseError(r)
      PROVE  Placed'
  BY <1>3, FailPlaced DEF AcquireTimeout, DeadlockVictim, DatabaseError
<1>4. ASSUME NEW r \in Requests, Proceed(r) PROVE Placed'
  BY <1>4, LookupPlaced, StockWritePlaced, CompletionPlaced, StatusWritePlaced DEF Proceed
<1> QED
  BY <1>1, <1>2, <1>3, <1>4 DEF Next

\* In every reachable state the rows that a completion remembers are in the
\* warehouses of its transfer.
THEOREM AlwaysPlaced == Spec => [](IInv /\ Placed)
<1>1. Init => IInv /\ Placed
  BY InitEstablishes, InitPlaced
<1>2. IInv /\ Placed /\ [Next]_vars => (IInv /\ Placed)'
  BY PlacedPreserved, NextPreserves
<1> QED
  BY <1>1, <1>2, PTL DEF Spec

-----------------------------------------------------------------------------
\* What CompletionPays says of one request and one step.
Pays(r) ==
    Completes(r) =>
       LET t == transfer[call[r].transfer]
           s == seen[r].source
           d == seen[r].dest
       IN  /\ transfer'[call[r].transfer].status = "completed"
           /\ s # d
           /\ stock[s].exists /\ stock[s].warehouse = t.from
           /\ stock'[d].exists /\ stock'[d].warehouse = t.to
           /\ seen[r].row.item = t.item
           /\ (IF d = r THEN stock'[d] ELSE seen[r].destRow).item = t.item
           /\ stock'[s].quantity = seen[r].row.quantity - t.quantity
           /\ stock'[s].quantity >= 0
           /\ stock'[d].quantity = DestinationHeld(r) + t.quantity
           /\ \A x \in StockIds \ {s, d} : stock'[x] = stock[x]

\* A committing completion pays.
LEMMA CompletionStepPays ==
  ASSUME IInv, Placed, NEW r \in Requests, CompleteTransfer(r), ~Fail(r)
  PROVE  Pays(r)
<1> DEFINE k == call[r].transfer
           s == seen[r].source
           d == seen[r].dest
<1>2. /\ k \in TransferIds /\ s \in StockIds /\ d \in StockIds /\ s # d
      /\ stock[s].exists /\ stock[s].warehouse = transfer[k].from
      /\ d # r => stock[d].exists /\ stock[d].warehouse = transfer[k].to
      /\ seen[r].row.item = transfer[k].item
      /\ d # r => seen[r].destRow.item = transfer[k].item
      /\ stock' = [stock EXCEPT ![s] = Debited(r, transfer[k].quantity),
                                ![d] = Credited(r, transfer[k])]
      /\ transfer' = [transfer EXCEPT ![k].status = "completed"]
  BY CompletionMoves
<1>3. transfer'[k].status = "completed"
  BY <1>2 DEF IInv, TypeOK, TransferRow
<1>4. stock \in [StockIds -> StockRow]
  BY DEF IInv, TypeOK
<1>5. seen[r].row.quantity \in Quantity /\ seen[r].destRow.quantity \in Quantity
  BY DEF IInv, SeenLegal
<1>6. transfer[k].quantity \in Amounts
  BY <1>2 DEF IInv, TypeOK, TransferRow
<1>7. /\ stock'[s].quantity = seen[r].row.quantity - transfer[k].quantity
      /\ stock'[s].quantity >= 0
  <2>1. stock'[s] = Debited(r, transfer[k].quantity)
    BY <1>2, <1>4
  <2>2. stock'[s].quantity = seen[r].row.quantity - transfer[k].quantity
    BY <1>2, <1>4, <2>1 DEF Debited, StockRow
  <2>3. /\ seen[r].row.quantity \in Int /\ transfer[k].quantity \in Int
    BY <1>5, <1>6, AmountsAreNumbers
  <2>4. transfer[k].quantity <= seen[r].row.quantity
    BY DEF IInv, CompletionCovered, CompleteTransfer, Completing
  <2> QED
    BY <2>2, <2>3, <2>4
<1>8. /\ stock'[d].exists /\ stock'[d].warehouse = transfer[k].to
      /\ (IF d = r THEN stock'[d] ELSE seen[r].destRow).item = transfer[k].item
      /\ stock'[d].quantity = DestinationHeld(r) + transfer[k].quantity
  <2>1. stock'[d] = Credited(r, transfer[k])
    BY <1>2, <1>4
  <2>2. CASE d = r
    BY <1>6, <2>1, <2>2, AmountsAreNumbers DEF Credited, DestinationHeld
  <2>3. CASE d # r
    <3>1. /\ stock'[d].exists = stock[d].exists
          /\ stock'[d].warehouse = stock[d].warehouse
          /\ stock'[d].quantity = seen[r].destRow.quantity + transfer[k].quantity
      BY <1>2, <1>4, <2>1, <2>3 DEF Credited, StockRow
    <3> QED
      BY <1>2, <2>3, <3>1 DEF DestinationHeld
  <2> QED
    BY <2>2, <2>3
<1>9. \A x \in StockIds \ {s, d} : stock'[x] = stock[x]
  BY <1>2, <1>4
<1> QED
  BY <1>2, <1>3, <1>7, <1>8, <1>9 DEF Pays

\* Only a completion leaves the last lookup behind with success.
LEMMA OnlyCompletionCompletes ==
  ASSUME IInv, NEW r \in Requests, Completes(r), [Next]_vars
  PROVE  CompleteTransfer(r) /\ ~Fail(r)
<1>1. pc[r] = "matched" /\ pc'[r] = "ok" /\ pc \in [Requests -> {"idle"} \cup InTx \cup Answered]
  BY DEF Completes, IInv, TypeOK
<1>2. PICK q \in Requests : \/ \E c \in Workload : Start(q, c)
                            \/ AcquireTimeout(q) \/ Proceed(q)
                            \/ DeadlockVictim(q) \/ DatabaseError(q)
  BY <1>1 DEF Next, vars
<1>3. ~Fail(q) /\ Proceed(q) /\ q = r
  <2>1. \A p \in Requests : Fail(p) => pc'[p] = "error" /\ \A x \in Requests \ {p} : pc'[x] = pc[x]
    BY <1>1 DEF Fail, Finish, Advance
  <2>2. ~Fail(q)
    BY <1>1, <2>1
  <2>3. Proceed(q)
    BY <1>1, <1>2, <2>2 DEF Start, AcquireTimeout, DeadlockVictim, DatabaseError
  <2>4. pc'[r] # pc[r]
    BY <1>1
  <2>5. \E label : pc' = [pc EXCEPT ![q] = label]
    BY <2>3 DEF Proceed, Lookup, CheckInsert, FindStock, CheckTransfer, FindTransfer,
                FindSource, FindOpname, StockWrite, InsertStock, SaveStock, DeleteStock,
                AdjustStock, Completion, DebitSource, FindDestination, CompleteTransfer,
                StatusWrite, InsertTransfer, SetTransferStatus, InsertOpname,
                SetOpnameStatus, Fail, Finish, Advance
  <2> QED
    BY <1>1, <2>2, <2>3, <2>4, <2>5
<1> QED
  BY <1>1, <1>3 DEF Proceed, Lookup, CheckInsert, FindStock, CheckTransfer, FindTransfer,
                FindSource, FindOpname, StockWrite, InsertStock, SaveStock, DeleteStock,
                AdjustStock, Completion, DebitSource, FindDestination, CompleteTransfer,
                StatusWrite, InsertTransfer, SetTransferStatus, InsertOpname,
                SetOpnameStatus

\* No other step completes a transfer.
LEMMA OtherStepsComplete ==
  ASSUME IInv, NEW r \in Requests, NEW t \in TransferIds,
         \/ Lookup(r) \/ StockWrite(r) \/ StatusWrite(r)
         \/ DebitSource(r) \/ FindDestination(r)
  PROVE  transfer'[t].status = "completed" => transfer[t].status = "completed"
<1>1. transfer \in [TransferIds -> TransferRow]
  BY DEF IInv, TypeOK
<1>2. CASE InsertTransfer(r)
  BY <1>1, <1>2 DEF InsertTransfer
<1>3. CASE SetTransferStatus(r)
  BY <1>1, <1>3 DEF SetTransferStatus, Saved, TransferRow
<1>4. CASE ~InsertTransfer(r) /\ ~SetTransferStatus(r)
  <2>1. transfer' = transfer
    BY <1>4 DEF Lookup, CheckInsert, FindStock, CheckTransfer, FindTransfer, FindSource,
                FindOpname, StockWrite, InsertStock, SaveStock, DeleteStock, AdjustStock,
                StatusWrite, InsertOpname, SetOpnameStatus, DebitSource, FindDestination,
                Fail, tables
  <2> QED
    BY <2>1
<1> QED
  BY <1>2, <1>3, <1>4

\* CompletionPays, for every workload: a transfer becomes completed only by the
\* commit of a request that writes a row of the source warehouse as it read it
\* less the quantity, and a row of the destination warehouse as it read it, or
\* created it, plus the quantity (stock.service.js:481-533).
THEOREM CompletionPaysHolds == Spec => CompletionPays
<1>1. ASSUME IInv, Placed, [Next]_vars
      PROVE  /\ \A t \in TransferIds :
                    transfer[t].status # "completed" /\ transfer'[t].status = "completed" =>
                       \E r \in Requests : Completes(r) /\ call[r].transfer = t
             /\ \A r \in Requests : Pays(r)
  <2>1. ASSUME NEW r \in Requests PROVE Pays(r)
    <3>1. CASE Completes(r)
      BY <1>1, <2>1, <3>1, OnlyCompletionCompletes, CompletionStepPays
    <3> QED
      BY <3>1 DEF Pays
  <2>2. ASSUME NEW t \in TransferIds,
               transfer[t].status # "completed", transfer'[t].status = "completed"
        PROVE  \E r \in Requests : Completes(r) /\ call[r].transfer = t
    <3>1. transfer' # transfer
      BY <2>2
    <3>2. PICK r \in Requests : Proceed(r)
      BY <1>1, <3>1 DEF Next, vars, tables, Start, AcquireTimeout, DeadlockVictim,
                        DatabaseError, Fail
    <3>3. CompleteTransfer(r) /\ ~Fail(r)
      <4>1. CompleteTransfer(r)
        BY <1>1, <2>2, <3>2, OtherStepsComplete DEF Proceed, Completion
      <4> QED
        BY <3>1, <4>1 DEF Fail, tables
    <3>4. /\ call[r].transfer \in TransferIds
          /\ transfer' = [transfer EXCEPT ![call[r].transfer].status = "completed"]
          /\ Finish(r, "ok")
      BY <1>1, <3>3, CompletionMoves
    <3>5. t = call[r].transfer
      BY <1>1, <2>2, <3>4 DEF IInv, TypeOK
    <3>6. Completes(r)
      BY <1>1, <3>3, <3>4 DEF Completes, CompleteTransfer, Finish, Advance, IInv, TypeOK
    <3> QED
      BY <3>5, <3>6
  <2> QED
    BY <2>1, <2>2
<1>2. IInv /\ Placed /\ [Next]_vars =>
        [/\ \A t \in TransferIds :
              transfer[t].status # "completed" /\ transfer'[t].status = "completed" =>
                \E r \in Requests : Completes(r) /\ call[r].transfer = t
         /\ \A r \in Requests : Completes(r) =>
              LET t == transfer[call[r].transfer]
                  s == seen[r].source
                  d == seen[r].dest
              IN  /\ transfer'[call[r].transfer].status = "completed"
                  /\ s # d
                  /\ stock[s].exists /\ stock[s].warehouse = t.from
                  /\ stock'[d].exists /\ stock'[d].warehouse = t.to
                  /\ seen[r].row.item = t.item
                  /\ (IF d = r THEN stock'[d] ELSE seen[r].destRow).item = t.item
                  /\ stock'[s].quantity = seen[r].row.quantity - t.quantity
                  /\ stock'[s].quantity >= 0
                  /\ stock'[d].quantity = DestinationHeld(r) + t.quantity
                  /\ \A x \in StockIds \ {s, d} : stock'[x] = stock[x]]_vars
  BY <1>1 DEF Pays
<1> QED
  BY <1>2, AlwaysPlaced, PTL DEF Spec, CompletionPays
-----------------------------------------------------------------------------
(***************************************************************************)
(* One connection: requests that come one at a time.                       *)
(*                                                                         *)
(* With a pool of one connection the service is the atomic service of      *)
(* AtomicInventory and its books balance.  Neither holds with two          *)
(* connections: what a request has read may be stale when it writes.  So   *)
(* the invariant says that the memory of the one open request agrees with  *)
(* the tables, from its lookups to its commit.                             *)
(***************************************************************************)

OneConnection == PoolSize = 1 /\ IsFiniteSet(Requests)

\* One transaction at a time.
OneAtATime == \A q, r \in Requests : pc[q] \in InTx /\ pc[r] \in InTx => q = r

\* The stock row of an update, a deletion or an adjustment is still as read.
StockCurrent(r) ==
    pc[r] = "looked" /\ call[r].op \in {"updateStock", "deleteStock", "createAdjustment"} =>
        /\ seen[r].source = call[r].stock
        /\ stock[call[r].stock].exists
        /\ seen[r].row = stock[call[r].stock]

\* The source warehouse of a new transfer still holds the quantity asked for.
RequestCurrent(r) ==
    pc[r] = "looked" /\ call[r].op = "createTransfer" =>
        \E s \in Matching(call[r].from, call[r].item) : stock[s].quantity >= call[r].quantity

\* The transfer or the count is still open and has the status that was read.
StatusCurrent(r) ==
    /\ pc[r] # "begun" /\ call[r].op = "updateTransferStatus" =>
         /\ transfer[call[r].transfer].status \in {"pending", "in_transit"}
         /\ seen[r].status = transfer[call[r].transfer].status
    /\ pc[r] # "begun" /\ call[r].op = "updateOpnameStatus" =>
         /\ opname[call[r].opname] \in {"draft", "in_progress"}
         /\ seen[r].status = opname[call[r].opname]

\* The rows that a completion has found are still those it would find.
CompletionCurrent(r) ==
    LET t == transfer[call[r].transfer] IN
    /\ Completing(r) => /\ call[r].status = "completed"
                        /\ seen[r].source \in Matching(t.from, t.item)
                        /\ seen[r].row = stock[seen[r].source]
    /\ pc[r] = "matched" =>
         IF seen[r].dest = r
         THEN Matching(t.to, t.item) = {}
         ELSE /\ seen[r].dest \in Matching(t.to, t.item)
              /\ seen[r].destRow = stock[seen[r].dest]

UpToDate(r) == /\ call[r] \in Workload
               /\ StockCurrent(r) /\ RequestCurrent(r)
               /\ StatusCurrent(r) /\ CompletionCurrent(r)

Sequential == OneAtATime /\ \A r \in Requests : pc[r] \in InTx => UpToDate(r)

-----------------------------------------------------------------------------
\* What a request has read stays current while the tables and its memory do.
LEMMA StaysUpToDate ==
  ASSUME NEW q \in Requests, UpToDate(q), UNCHANGED tables,
         pc'[q] = pc[q] /\ call'[q] = call[q] /\ seen'[q] = seen[q]
  PROVE  UpToDate(q)'
<1>1. StockCurrent(q)'
  BY DEF UpToDate, StockCurrent, tables
<1>2. RequestCurrent(q)'
  BY DEF UpToDate, RequestCurrent, Matching, Visible, tables
<1>3. StatusCurrent(q)'
  BY DEF UpToDate, StatusCurrent, tables
<1>4. CompletionCurrent(q)'
  BY DEF UpToDate, CompletionCurrent, Completing, Matching, Visible, tables
<1> QED
  BY <1>1, <1>2, <1>3, <1>4 DEF UpToDate

\* A request that keeps the tables as they are and knows what it has read.
LEMMA QuietSequential ==
  ASSUME IInv, Sequential, NEW r \in Requests, UNCHANGED tables,
         pc'[r] \in InTx => \A q \in Requests \ {r} : pc[q] \notin InTx,
         pc'[r] \in InTx => UpToDate(r)',
         \A q \in Requests \ {r} :
            pc'[q] = pc[q] /\ call'[q] = call[q] /\ seen'[q] = seen[q]
  PROVE  Sequential'
<1>1. OneAtATime'
  BY DEF Sequential, OneAtATime
<1>2. ASSUME NEW q \in Requests, pc'[q] \in InTx PROVE UpToDate(q)'
  <2>1. CASE q = r
    BY <1>2, <2>1
  <2>2. CASE q # r
    <3>1. UpToDate(q)
      BY <1>2, <2>2 DEF Sequential
    <3> QED
      BY <2>2, <3>1, StaysUpToDate
  <2> QED
    BY <2>1, <2>2
<1> QED
  BY <1>1, <1>2 DEF Sequential

\* The one open request closes: no request is open.
LEMMA CloseSequential ==
  ASSUME IInv, Sequential, NEW r \in Requests, pc[r] \in InTx,
         NEW a \in Answered, Finish(r, a)
  PROVE  Sequential'
<1>1. \A q \in Requests : pc'[q] \notin InTx
  BY DEF Sequential, OneAtATime, Finish, Advance, IInv, TypeOK, InTx, Answered
<1> QED
  BY <1>1 DEF Sequential, OneAtATime

LEMMA FailSequential ==
  ASSUME IInv, Sequential, NEW r \in Requests, Fail(r)
  PROVE  Sequential'
<1>1. /\ UNCHANGED tables /\ pc'[r] \notin InTx
      /\ \A q \in Requests \ {r} :
            pc'[q] = pc[q] /\ call'[q] = call[q] /\ seen'[q] = seen[q]
  BY DEF Fail, Finish, Advance, IInv, TypeOK, InTx
<1> QED
  BY <1>1, QuietSequential

\* A request begins only when no other is open.
LEMMA StartSequential ==
  ASSUME IInv, Sequential, OneConnection, NEW r \in Requests, NEW c \in Workload, Start(r, c)
  PROVE  Sequential'
<1>1. OpenTx = {}
  <2>1. IsFiniteSet(OpenTx)
    BY FS_Subset DEF OneConnection, OpenTx
  <2>2. Cardinality(OpenTx) \in Nat /\ Cardinality(OpenTx) < 1
    BY <2>1, FS_CardinalityType DEF Start, OneConnection
  <2> QED
    BY <2>1, <2>2, FS_EmptySet
<1>2. /\ UNCHANGED tables /\ pc'[r] = "begun" /\ call'[r] = c
      /\ \A q \in Requests \ {r} :
            pc[q] \notin InTx /\ pc'[q] = pc[q] /\ call'[q] = call[q] /\ seen'[q] = seen[q]
  BY <1>1 DEF Start, OpenTx, IInv, TypeOK
<1>3. UpToDate(r)'
  BY <1>2 DEF UpToDate, StockCurrent, RequestCurrent, StatusCurrent, CompletionCurrent, Completing
<1> QED
  BY <1>2, <1>3, QuietSequential

\* A lookup finds what the tables hold, and the request is alone with them.
LEMMA LookupSequential ==
  ASSUME IInv, Placed, Sequential, NEW r \in Requests, Lookup(r)
  PROVE  Sequential'
<1> SUFFICES ASSUME ~Fail(r) PROVE Sequential'
  BY FailSequential
<1>1. /\ UNCHANGED tables /\ pc[r] \in InTx /\ call' = call
      /\ \A q \in Requests \ {r} : pc'[q] = pc[q] /\ seen'[q] = seen[q]
  BY DEF Lookup, CheckInsert, FindStock, CheckTransfer, FindTransfer, FindSource,
         FindOpname, Advance, IInv, TypeOK, InTx
<1>2. UpToDate(r) /\ \A q \in Requests \ {r} : pc[q] \notin InTx
  BY <1>1 DEF Sequential, OneAtATime
<1>3. seen[r] \in Seen /\ seen \in [Requests -> Seen] /\ call[r] \in Calls
  BY <1>1, RequestFacts DEF IInv, TypeOK
<1> USE DEF Advance, IInv, TypeOK
<1>4. CASE CheckInsert(r)
  <2>1. /\ pc[r] = "begun" /\ pc'[r] = "looked"
        /\ call[r].op \in {"createStock", "createOpname"}
    BY <1>4 DEF CheckInsert
  <2>2. UpToDate(r)'
    BY <1>1, <1>2, <2>1 DEF UpToDate, StockCurrent, RequestCurrent, StatusCurrent,
                           CompletionCurrent, Completing
  <2> QED
    BY <1>1, <1>2, <2>2, QuietSequential
<1>5. CASE FindStock(r)
  <2> DEFINE s == call[r].stock
  <2>1. /\ pc[r] = "begun" /\ pc'[r] = "looked" /\ Visible(s)
        /\ call[r].op \in {"updateStock", "deleteStock", "createAdjustment"}
        /\ seen'[r].source = s /\ seen'[r].row = stock[s]
    BY <1>3, <1>5 DEF FindStock, Seen
  <2>2. UpToDate(r)'
    BY <1>1, <1>2, <2>1 DEF UpToDate, StockCurrent, RequestCurrent, StatusCurrent,
                           CompletionCurrent, Completing, Visible, tables
  <2> QED
    BY <1>1, <1>2, <2>2, QuietSequential
<1>6. CASE CheckTransfer(r)
  <2>1. /\ pc[r] = "begun" /\ pc'[r] = "looked" /\ call[r].op = "createTransfer"
        /\ \E s \in Matching(call[r].from, call[r].item) : stock[s].quantity >= call[r].quantity
    BY <1>6 DEF CheckTransfer
  <2>2. UpToDate(r)'
    BY <1>1, <1>2, <2>1 DEF UpToDate, StockCurrent, RequestCurrent, StatusCurrent,
                           CompletionCurrent, Completing, Matching, Visible, tables
  <2> QED
    BY <1>1, <1>2, <2>2, QuietSequential
<1>7. CASE FindTransfer(r)
  <2> DEFINE status == transfer[call[r].transfer].status
  <2>1. /\ pc[r] = "begun" /\ pc'[r] = "looked" /\ call[r].op = "updateTransferStatus"
        /\ status # "none" /\ ~Terminal(status) /\ seen'[r].status = status
    BY <1>3, <1>7 DEF FindTransfer, Seen
  <2>2. status \in {"pending", "in_transit"}
    BY <1>3, <2>1, CallFields DEF Terminal, TransferRow, TransferStatuses
  <2>3. UpToDate(r)'
    BY <1>1, <1>2, <2>1, <2>2 DEF UpToDate, StockCurrent, RequestCurrent, StatusCurrent,
                                 CompletionCurrent, Completing, tables
  <2> QED
    BY <1>1, <1>2, <2>3, QuietSequential
<1>8. CASE FindSource(r)
  <2> DEFINE t == transfer[call[r].transfer]
  <2>1. PICK s \in Matching(t.from, t.item) :
           seen' = [seen EXCEPT ![r].source = s, ![r].row = stock[s]]
    BY <1>8 DEF FindSource
  <2>2. /\ pc[r] = "looked" /\ pc'[r] = "sourced" /\ call[r].op = "updateTransferStatus"
        /\ call[r].status = "completed"
    BY <1>8 DEF FindSource
  <2>3. /\ seen'[r].source = s /\ seen'[r].row = stock[s] /\ seen'[r].status = seen[r].status
    BY <1>3, <2>1 DEF Seen
  <2>4. UpToDate(r)'
    BY <1>1, <1>2, <2>2, <2>3 DEF UpToDate, StockCurrent, RequestCurrent, StatusCurrent,
                                 CompletionCurrent, Completing, Matching, Visible, tables
  <2> QED
    BY <1>1, <1>2, <2>4, QuietSequential
<1>9. CASE FindOpname(r)
  <2> DEFINE status == opname[call[r].opname]
  <2>1. /\ pc[r] = "begun" /\ pc'[r] = "looked" /\ call[r].op = "updateOpnameStatus"
        /\ status \notin {"none", "completed"} /\ seen'[r].status = status
    BY <1>3, <1>9 DEF FindOpname, Seen
  <2>2. status \in {"draft", "in_progress"}
    BY <1>3, <2>1, CallFields DEF OpnameStatuses
  <2>3. UpToDate(r)'
    BY <1>1, <1>2, <2>1, <2>2 DEF UpToDate, StockCurrent, RequestCurrent, StatusCurrent,
                                 CompletionCurrent, Completing, tables
  <2> QED
    BY <1>1, <1>2, <2>3, QuietSequential
<1> QED
  BY <1>4, <1>5, <1>6, <1>7, <1>8, <1>9 DEF Lookup
\* Between the lookups of a completion nothing that it has read changes.
LEMMA CompletionSequential ==
  ASSUME IInv, Placed, Sequential, NEW r \in Requests, Completion(r)
  PROVE  Sequential'
<1>1. CASE Fail(r) \/ CompleteTransfer(r)
  BY <1>1, FailSequential, CloseSequential DEF CompleteTransfer, InTx, Answered
<1>2. CASE ~Fail(r) /\ ~CompleteTransfer(r)
  <2>1. /\ UNCHANGED tables /\ pc[r] \in InTx /\ Completing(r) /\ call' = call
        /\ \A q \in Requests \ {r} : pc'[q] = pc[q] /\ seen'[q] = seen[q]
    BY <1>2 DEF Completion, DebitSource, FindDestination, Advance, IInv, TypeOK, InTx,
                Completing
  <2>2. UpToDate(r) /\ \A q \in Requests \ {r} : pc[q] \notin InTx
    BY <2>1 DEF Sequential, OneAtATime
  <2>3. call[r].op = "updateTransferStatus" /\ seen[r] \in Seen
    BY <2>1, CompletingFacts DEF IInv, TypeOK
  <2>4. CASE DebitSource(r)
    <3>1. pc[r] = "sourced" /\ pc'[r] = "debited" /\ seen' = seen
      BY <2>4 DEF DebitSource, Advance, IInv, TypeOK
    <3>2. UpToDate(r)'
      BY <2>1, <2>2, <2>3, <3>1
         DEF UpToDate, StockCurrent, RequestCurrent, StatusCurrent,
             CompletionCurrent, Completing, Matching, Visible, tables
    <3> QED
      BY <2>1, <2>2, <3>2, QuietSequential
  <2>5. CASE FindDestination(r)
    <3> DEFINE dests == Matching(transfer[call[r].transfer].to, transfer[call[r].transfer].item)
    <3>1. pc[r] = "debited" /\ pc'[r] = "matched"
      BY <2>5 DEF FindDestination, Advance, IInv, TypeOK
    <3>2. seen[r].dest = r
      BY <3>1 DEF Placed, NoDestinationYet
    <3>3. /\ seen'[r].source = seen[r].source /\ seen'[r].row = seen[r].row
          /\ seen'[r].status = seen[r].status
          /\ \/ /\ seen'[r].dest \in dests
                /\ seen'[r].destRow = stock[seen'[r].dest]
             \/ seen'[r].dest = r /\ dests = {}
      <4>1. seen \in [Requests -> Seen]
        BY DEF IInv, TypeOK
      <4>2. CASE dests = {} /\ UNCHANGED seen
        BY <3>2, <4>2
      <4>3. ASSUME NEW d \in dests,
                   seen' = [seen EXCEPT ![r].dest = d, ![r].destRow = stock[d]]
            PROVE  /\ seen'[r].source = seen[r].source /\ seen'[r].row = seen[r].row
                   /\ seen'[r].status = seen[r].status
                   /\ seen'[r].dest = d /\ seen'[r].destRow = stock[d]
        BY <4>1, <4>3 DEF Seen
      <4> QED
        BY <2>5, <4>2, <4>3 DEF FindDestination
    <3>4. seen'[r].dest \in dests => seen'[r].dest # r
      <4>1. ~stock[r].exists
        BY <3>1 DEF Placed, NotYetInserted, Answered
      <4> QED
        BY <4>1 DEF Matching, Visible
    <3>5. StockCurrent(r)' /\ RequestCurrent(r)'
      BY <3>1 DEF StockCurrent, RequestCurrent
    <3>6. StatusCurrent(r)'
      BY <2>1, <2>2, <2>3, <3>1, <3>3 DEF UpToDate, StatusCurrent, tables
    <3>7. CompletionCurrent(r)'
      BY <2>1, <2>2, <2>3, <3>1, <3>3, <3>4
         DEF UpToDate, CompletionCurrent, Completing, Matching, Visible, tables
    <3>8. UpToDate(r)'
      BY <2>1, <2>2, <2>3, <3>5, <3>6, <3>7 DEF UpToDate
    <3> QED
      BY <2>1, <2>2, <3>8, QuietSequential
  <2> QED
    BY <1>2, <2>4, <2>5 DEF Completion
<1> QED
  BY <1>1, <1>2

\* The writes close the request that makes them.
LEMMA WriteSequential ==
  ASSUME IInv, Sequential, NEW r \in Requests, StockWrite(r) \/ StatusWrite(r)
  PROVE  Sequential'
<1>1. pc[r] \in InTx /\ (Fail(r) \/ Finish(r, "ok"))
  BY DEF StockWrite, InsertStock, SaveStock, DeleteStock, AdjustStock, StatusWrite,
         InsertTransfer, SetTransferStatus, InsertOpname, SetOpnameStatus, InTx
<1> QED
  BY <1>1, FailSequential, CloseSequential DEF Answered

LEMMA InitSequential == Init => Sequential
  BY DEF Init, Sequential, OneAtATime, InTx

LEMMA SequentialPreserved ==
  ASSUME OneConnection
  PROVE  IInv /\ Placed /\ Sequential /\ [Next]_vars => Sequential'
<1> SUFFICES ASSUME IInv, Placed, Sequential, [Next]_vars PROVE Sequential'
  OBVIOUS
<1>1. CASE UNCHANGED vars
  <2>1. OneAtATime'
    BY <1>1 DEF vars, Sequential, OneAtATime
  <2>2. ASSUME NEW q \in Requests, pc'[q] \in InTx PROVE UpToDate(q)'
    BY <1>1, <2>2, StaysUpToDate DEF vars, tables, Sequential
  <2> QED
    BY <2>1, <2>2 DEF Sequential
<1>2. ASSUME NEW r \in Requests, NEW c \in Workload, Start(r, c) PROVE Sequential'
  BY <1>2, StartSequential
<1>3. ASSUME NEW r \in Requests, AcquireTimeout(r) \/ DeadlockVictim(r) \/ DatabaseError(r)
      PROVE  Sequential'
  BY <1>3, FailSequential DEF AcquireTimeout, DeadlockVictim, DatabaseError
<1>4. ASSUME NEW r \in Requests, Proceed(r) PROVE Sequential'
  BY <1>4, LookupSequential, WriteSequential, CompletionSequential DEF Proceed
<1> QED
  BY <1>1, <1>2, <1>3, <1>4 DEF Next

\* With one connection the memory of the open request is never stale: what it
\* has read is what the tables hold until it commits.
THEOREM NeverStale ==
  ASSUME OneConnection
  PROVE  Spec => [](IInv /\ Placed /\ Sequential)
<1>1. Init => Sequential
  BY InitSequential
<1>2. IInv /\ Placed /\ Sequential /\ [Next]_vars => Sequential'
  BY SequentialPreserved
<1> QED
  BY <1>1, <1>2, AlwaysPlaced, PTL DEF Spec
-----------------------------------------------------------------------------
(***************************************************************************)
(* The refinement: with one connection every step is a step of             *)
(* AtomicInventory or leaves its variables alone.  A commit is an Accept   *)
(* whose effect is computed on the tables as they are at the commit, a     *)
(* failure is a Reject, everything else is invisible.                      *)
(***************************************************************************)

\* What the requests have been told: the variable of AtomicInventory.
Answer == [r \in Requests |-> IF pc[r] \in Answered THEN pc[r] ELSE "none"]

\* A request is answered once.
LEMMA AnswerOnce ==
  ASSUME IInv, NEW r \in Requests, pc[r] \notin Answered, NEW a \in Answered, Finish(r, a)
  PROVE  Answer[r] = "none" /\ Answer' = [Answer EXCEPT ![r] = a]
  BY DEF Answer, Finish, Advance, IInv, TypeOK

\* A failure is a rejection.
LEMMA FailRejects ==
  ASSUME IInv, NEW r \in Requests, pc[r] \notin Answered, Fail(r)
  PROVE  Atomic!Next
<1>1. Answer[r] = "none" /\ Answer' = [Answer EXCEPT ![r] = "error"] /\ UNCHANGED tables
  BY AnswerOnce DEF Fail, Answered
<1>2. Atomic!Reject(r)
  BY <1>1 DEF Atomic!Reject, Answer, Atomic!tables, tables
<1> QED
  BY <1>2 DEF Atomic!Next

\* A commit is an acceptance, when it has the effect of the request's call.
LEMMA CommitAccepts ==
  ASSUME IInv, NEW r \in Requests, pc[r] \in InTx, Finish(r, "ok"),
         call[r] \in Workload, Atomic!Effect(r, call[r])
  PROVE  Atomic!Next
<1>1. Answer[r] = "none" /\ Answer' = [Answer EXCEPT ![r] = "ok"]
  BY AnswerOnce DEF InTx, Answered
<1>2. Atomic!Accept(r)
  BY <1>1 DEF Atomic!Accept, Answer
<1> QED
  BY <1>2 DEF Atomic!Next

\* What the open request knows when it commits.
LEMMA OpenFacts ==
  ASSUME IInv, Placed, Sequential, NEW r \in Requests, pc[r] \in InTx
  PROVE  UpToDate(r) /\ call[r] \in Workload /\ call[r] \in Calls /\ ~stock[r].exists
  BY RequestFacts DEF Sequential, UpToDate, Placed, NotYetInserted, InTx, Answered

LEMMA InsertStockAtomic ==
  ASSUME IInv, Placed, Sequential, NEW r \in Requests, InsertStock(r), ~Fail(r)
  PROVE  Atomic!Next
<1>1. /\ pc[r] \in InTx /\ call[r].op = "createStock" /\ Finish(r, "ok")
      /\ call[r].quantity <= MaxQuantity /\ UNCHANGED <<transfer, opname, adjustments>>
  BY DEF InsertStock, InTx
<1>2. call[r].quantity \in Quantity
  BY <1>1, OpenFacts, CallFields, TypesAssumption DEF Quantity
<1>3. Atomic!CreateStock(r, call[r])
  BY <1>1, <1>2 DEF InsertStock, Atomic!CreateStock, Atomic!NewRow, Atomic!Quantity, Quantity
<1> QED
  BY <1>1, <1>3, OpenFacts, CommitAccepts DEF Atomic!Effect

LEMMA SaveStockAtomic ==
  ASSUME IInv, Placed, Sequential, NEW r \in Requests, SaveStock(r), ~Fail(r)
  PROVE  Atomic!Next
<1> DEFINE c        == call[r]
           s        == seen[r].source
           row      == seen[r].row
           item     == IF c.item = Keep THEN row.item ELSE c.item
           quantity == IF c.quantity = Keep THEN row.quantity ELSE c.quantity
<1>1. /\ pc[r] = "looked" /\ pc[r] \in InTx /\ c.op = "updateStock" /\ Finish(r, "ok")
      /\ quantity <= MaxQuantity /\ UNCHANGED <<transfer, opname, adjustments>>
      /\ stock' = [stock EXCEPT ![s] = Overwritten(s, row, item, quantity)]
  BY DEF SaveStock, InTx
<1>2. s = c.stock /\ s \in StockIds /\ stock[s].exists /\ row = stock[s]
  BY <1>1, OpenFacts, CallFields DEF UpToDate, StockCurrent
<1>3. stock \in [StockIds -> StockRow] /\ stock[s] \in StockRow
  BY <1>2 DEF IInv, TypeOK
<1>4. c.quantity # Keep => c.quantity \in Quantity
  BY <1>1, OpenFacts, CallFields, TypesAssumption DEF Quantity
<1>5. Overwritten(s, row, item, quantity) = [stock[s] EXCEPT !.item = item, !.quantity = quantity]
  BY <1>2, <1>3 DEF Overwritten, Saved, StockRow
<1>6. stock' = [stock EXCEPT ![s].item = IF c.item = Keep THEN @ ELSE c.item,
                             ![s].quantity = IF c.quantity = Keep THEN @ ELSE c.quantity]
  BY <1>1, <1>2, <1>3, <1>5 DEF StockRow
<1>7. Atomic!UpdateStock(c)
  BY <1>1, <1>2, <1>4, <1>6 DEF Atomic!UpdateStock, Atomic!Quantity, Quantity
<1> QED
  BY <1>1, <1>7, OpenFacts, CommitAccepts DEF Atomic!Effect

LEMMA DeleteStockAtomic ==
  ASSUME IInv, Placed, Sequential, NEW r \in Requests, DeleteStock(r)
  PROVE  Atomic!Next
<1>1. /\ pc[r] = "looked" /\ pc[r] \in InTx /\ call[r].op = "deleteStock" /\ Finish(r, "ok")
      /\ UNCHANGED tables
  BY DEF DeleteStock, SoftDelete, InTx, tables, IInv, TypeOK
<1>2. stock[call[r].stock].exists
  BY <1>1, OpenFacts DEF UpToDate, StockCurrent
<1>3. Atomic!DeleteStock(call[r])
  BY <1>1, <1>2 DEF Atomic!DeleteStock, Atomic!tables, tables
<1> QED
  BY <1>1, <1>3, OpenFacts, CommitAccepts DEF Atomic!Effect

LEMMA AdjustStockAtomic ==
  ASSUME IInv, Placed, Sequential, NEW r \in Requests, AdjustStock(r), ~Fail(r)
  PROVE  Atomic!Next
<1> DEFINE c == call[r]
           s == seen[r].source
           quantity == Adjusted(c, seen[r].row.quantity)
<1>1. /\ pc[r] = "looked" /\ pc[r] \in InTx /\ c.op = "createAdjustment" /\ Finish(r, "ok")
      /\ quantity <= MaxQuantity /\ UNCHANGED <<transfer, opname>>
      /\ stock' = [stock EXCEPT ![s].quantity = quantity]
      /\ adjustments' = adjustments \cup {r}
  BY DEF AdjustStock, InTx
<1>2. s = c.stock /\ s \in StockIds /\ stock[s].exists /\ seen[r].row = stock[s]
  BY <1>1, OpenFacts, CallFields DEF UpToDate, StockCurrent
<1>3. quantity \in Quantity
  <2>1. quantity >= 0
    BY <1>1 DEF IInv, AdjustmentCovered
  <2>2. stock[s].quantity \in Int /\ c.quantity \in Int
    BY <1>1, <1>2, OpenFacts, CallFields, AmountsAreNumbers DEF IInv, QuantityInRange
  <2> QED
    BY <1>1, <1>2, <2>1, <2>2, TypesAssumption DEF Adjusted, Quantity
<1>4. Atomic!Adjust(r, c)
  BY <1>1, <1>2, <1>3
     DEF Atomic!Adjust, Atomic!Adjusted, Adjusted, Atomic!Quantity, Quantity, IInv, TypeOK
<1> QED
  BY <1>1, <1>4, OpenFacts, CommitAccepts DEF Atomic!Effect
LEMMA InsertTransferAtomic ==
  ASSUME IInv, Placed, Sequential, NEW r \in Requests, InsertTransfer(r)
  PROVE  Atomic!Next
<1> DEFINE c == call[r]
<1>1. /\ pc[r] = "looked" /\ pc[r] \in InTx /\ c.op = "createTransfer" /\ Finish(r, "ok")
  BY DEF InsertTransfer, InTx
<1>2. c.from # c.to
  BY <1>1 DEF Placed, Apart
<1>3. \E s \in Matching(c.from, c.item) : stock[s].quantity >= c.quantity
  BY <1>1, OpenFacts DEF UpToDate, RequestCurrent
<1>4. Atomic!RequestTransfer(r, c)
  BY <1>1, <1>2, <1>3
     DEF InsertTransfer, Atomic!RequestTransfer, Atomic!Holding, Atomic!StockIds,
         StockIds, Matching, Visible
<1> QED
  BY <1>1, <1>4, OpenFacts, CommitAccepts DEF Atomic!Effect

LEMMA SetTransferAtomic ==
  ASSUME IInv, Placed, Sequential, NEW r \in Requests, SetTransferStatus(r)
  PROVE  Atomic!Next
<1> DEFINE c == call[r]
<1>1. /\ pc[r] = "looked" /\ pc[r] \in InTx /\ c.op = "updateTransferStatus"
      /\ c.status # "completed" /\ Finish(r, "ok")
  BY DEF SetTransferStatus, InTx
<1>2. /\ transfer[c.transfer].status \in {"pending", "in_transit"}
      /\ seen[r].status = transfer[c.transfer].status
  BY <1>1, OpenFacts DEF UpToDate, StatusCurrent
<1>3. transfer' = [transfer EXCEPT ![c.transfer].status = c.status]
  BY <1>2 DEF SetTransferStatus, Saved, IInv, TypeOK
<1>4. Atomic!SetTransfer(c)
  BY <1>1, <1>2, <1>3 DEF SetTransferStatus, Atomic!SetTransfer, Atomic!OpenTransfer
<1> QED
  BY <1>1, <1>4, OpenFacts, CommitAccepts DEF Atomic!Effect

LEMMA OpnameAtomic ==
  ASSUME IInv, Placed, Sequential, NEW r \in Requests, InsertOpname(r) \/ SetOpnameStatus(r)
  PROVE  Atomic!Next
<1>1. CASE InsertOpname(r)
  <2>1. pc[r] \in InTx /\ call[r].op = "createOpname" /\ Finish(r, "ok")
    BY <1>1 DEF InsertOpname, InTx
  <2>2. Atomic!CreateOpname(r)
    BY <1>1 DEF InsertOpname, Atomic!CreateOpname
  <2> QED
    BY <2>1, <2>2, OpenFacts, CommitAccepts DEF Atomic!Effect
<1>2. CASE SetOpnameStatus(r)
  <2>1. /\ pc[r] = "looked" /\ pc[r] \in InTx /\ call[r].op = "updateOpnameStatus"
        /\ Finish(r, "ok")
    BY <1>2 DEF SetOpnameStatus, InTx
  <2>2. /\ opname[call[r].opname] \in {"draft", "in_progress"}
        /\ seen[r].status = opname[call[r].opname]
    BY <2>1, OpenFacts DEF UpToDate, StatusCurrent
  <2>3. Atomic!SetOpname(call[r])
    BY <1>2, <2>2 DEF SetOpnameStatus, Saved, Atomic!SetOpname, IInv, TypeOK
  <2> QED
    BY <2>1, <2>3, OpenFacts, CommitAccepts DEF Atomic!Effect
<1> QED
  BY <1>1, <1>2

\* The two rows of a committing completion, as they are at the commit: the
\* source gives up the quantity, the destination gets it or is created.
LEMMA CompletionUpdates ==
  ASSUME IInv, Placed, Sequential, NEW r \in Requests, CompleteTransfer(r), ~Fail(r)
  PROVE  LET t == transfer[call[r].transfer]
             s == seen[r].source
             d == seen[r].dest
         IN  /\ s \in Matching(t.from, t.item) /\ stock[s].quantity >= t.quantity
             /\ IF d = r THEN Matching(t.to, t.item) = {} ELSE d \in Matching(t.to, t.item)
             /\ Debited(r, t.quantity) = [stock[s] EXCEPT !.quantity = stock[s].quantity - t.quantity]
             /\ Credited(r, t) =
                  IF d = r THEN [exists |-> TRUE, isDeleted |-> FALSE, warehouse |-> t.to,
                                 item |-> t.item, quantity |-> t.quantity]
                  ELSE [stock[d] EXCEPT !.quantity = stock[d].quantity + t.quantity]
             /\ Credited(r, t).quantity \in Quantity
<1> DEFINE t == transfer[call[r].transfer]
           s == seen[r].source
           d == seen[r].dest
<1>1. pc[r] = "matched" /\ pc[r] \in InTx /\ Completing(r) /\ Credited(r, t).quantity <= MaxQuantity
  BY DEF CompleteTransfer, InTx, Completing
<1>2. /\ s \in Matching(t.from, t.item) /\ seen[r].row = stock[s]
      /\ IF d = r THEN Matching(t.to, t.item) = {}
         ELSE d \in Matching(t.to, t.item) /\ seen[r].destRow = stock[d]
  BY <1>1, OpenFacts DEF UpToDate, CompletionCurrent
<1>3. t.quantity <= stock[s].quantity
  BY <1>1, <1>2 DEF IInv, CompletionCovered
<1>4. s \in StockIds /\ d \in StockIds /\ t \in TransferRow
  BY <1>1, CompletingFacts DEF IInv, TypeOK
<1>5. /\ stock[s].quantity \in Quantity /\ stock[d].quantity \in Quantity
      /\ stock[s] \in StockRow /\ stock[d] \in StockRow
  BY <1>4 DEF IInv, TypeOK, QuantityInRange
<1>6. t.quantity \in Int /\ t.quantity > 0 /\ stock[s].quantity \in Int /\ stock[d].quantity \in Int
  BY <1>4, <1>5, AmountsAreNumbers DEF TransferRow
<1>7. stock[s].quantity >= t.quantity
  BY <1>3, <1>6
<1>8. Credited(r, t) =
        IF d = r THEN [exists |-> TRUE, isDeleted |-> FALSE, warehouse |-> t.to,
                       item |-> t.item, quantity |-> t.quantity]
        ELSE [stock[d] EXCEPT !.quantity = stock[d].quantity + t.quantity]
  BY <1>2 DEF Credited
<1>9. Credited(r, t).quantity \in Quantity
  <2>1. Credited(r, t).quantity = IF d = r THEN t.quantity ELSE stock[d].quantity + t.quantity
    BY <1>5, <1>8 DEF StockRow
  <2>2. stock[d].quantity >= 0
    BY <1>5, AmountsAreNumbers
  <2> QED
    BY <1>1, <1>6, <2>1, <2>2, TypesAssumption DEF Quantity
<1> QED
  BY <1>2, <1>7, <1>8, <1>9 DEF Debited

LEMMA CompleteTransferAtomic ==
  ASSUME IInv, Placed, Sequential, NEW r \in Requests, CompleteTransfer(r), ~Fail(r)
  PROVE  Atomic!Next
<1> DEFINE c == call[r]
           t == transfer[c.transfer]
           s == seen[r].source
           d == seen[r].dest
           dests == Matching(t.to, t.item)
<1>1. /\ pc[r] \in InTx /\ Completing(r) /\ Finish(r, "ok")
      /\ transfer' = [transfer EXCEPT ![c.transfer].status = "completed"]
      /\ UNCHANGED <<opname, adjustments>>
  BY DEF CompleteTransfer, InTx, Completing
<1>2. /\ c.op = "updateTransferStatus" /\ c.status = "completed"
      /\ t.status \in {"pending", "in_transit"}
  BY <1>1, CompletingFacts, OpenFacts
     DEF UpToDate, CompletionCurrent, StatusCurrent, Completing
<1>3. /\ s \in StockIds /\ d \in StockIds /\ s # d
      /\ stock' = [stock EXCEPT ![s] = Debited(r, t.quantity), ![d] = Credited(r, t)]
      /\ stock \in [StockIds -> StockRow]
  BY CompletionMoves DEF IInv, TypeOK
<1>4. /\ s \in Matching(t.from, t.item) /\ stock[s].quantity >= t.quantity
      /\ IF d = r THEN dests = {} ELSE d \in dests
      /\ Debited(r, t.quantity) = [stock[s] EXCEPT !.quantity = stock[s].quantity - t.quantity]
      /\ Credited(r, t) =
           IF d = r THEN [exists |-> TRUE, isDeleted |-> FALSE, warehouse |-> t.to,
                          item |-> t.item, quantity |-> t.quantity]
           ELSE [stock[d] EXCEPT !.quantity = stock[d].quantity + t.quantity]
      /\ Credited(r, t).quantity \in Quantity
  BY CompletionUpdates
<1>5. d \in IF dests = {} THEN {r} ELSE dests
  BY <1>4
<1>6. stock' = [stock EXCEPT
         ![s] = Atomic!Raised(stock[s], -t.quantity),
         ![d] = IF d = r THEN Atomic!NewRow(t.to, t.item, t.quantity)
                         ELSE Atomic!Raised(stock[d], t.quantity)]
  <2>1. Atomic!Raised(stock[s], -t.quantity) = Debited(r, t.quantity)
    <3>1. stock[s].quantity \in Int /\ t.quantity \in Int
      BY <1>1, <1>3, CompletingFacts, AmountsAreNumbers
         DEF IInv, TypeOK, QuantityInRange, TransferRow
    <3>2. stock[s].quantity + (-t.quantity) = stock[s].quantity - t.quantity
      BY <3>1
    <3> QED
      BY <1>4, <3>2 DEF Atomic!Raised
  <2>2. (IF d = r THEN Atomic!NewRow(t.to, t.item, t.quantity)
                  ELSE Atomic!Raised(stock[d], t.quantity)) = Credited(r, t)
    BY <1>4 DEF Atomic!NewRow, Atomic!Raised
  <2> HIDE DEF s, d, t
  <2> QED
    BY <1>3, <2>1, <2>2
<1>7. stock'[d] = Credited(r, t)
  BY <1>3
<1>8. Matching(t.from, t.item) = Atomic!Holding(t.from, t.item) /\ dests = Atomic!Holding(t.to, t.item)
  BY DEF Matching, Visible, Atomic!Holding, Atomic!StockIds, StockIds
<1>9. Atomic!MoveUnits(r, c)
  <2> HIDE DEF c, s, d
  <2> QED
    BY <1>1, <1>2, <1>4, <1>5, <1>6, <1>7, <1>8
       DEF Atomic!MoveUnits, Atomic!OpenTransfer, Atomic!Quantity, Quantity
<1> QED
  BY <1>1, <1>2, <1>9, OpenFacts, CommitAccepts DEF Atomic!Effect
LEMMA InitAtomic == Init => Atomic!Init
  BY DEF Init, Atomic!Init, InTx, Answered

\* The steps between beginning and commit change nothing a client can see.
LEMMA InvisibleStep ==
  ASSUME IInv, NEW r \in Requests, NEW label \in InTx, pc[r] \notin Answered,
         pc' = [pc EXCEPT ![r] = label], UNCHANGED tables
  PROVE  UNCHANGED <<tables, Answer>>
<1>1. label \notin Answered
  BY DEF InTx, Answered
<1>2. \A q \in Requests : IF q = r THEN pc'[q] = label ELSE pc'[q] = pc[q]
  BY DEF IInv, TypeOK
<1>3. Answer' = Answer
  BY <1>1, <1>2 DEF Answer
<1> QED
  BY <1>3

LEMMA StepAtomic ==
  ASSUME IInv, Placed, Sequential, [Next]_vars
  PROVE  [Atomic!Next]_(Atomic!vars)
<1> DEFINE Quiet == UNCHANGED <<tables, Answer>>
<1>1. CASE UNCHANGED vars
  <2>1. Quiet
    BY <1>1 DEF vars, tables, Answer
  <2> QED
    BY <2>1 DEF tables, Answer, Atomic!vars
<1>2. ASSUME NEW r \in Requests, pc[r] \notin Answered, Fail(r) PROVE Atomic!Next
  BY <1>2, FailRejects
<1>3. ASSUME NEW r \in Requests, NEW c \in Workload, Start(r, c) PROVE Quiet
  BY <1>3, InvisibleStep DEF Start, InTx, Answered
<1>4. ASSUME NEW r \in Requests, AcquireTimeout(r) \/ DeadlockVictim(r) \/ DatabaseError(r)
      PROVE  Atomic!Next
  BY <1>2, <1>4 DEF AcquireTimeout, DeadlockVictim, DatabaseError, InTx, Answered
<1>5. ASSUME NEW r \in Requests, Proceed(r) PROVE Atomic!Next \/ Quiet
  <2>1. pc[r] \in InTx /\ pc[r] \notin Answered
    BY <1>5 DEF Proceed, Lookup, CheckInsert, FindStock, CheckTransfer, FindTransfer,
                FindSource, FindOpname, StockWrite, InsertStock, SaveStock, DeleteStock,
                AdjustStock, Completion, DebitSource, FindDestination, CompleteTransfer,
                StatusWrite, InsertTransfer, SetTransferStatus, InsertOpname,
                SetOpnameStatus, InTx, Answered
  <2>2. CASE Fail(r)
    BY <1>2, <2>1, <2>2
  <2>3. CASE ~Fail(r) /\ (Lookup(r) \/ DebitSource(r) \/ FindDestination(r))
    <3>1. UNCHANGED tables /\ \E label \in InTx : pc' = [pc EXCEPT ![r] = label]
      BY <2>3 DEF Lookup, CheckInsert, FindStock, CheckTransfer, FindTransfer, FindSource,
                  FindOpname, DebitSource, FindDestination, Advance, InTx
    <3> QED
      BY <2>1, <3>1, InvisibleStep
  <2>4. CASE ~Fail(r) /\ (StockWrite(r) \/ StatusWrite(r) \/ CompleteTransfer(r))
    BY <2>4, InsertStockAtomic, SaveStockAtomic, DeleteStockAtomic, AdjustStockAtomic,
       InsertTransferAtomic, SetTransferAtomic, OpnameAtomic, CompleteTransferAtomic
       DEF StockWrite, StatusWrite
  <2> QED
    BY <1>5, <2>2, <2>3, <2>4 DEF Proceed, Completion
<1>6. Atomic!Next \/ Quiet
  BY <1>1, <1>3, <1>4, <1>5 DEF Next, vars, tables, Answer
<1> QED
  BY <1>6 DEF tables, Answer, Atomic!vars

\* Requests that come one at a time take effect atomically: with one connection
\* every behaviour of the service, as its clients and its tables see it, is one
\* of AtomicInventory (stock.service.js:481, "Execute the transfer atomically").
THEOREM ImplementsAtomicHolds ==
  ASSUME OneConnection
  PROVE  Spec => ImplementsAtomic
<1>1. Init => Atomic!Init
  BY InitAtomic
<1>2. IInv /\ Placed /\ Sequential /\ [Next]_vars => [Atomic!Next]_(Atomic!vars)
  BY StepAtomic
<1> QED
  BY <1>1, <1>2, NeverStale, PTL DEF Spec, ImplementsAtomic, Atomic!Spec
-----------------------------------------------------------------------------
(***************************************************************************)
(* Sums over a finite set.  SumFunctionOnSet is a fold: it takes away one  *)
(* element after the other, in an order that is not said.  The books need  *)
(* three facts of it: the sum is a number, a sum of zeros is zero, and     *)
(* changing one summand changes the sum by the difference.  Each follows   *)
(* by looking at a least subset for which it would fail.                   *)
(***************************************************************************)

Picked(s) == CHOOSE x \in s : TRUE

\* iter adds up f over the subsets of S.
Sums(iter, f, S) ==
    iter = [s \in SUBSET S |-> IF s = {} THEN 0 ELSE f[Picked(s)] + iter[s \ {Picked(s)}]]

SumsOf(f, S) == CHOOSE iter : Sums(iter, f, S)

LEMMA SumExpand ==
  ASSUME NEW f, NEW S
  PROVE  SumFunctionOnSet(f, S) = SumsOf(f, S)[S]
  BY DEF SumFunctionOnSet, FoldFunctionOnSet, MapThenFoldSet, SumsOf, Sums, Picked

\* Induction over the numbers, for a set of them.
LEMMA InductiveSet ==
  ASSUME NEW T, 0 \in T, \A n \in Nat : n \in T => n + 1 \in T
  PROVE  Nat \subseteq T
<1> SUFFICES ASSUME Nat \ T # {} PROVE FALSE
  OBVIOUS
<1>1. \E m \in Nat \ T : \A n \in Nat \ T : <<n, m>> \notin OpToRel(<, Nat)
  <2>1. Nat \ T \subseteq Nat
    OBVIOUS
  <2> QED
    BY <2>1, WFMin, NatLessThanWellFounded, Zenon
<1>2. PICK m \in Nat \ T : \A n \in Nat \ T : ~(n < m)
  BY <1>1 DEF OpToRel
<1>3. m - 1 \in Nat /\ m - 1 \in T
  BY <1>2
<1> QED
  BY <1>2, <1>3

LEMMA LeastSubset ==
  ASSUME NEW S, IsFiniteSet(S), NEW T, T \subseteq SUBSET S, T # {}
  PROVE  \E t \in T : \A u \in T : u \subseteq t => u = t
<1>1. IsWellFoundedOn(StrictSubsetOrdering(S), SUBSET S)
  BY FS_FiniteSubsetsOfFinite, FS_StrictSubsetOrderingWellFounded
<1>2. \E t \in T : \A u \in T : <<u, t>> \notin StrictSubsetOrdering(S)
  BY <1>1, WFMin
<1> QED
  BY <1>2 DEF StrictSubsetOrdering

LEMMA PickedIn == \A s : s # {} => Picked(s) \in s
  BY DEF Picked

\* The sums exist: they can be built up by the size of the subsets.
LEMMA SumsExist ==
  ASSUME NEW S, IsFiniteSet(S), NEW f, \A x \in S : f[x] \in Int
  PROVE  /\ Sums(SumsOf(f, S), f, S)
<1> DEFINE Small(n) == {s \in SUBSET S : Cardinality(s) <= n}
           Adds(g, s) == g[s] = IF s = {} THEN 0 ELSE f[Picked(s)] + g[s \ {Picked(s)}]
           Reaches(g, n) == g \in [Small(n) -> Int] /\ \A s \in Small(n) : Adds(g, s)
           Good == {n \in Nat : \E g : Reaches(g, n)}
<1>1. \A s \in SUBSET S : /\ IsFiniteSet(s) /\ Cardinality(s) \in Nat /\ Cardinality(s) <= Cardinality(S)
                          /\ Cardinality(s) = 0 <=> s = {}
  BY FS_Subset, FS_CardinalityType, FS_EmptySet
<1>2. \A s \in SUBSET S : s # {} => /\ s \ {Picked(s)} \in SUBSET S /\ f[Picked(s)] \in Int
                                    /\ Cardinality(s \ {Picked(s)}) = Cardinality(s) - 1
  BY <1>1, PickedIn, FS_RemoveElement
<1>3. 0 \in Good
  <2> DEFINE g == [s \in Small(0) |-> 0]
  <2>1. \A s \in Small(0) : s = {}
    BY <1>1
  <2>2. Reaches(g, 0)
    BY <2>1
  <2> QED
    BY <2>2
<1>4. ASSUME NEW n \in Nat, n \in Good PROVE n + 1 \in Good
  <2>1. PICK g : Reaches(g, n)
    BY <1>4
  <2> DEFINE Value(s) == IF Cardinality(s) <= n THEN g[s]
                         ELSE f[Picked(s)] + g[s \ {Picked(s)}]
             h == [s \in Small(n + 1) |-> Value(s)]
  <2>2. ASSUME NEW s \in Small(n + 1) PROVE h[s] \in Int /\ Adds(h, s)
    <3>0. h[s] = Value(s) /\ s \in SUBSET S /\ Cardinality(s) \in Nat /\ Cardinality(s) <= n + 1
      BY <1>1
    <3>1. ASSUME s # {}
          PROVE  LET v == s \ {Picked(s)} IN
                 v \in Small(n) /\ g[v] \in Int /\ h[v] = g[v] /\ f[Picked(s)] \in Int
      <4> DEFINE v == s \ {Picked(s)}
      <4>1. v \in SUBSET S /\ Cardinality(v) = Cardinality(s) - 1 /\ f[Picked(s)] \in Int
        BY <1>2, <3>0, <3>1
      <4> HIDE DEF v
      <4>2. Cardinality(v) <= n
        BY <3>0, <4>1
      <4>3. v \in Small(n) /\ v \in Small(n + 1)
        BY <4>1, <4>2, <3>0
      <4>4. g[v] \in Int
        BY <2>1, <4>3
      <4>5. h[v] = g[v]
        BY <4>2, <4>3
      <4> QED
        BY <4>1, <4>3, <4>4, <4>5 DEF v
    <3>2. CASE Cardinality(s) <= n
      <4>1. s \in Small(n)
        BY <3>0, <3>2
      <4>2. h[s] = g[s] /\ g[s] \in Int /\ Adds(g, s)
        BY <2>1, <3>0, <3>2, <4>1
      <4> QED
        BY <3>1, <4>2, Zenon
    <3>3. CASE ~(Cardinality(s) <= n)
      <4>1. s # {}
        BY <1>1, <3>0, <3>3
      <4>2. h[s] = f[Picked(s)] + g[s \ {Picked(s)}]
        BY <3>0, <3>3
      <4> HIDE DEF h, Value
      <4> QED
        BY <3>1, <4>1, <4>2
    <3> QED
      BY <3>2, <3>3
  <2>3. \A s \in Small(n + 1) : h[s] \in Int /\ Adds(h, s)
    BY <2>2, Zenon
  <2>4. h = [s \in Small(n + 1) |-> h[s]]
    OBVIOUS
  <2> HIDE DEF h, Small, Adds
  <2>5. h \in [Small(n + 1) -> Int]
    BY <2>3, <2>4
  <2>6. Reaches(h, n + 1)
    BY <2>3, <2>5
  <2> HIDE DEF Reaches
  <2> QED
    BY <2>6
<1>5. Cardinality(S) \in Good
  <2> HIDE DEF Good
  <2> QED
    BY <1>1, <1>3, <1>4, InductiveSet
<1>6. PICK g : Reaches(g, Cardinality(S))
  BY <1>5
<1>7. Small(Cardinality(S)) = SUBSET S
  BY <1>1
<1>8. Sums(g, f, S)
  BY <1>6, <1>7 DEF Sums
<1> QED
  BY <1>8 DEF SumsOf

LEMMA SumsAdd ==
  ASSUME NEW S, IsFiniteSet(S), NEW f, \A x \in S : f[x] \in Int
  PROVE  /\ SumsOf(f, S)[{}] = 0
         /\ \A s \in SUBSET S : s # {} =>
              SumsOf(f, S)[s] = f[Picked(s)] + SumsOf(f, S)[s \ {Picked(s)}]
         /\ \A s \in SUBSET S : SumsOf(f, S)[s] \in Int
<1> DEFINE I == SumsOf(f, S)
           Bad == {s \in SUBSET S : I[s] \notin Int}
<1>1. I = [s \in SUBSET S |-> IF s = {} THEN 0 ELSE f[Picked(s)] + I[s \ {Picked(s)}]]
  BY SumsExist DEF Sums
<1> HIDE DEF I
<1>2. I[{}] = 0 /\ \A s \in SUBSET S : s # {} => I[s] = f[Picked(s)] + I[s \ {Picked(s)}]
  BY <1>1
<1>3. Bad = {}
  <2> SUFFICES ASSUME Bad # {} PROVE FALSE
    OBVIOUS
  <2>1. Bad \subseteq SUBSET S
    OBVIOUS
  <2> HIDE DEF Bad
  <2>2. PICK t \in Bad : \A u \in Bad : u \subseteq t => u = t
    BY <2>1, LeastSubset
  <2> USE DEF Bad
  <2>3. t \in SUBSET S /\ I[t] \notin Int /\ t # {}
    <3>1. t \in SUBSET S /\ I[t] \notin Int
      OBVIOUS
    <3>2. I[{}] \in Int
      BY <1>2
    <3> QED
      BY <3>1, <3>2, Zenon
  <2>4. Picked(t) \in t /\ f[Picked(t)] \in Int
    BY <2>3, PickedIn
  <2>5. t \ {Picked(t)} \in SUBSET S /\ t \ {Picked(t)} # t /\ t \ {Picked(t)} \subseteq t
    BY <2>3, <2>4
  <2>6. I[t \ {Picked(t)}] \in Int
    BY <2>2, <2>5
  <2>7. I[t] = f[Picked(t)] + I[t \ {Picked(t)}]
    BY <1>2, <2>3
  <2> QED
    BY <2>3, <2>4, <2>6, <2>7
<1> QED
  BY <1>2, <1>3 DEF I

\* Two functions with numbers on S that differ at x only.
DifferAt(f, g, x, S) ==
    /\ x \in S
    /\ \A y \in S : f[y] \in Int /\ g[y] \in Int
    /\ \A y \in S \ {x} : g[y] = f[y]

\* Changing one summand changes the sum by the difference.
LEMMA SumChange ==
  ASSUME NEW S, IsFiniteSet(S), NEW f, NEW g, NEW x, DifferAt(f, g, x, S)
  PROVE  SumFunctionOnSet(g, S) = SumFunctionOnSet(f, S) + (g[x] - f[x])
<1>0. /\ x \in S
      /\ \A y \in S : f[y] \in Int /\ g[y] \in Int
      /\ \A y \in S \ {x} : g[y] = f[y]
  BY DEF DifferAt
<1> USE <1>0
<1> DEFINE F == SumsOf(f, S)
           G == SumsOf(g, S)
           Off(s) == IF x \in s THEN g[x] - f[x] ELSE 0
           Bad == {s \in SUBSET S : G[s] # F[s] + Off(s)}
<1>1. /\ F[{}] = 0 /\ \A s \in SUBSET S : F[s] \in Int
      /\ \A s \in SUBSET S : s # {} => F[s] = f[Picked(s)] + F[s \ {Picked(s)}]
      /\ G[{}] = 0 /\ \A s \in SUBSET S : G[s] \in Int
      /\ \A s \in SUBSET S : s # {} => G[s] = g[Picked(s)] + G[s \ {Picked(s)}]
  BY SumsAdd
<1> HIDE DEF F, G
<1>2. Bad = {}
  <2> SUFFICES ASSUME Bad # {} PROVE FALSE
    OBVIOUS
  <2>1. Bad \subseteq SUBSET S
    OBVIOUS
  <2> HIDE DEF Bad
  <2>2. PICK t \in Bad : \A u \in Bad : u \subseteq t => u = t
    BY <2>1, LeastSubset
  <2>3. t \in SUBSET S /\ G[t] # F[t] + Off(t)
    BY <2>2 DEF Bad
  <2>4. t # {}
    <3>1. Off({}) = 0
      OBVIOUS
    <3> HIDE DEF Off
    <3> SUFFICES ASSUME t = {} PROVE FALSE
      OBVIOUS
    <3>2. G[t] = 0 /\ F[t] = 0 /\ Off(t) = 0
      BY <1>1, <3>1, Zenon
    <3> QED
      BY <2>3, <3>2
  <2> DEFINE p == Picked(t)
             v == t \ {p}
  <2>5. p \in t /\ p \in S /\ f[p] \in Int /\ g[p] \in Int
    BY <2>3, <2>4, PickedIn
  <2>6. v \in SUBSET S /\ v # t /\ v \subseteq t
    BY <2>3, <2>5
  <2>7. G[v] = F[v] + Off(v) /\ G[v] \in Int /\ F[v] \in Int
    BY <1>1, <2>2, <2>6 DEF Bad
  <2>8. G[t] = g[p] + G[v] /\ F[t] = f[p] + F[v]
    BY <1>1, <2>3, <2>4
  <2>9. CASE p = x
    <3>1. Off(v) = 0 /\ Off(t) = g[p] - f[p]
      BY <2>5, <2>9
    <3> HIDE DEF Off, p, v
    <3> QED
      BY <2>3, <2>5, <2>7, <2>8, <3>1
  <2>10. CASE p # x
    <3>1. g[p] = f[p] /\ Off(v) = Off(t) /\ Off(t) \in Int
      BY <2>5, <2>10
    <3> HIDE DEF Off, p, v
    <3> QED
      BY <2>3, <2>5, <2>7, <2>8, <3>1
  <2> QED
    BY <2>9, <2>10
<1>3. G[S] = F[S] + (g[x] - f[x])
  BY <1>2
<1> QED
  BY <1>3, SumExpand DEF F, G

\* A sum of numbers is a number, and a sum of zeros is zero.
LEMMA SumIsNumber ==
  ASSUME NEW S, IsFiniteSet(S), NEW f, \A x \in S : f[x] \in Int
  PROVE  SumFunctionOnSet(f, S) \in Int
  BY SumExpand, SumsAdd

LEMMA SumOfZeros ==
  ASSUME NEW S, IsFiniteSet(S), NEW f, \A x \in S : f[x] = 0
  PROVE  SumFunctionOnSet(f, S) = 0
<1> DEFINE F == SumsOf(f, S)
           Bad == {s \in SUBSET S : F[s] # 0}
<1>1. F[{}] = 0 /\ \A s \in SUBSET S : s # {} => F[s] = f[Picked(s)] + F[s \ {Picked(s)}]
  <2>1. \A x \in S : f[x] \in Int
    OBVIOUS
  <2> QED
    BY <2>1, SumsAdd
<1> HIDE DEF F
<1>2. Bad = {}
  <2> SUFFICES ASSUME Bad # {} PROVE FALSE
    OBVIOUS
  <2>1. Bad \subseteq SUBSET S
    OBVIOUS
  <2> HIDE DEF Bad
  <2>2. PICK t \in Bad : \A u \in Bad : u \subseteq t => u = t
    BY <2>1, LeastSubset
  <2>3. t \in SUBSET S /\ F[t] # 0
    BY <2>2 DEF Bad
  <2>4. t # {}
    BY <1>1, <2>3, Zenon
  <2>5. Picked(t) \in t /\ f[Picked(t)] = 0
    BY <2>3, <2>4, PickedIn
  <2>6. F[t \ {Picked(t)}] = 0
    BY <2>2, <2>3, <2>5 DEF Bad
  <2>7. F[t] = 0 + 0
    BY <1>1, <2>3, <2>4, <2>5, <2>6, Zenon
  <2> QED
    BY <2>3, <2>7
<1> QED
  BY <1>2, SumExpand DEF F
-----------------------------------------------------------------------------
(***************************************************************************)
(* The books balance: UnitsAccountedFor.  A commit changes the units on    *)
(* stock by what it records, because the quantities it writes are computed *)
(* from rows that are still as they were read.                             *)
(***************************************************************************)

\* The adjustments recorded are those of the requests told that they were.
AdjustmentsAnswered ==
    \A r \in Requests :
        /\ r \in adjustments => pc[r] = "ok" /\ call[r].op = "createAdjustment"
        /\ pc[r] = "ok" => call[r] \in Calls

Books == AdjustmentsAnswered /\ UnitsAccountedFor

UnitsIn(table) == SumFunctionOnSet([s \in StockIds |-> UnitsOf(table[s])], StockIds)

\* What a table holds changes with one row by the difference of the two rows.
LEMMA RowChange ==
  ASSUME IsFiniteSet(StockIds), NEW table \in [StockIds -> StockRow],
         NEW s \in StockIds, NEW row \in StockRow
  PROVE  /\ UnitsIn([table EXCEPT ![s] = row])
              = UnitsIn(table) + (UnitsOf(row) - UnitsOf(table[s]))
         /\ UnitsIn(table) \in Int /\ UnitsOf(row) \in Int /\ UnitsOf(table[s]) \in Int
<1> DEFINE new == [table EXCEPT ![s] = row]
           f == [x \in StockIds |-> UnitsOf(table[x])]
           g == [x \in StockIds |-> UnitsOf(new[x])]
<1>1. \A x \in StockRow : UnitsOf(x) \in Int
  BY DEF UnitsOf, StockRow
<1>2. \A x \in StockIds : f[x] \in Int /\ g[x] \in Int /\ table[x] \in StockRow
  BY <1>1
<1>3. \A x \in StockIds \ {s} : g[x] = f[x]
  OBVIOUS
<1>4. g[s] = UnitsOf(row) /\ f[s] = UnitsOf(table[s])
  OBVIOUS
<1>5. UnitsIn(new) = SumFunctionOnSet(g, StockIds) /\ UnitsIn(table) = SumFunctionOnSet(f, StockIds)
  BY DEF UnitsIn
<1> HIDE DEF f, g
<1>6. SumFunctionOnSet(g, StockIds) = SumFunctionOnSet(f, StockIds) + (g[s] - f[s])
  <2>1. DifferAt(f, g, s, StockIds)
    BY <1>2, <1>3 DEF DifferAt
  <2> QED
    BY <2>1, SumChange
<1>7. SumFunctionOnSet(f, StockIds) \in Int
  BY <1>2, SumIsNumber
<1> QED
  BY <1>1, <1>2, <1>4, <1>5, <1>6, <1>7

\* Every request records a number.
LEMMA RecordedIsNumber ==
  ASSUME AdjustmentsAnswered, NEW r \in Requests
  PROVE  Recorded(r) \in Int
<1>1. CASE r \in adjustments
  <2>1. call[r] \in Calls /\ call[r].op = "createAdjustment"
    BY <1>1 DEF AdjustmentsAnswered
  <2>2. call[r].quantity \in Int
    BY <2>1, CallFields
  <2> QED
    BY <1>1, <2>2 DEF Recorded, Adjusted
<1>2. CASE r \notin adjustments /\ pc[r] = "ok" /\ call[r].op = "createStock"
  <2>1. call[r].quantity \in Int
    BY <1>2, CallFields DEF AdjustmentsAnswered
  <2> QED
    BY <1>2, <2>1 DEF Recorded
<1>3. CASE r \notin adjustments /\ ~(pc[r] = "ok" /\ call[r].op = "createStock")
  BY <1>3 DEF Recorded
<1> QED
  BY <1>1, <1>2, <1>3

\* A step that neither answers with success nor touches the tables.
LEMMA QuietBooks ==
  ASSUME Books, NEW r \in Requests, UNCHANGED tables, pc[r] # "ok", pc'[r] # "ok",
         \A q \in Requests \ {r} : pc'[q] = pc[q] /\ call'[q] = call[q]
  PROVE  Books'
<1>1. AdjustmentsAnswered'
  BY DEF Books, AdjustmentsAnswered, tables
<1>2. \A q \in Requests : Recorded(q)' = Recorded(q)
  <2> TAKE q \in Requests
  <2>1. CASE q = r
    <3>1. q \notin adjustments /\ q \notin adjustments'
      BY <2>1 DEF Books, AdjustmentsAnswered, tables
    <3> QED
      BY <2>1, <3>1 DEF Recorded
  <2>2. CASE q # r
    BY <2>2 DEF Recorded, tables
  <2> QED
    BY <2>1, <2>2
<1>3. RecordedUnits' = RecordedUnits
  BY <1>2 DEF RecordedUnits
<1>4. Units' = Units
  BY DEF Units, tables
<1>5. UnitsAccountedFor'
  BY <1>3, <1>4 DEF Books, UnitsAccountedFor
<1> QED
  BY <1>1, <1>5 DEF Books

\* A commit that is no update balances when it changes the units on stock by
\* what it records.
LEMMA CommitBooks ==
  ASSUME IInv, Books, OneConnection, NEW r \in Requests, pc[r] \in InTx, Finish(r, "ok"),
         call[r].op # "updateStock",
         adjustments' = IF call[r].op = "createAdjustment" THEN adjustments \cup {r}
                                                           ELSE adjustments,
         NEW n \in Int, Recorded(r)' = n, Units \in Int, InitialUnits \in Int, Units' = Units + n
  PROVE  Books'
<1>1. /\ pc[r] # "ok" /\ pc'[r] = "ok" /\ call' = call /\ call[r] \in Calls
      /\ \A q \in Requests \ {r} : pc'[q] = pc[q]
  BY RequestFacts DEF Finish, Advance, InTx, IInv, TypeOK
<1>2. AdjustmentsAnswered'
  BY <1>1 DEF Books, AdjustmentsAnswered
<1>3. Recorded(r) = 0
  <2>1. r \notin adjustments
    BY <1>1 DEF Books, AdjustmentsAnswered
  <2> QED
    BY <1>1, <2>1 DEF Recorded
<1>4. \A q \in Requests \ {r} : Recorded(q)' = Recorded(q)
  BY <1>1 DEF Recorded
<1>5. \A q \in Requests : Recorded(q) \in Int /\ Recorded(q)' \in Int
  <2>1. \A q \in Requests : Recorded(q) \in Int
    BY RecordedIsNumber DEF Books
  <2> QED
    BY <1>4, <2>1
<1> DEFINE f == [q \in Requests |-> Recorded(q)]
           g == [q \in Requests |-> Recorded(q)']
<1>6. RecordedUnits = SumFunctionOnSet(f, Requests) /\ RecordedUnits' = SumFunctionOnSet(g, Requests)
  BY DEF RecordedUnits
<1>7. \A q \in Requests : f[q] \in Int /\ g[q] \in Int
  BY <1>5
<1>8. \A q \in Requests \ {r} : g[q] = f[q]
  BY <1>4
<1>9. f[r] = 0 /\ g[r] = n
  BY <1>3
<1> HIDE DEF f, g
<1>10. IsFiniteSet(Requests)
  BY DEF OneConnection
<1>11. SumFunctionOnSet(g, Requests) = SumFunctionOnSet(f, Requests) + (g[r] - f[r])
  <2>1. DifferAt(f, g, r, Requests)
    BY <1>7, <1>8 DEF DifferAt
  <2> QED
    BY <1>10, <2>1, SumChange
<1>12. SumFunctionOnSet(f, Requests) \in Int
  BY <1>7, <1>10, SumIsNumber
<1>13. UnitsAccountedFor'
  <2> SUFFICES ASSUME \A q \in Requests : pc'[q] = "ok" => call'[q].op # "updateStock"
               PROVE  Units' = InitialUnits + RecordedUnits'
    BY DEF UnitsAccountedFor, InitialUnits
  <2>1. Units = InitialUnits + RecordedUnits
    BY <1>1 DEF Books, UnitsAccountedFor
  <2> QED
    BY <1>6, <1>9, <1>11, <1>12, <2>1
<1> QED
  BY <1>2, <1>13 DEF Books
\* The units on stock are a number, and a change of one row shows in them.
LEMMA UnitsAreNumbers ==
  ASSUME IInv, IsFiniteSet(StockIds)
  PROVE  Units \in Int /\ InitialUnits \in Int
<1>1. \A row \in StockRow : UnitsOf(row) \in Int
  BY DEF UnitsOf, StockRow
<1>2. \A s \in StockIds : stock[s] \in StockRow /\ InitStock[s] \in StockRow
  BY TypesAssumption DEF IInv, TypeOK
<1> DEFINE f == [s \in StockIds |-> UnitsOf(stock[s])]
           g == [s \in StockIds |-> UnitsOf(InitStock[s])]
<1>3. \A s \in StockIds : f[s] \in Int /\ g[s] \in Int
  BY <1>1, <1>2
<1>4. Units = SumFunctionOnSet(f, StockIds) /\ InitialUnits = SumFunctionOnSet(g, StockIds)
  BY DEF Units, InitialUnits
<1> HIDE DEF f, g
<1> QED
  BY <1>3, <1>4, SumIsNumber

LEMMA UnitsChange ==
  ASSUME IInv, IsFiniteSet(StockIds), NEW s \in StockIds, NEW row \in StockRow,
         stock' = [stock EXCEPT ![s] = row]
  PROVE  /\ Units' = Units + (UnitsOf(row) - UnitsOf(stock[s]))
         /\ UnitsOf(row) \in Int /\ UnitsOf(stock[s]) \in Int
<1>1. Units = UnitsIn(stock) /\ Units' = UnitsIn([stock EXCEPT ![s] = row])
  BY DEF Units, UnitsIn
<1>2. stock \in [StockIds -> StockRow]
  BY DEF IInv, TypeOK
<1> QED
  BY <1>1, <1>2, RowChange

-----------------------------------------------------------------------------
LEMMA FailBooks ==
  ASSUME IInv, Books, NEW r \in Requests, pc[r] \notin Answered, Fail(r)
  PROVE  Books'
<1>1. /\ UNCHANGED tables /\ pc[r] # "ok" /\ pc'[r] # "ok"
      /\ \A q \in Requests \ {r} : pc'[q] = pc[q] /\ call'[q] = call[q]
  BY DEF Fail, Finish, Advance, IInv, TypeOK, Answered
<1> QED
  BY <1>1, QuietBooks

\* A creation records what it puts on stock.
LEMMA InsertStockBooks ==
  ASSUME IInv, Placed, Books, OneConnection, IsFiniteSet(StockIds),
         NEW r \in Requests, InsertStock(r), ~Fail(r)
  PROVE  Books'
<1> DEFINE row == [exists |-> TRUE, isDeleted |-> FALSE,
                   warehouse |-> call[r].warehouse, item |-> call[r].item,
                   quantity |-> call[r].quantity]
<1>1. /\ pc[r] \in InTx /\ call[r].op = "createStock" /\ Finish(r, "ok")
      /\ stock' = [stock EXCEPT ![r] = row] /\ UNCHANGED adjustments
  BY DEF InsertStock, InTx
<1>2. row \in StockRow /\ UnitsOf(row) = call[r].quantity /\ call[r].quantity \in Int
  BY <1>1, RequestFacts, CallFields DEF StockRow, UnitsOf
<1>3. r \in StockIds /\ UnitsOf(stock[r]) = 0
  BY <1>1, RequestFacts DEF Placed, NotYetInserted, UnitsOf, InTx, Answered
<1> HIDE DEF row
<1>4. Units' = Units + call[r].quantity
  <2>1. Units' = Units + (UnitsOf(row) - UnitsOf(stock[r]))
    BY <1>1, <1>2, <1>3, UnitsChange
  <2> QED
    BY <1>2, <1>3, <2>1
<1>5. Recorded(r)' = call[r].quantity
  <2>1. r \notin adjustments /\ pc'[r] = "ok" /\ call' = call
    BY <1>1 DEF Books, AdjustmentsAnswered, Finish, Advance, InTx, IInv, TypeOK
  <2> QED
    BY <1>1, <2>1 DEF Recorded
<1> QED
  BY <1>1, <1>2, <1>4, <1>5, UnitsAreNumbers, CommitBooks

\* After an update by hand the books say nothing more.
LEMMA SaveStockBooks ==
  ASSUME IInv, Books, NEW r \in Requests, SaveStock(r), ~Fail(r)
  PROVE  Books'
<1>1. /\ pc[r] \in InTx /\ call[r].op = "updateStock" /\ Finish(r, "ok")
      /\ UNCHANGED adjustments
  BY DEF SaveStock, InTx
<1>2. /\ pc'[r] = "ok" /\ call' = call /\ call[r] \in Calls /\ pc[r] # "ok"
      /\ \A q \in Requests \ {r} : pc'[q] = pc[q]
  BY <1>1, RequestFacts DEF Finish, Advance, InTx, IInv, TypeOK
<1>3. AdjustmentsAnswered'
  BY <1>1, <1>2 DEF Books, AdjustmentsAnswered
<1>4. UnitsAccountedFor'
  BY <1>1, <1>2 DEF UnitsAccountedFor
<1> QED
  BY <1>3, <1>4 DEF Books

\* An adjustment changes its row by the amount that it records.
LEMMA AdjustStockBooks ==
  ASSUME IInv, Placed, Sequential, Books, OneConnection, IsFiniteSet(StockIds),
         NEW r \in Requests, AdjustStock(r), ~Fail(r)
  PROVE  Books'
<1> DEFINE c == call[r]
           s == seen[r].source
           new == Adjusted(c, seen[r].row.quantity)
           row == [stock[s] EXCEPT !.quantity = new]
<1>1. /\ pc[r] = "looked" /\ pc[r] \in InTx /\ c.op = "createAdjustment" /\ Finish(r, "ok")
      /\ stock' = [stock EXCEPT ![s].quantity = new]
      /\ adjustments' = adjustments \cup {r}
  BY DEF AdjustStock, InTx
<1>2. s \in StockIds /\ stock[s].exists /\ seen[r].row = stock[s] /\ c.quantity \in Int
  BY <1>1, OpenFacts, CallFields DEF UpToDate, StockCurrent
<1>3. stock[s] \in StockRow /\ stock[s].quantity \in Int
  BY <1>2 DEF IInv, TypeOK, StockRow
<1>4. new \in Int /\ Adjusted(c, 0) \in Int /\ new - stock[s].quantity = Adjusted(c, 0)
  BY <1>2, <1>3 DEF Adjusted
<1>5. row \in StockRow /\ UnitsOf(row) = new /\ UnitsOf(stock[s]) = stock[s].quantity
  BY <1>2, <1>3, <1>4 DEF StockRow, UnitsOf
<1>6. stock' = [stock EXCEPT ![s] = row]
  BY <1>1
<1>7. Units' = Units + Adjusted(c, 0)
  <2> HIDE DEF row, new, s, c
  <2>1. Units' = Units + (UnitsOf(row) - UnitsOf(stock[s]))
    BY <1>2, <1>5, <1>6, UnitsChange
  <2> QED
    BY <1>4, <1>5, <2>1
<1>8. Recorded(r)' = Adjusted(c, 0)
  <2>1. r \in adjustments' /\ call' = call
    BY <1>1 DEF Finish, Advance
  <2> QED
    BY <1>1, <2>1 DEF Recorded
<1> QED
  BY <1>1, <1>4, <1>7, <1>8, UnitsAreNumbers, CommitBooks

\* A commit that writes nothing on stock and records nothing.
LEMMA NoUnitsBooks ==
  ASSUME IInv, Books, OneConnection, IsFiniteSet(StockIds),
         NEW r \in Requests, pc[r] \in InTx, Finish(r, "ok"),
         call[r].op \notin {"updateStock", "createStock", "createAdjustment"},
         UNCHANGED adjustments, Units' = Units
  PROVE  Books'
<1>1. Recorded(r)' = 0
  <2>1. r \notin adjustments' /\ call' = call
    BY DEF Books, AdjustmentsAnswered, Finish, Advance, InTx
  <2> QED
    BY <2>1 DEF Recorded
<1>2. Units' = Units + 0 /\ Units \in Int /\ InitialUnits \in Int
  BY UnitsAreNumbers
<1> QED
  BY <1>1, <1>2, CommitBooks

\* What a completion takes from one row it gives to the other.
LEMMA CompleteTransferBooks ==
  ASSUME IInv, Placed, Sequential, Books, OneConnection, IsFiniteSet(StockIds),
         NEW r \in Requests, CompleteTransfer(r), ~Fail(r)
  PROVE  Books'
<1> DEFINE t == transfer[call[r].transfer]
           s == seen[r].source
           d == seen[r].dest
           source == Debited(r, t.quantity)
           dest == Credited(r, t)
           half == [stock EXCEPT ![s] = source]
<1>1. /\ pc[r] \in InTx /\ Completing(r) /\ Finish(r, "ok") /\ UNCHANGED adjustments
  BY DEF CompleteTransfer, InTx, Completing
<1>2. call[r].op = "updateTransferStatus" /\ t \in TransferRow
  BY <1>1, CompletingFacts DEF IInv, TypeOK
<1>3. /\ s \in StockIds /\ d \in StockIds /\ s # d
      /\ stock' = [stock EXCEPT ![s] = source, ![d] = dest]
      /\ stock \in [StockIds -> StockRow]
  BY CompletionMoves DEF IInv, TypeOK
<1>4. /\ s \in Matching(t.from, t.item)
      /\ d # r => d \in Matching(t.to, t.item)
      /\ source = [stock[s] EXCEPT !.quantity = stock[s].quantity - t.quantity]
      /\ dest = IF d = r THEN [exists |-> TRUE, isDeleted |-> FALSE, warehouse |-> t.to,
                               item |-> t.item, quantity |-> t.quantity]
                ELSE [stock[d] EXCEPT !.quantity = stock[d].quantity + t.quantity]
  BY CompletionUpdates
<1>5. /\ stock[s] \in StockRow /\ stock[d] \in StockRow /\ t.quantity \in Int
      /\ stock[s].quantity \in Int /\ stock[d].quantity \in Int
      /\ t.to \in Warehouses /\ t.item \in Items
  BY <1>2, <1>3, AmountsAreNumbers DEF StockRow, TransferRow
<1>6. stock[s].exists /\ IF d = r THEN ~stock[d].exists ELSE stock[d].exists
  BY <1>1, <1>4, OpenFacts DEF Matching, Visible
<1>7. /\ source \in StockRow /\ UnitsOf(stock[s]) = stock[s].quantity
      /\ UnitsOf(source) = UnitsOf(stock[s]) - t.quantity
  BY <1>4, <1>5, <1>6 DEF StockRow, UnitsOf
<1>8. dest \in StockRow /\ UnitsOf(stock[d]) \in Int /\ UnitsOf(dest) = UnitsOf(stock[d]) + t.quantity
  <2>1. CASE d = r
    BY <1>4, <1>5, <1>6, <2>1 DEF StockRow, UnitsOf
  <2>2. CASE d # r
    BY <1>4, <1>5, <1>6, <2>2 DEF StockRow, UnitsOf
  <2> QED
    BY <2>1, <2>2
<1> HIDE DEF source, dest, t, s, d
<1>9. /\ half \in [StockIds -> StockRow] /\ half[d] = stock[d]
      /\ stock' = [half EXCEPT ![d] = dest]
  BY <1>3, <1>7
<1> HIDE DEF half
<1>10. /\ UnitsIn(half) = UnitsIn(stock) + (UnitsOf(source) - UnitsOf(stock[s]))
       /\ UnitsIn(stock) \in Int
  BY <1>3, <1>7, RowChange DEF half
<1>11. /\ UnitsIn(stock') = UnitsIn(half) + (UnitsOf(dest) - UnitsOf(half[d]))
  <2>1. UnitsIn([half EXCEPT ![d] = dest]) = UnitsIn(half) + (UnitsOf(dest) - UnitsOf(half[d]))
    BY <1>3, <1>8, <1>9, RowChange
  <2> QED
    BY <1>9, <2>1
<1>12. Units = UnitsIn(stock) /\ Units' = UnitsIn(stock')
  BY DEF Units, UnitsIn
<1>13. Units' = Units
  BY <1>5, <1>7, <1>8, <1>9, <1>10, <1>11, <1>12
<1> QED
  BY <1>1, <1>2, <1>13, NoUnitsBooks
-----------------------------------------------------------------------------
LEMMA InitBooks ==
  ASSUME OneConnection, IsFiniteSet(StockIds)
  PROVE  Init => Books
<1> SUFFICES ASSUME Init PROVE Books
  OBVIOUS
<1>1. AdjustmentsAnswered
  BY DEF Init, AdjustmentsAnswered
<1>2. RecordedUnits = 0
  <2> DEFINE f == [r \in Requests |-> Recorded(r)]
  <2>1. \A r \in Requests : f[r] = 0
    BY DEF Init, Recorded
  <2>2. RecordedUnits = SumFunctionOnSet(f, Requests) /\ IsFiniteSet(Requests)
    BY DEF RecordedUnits, OneConnection
  <2> HIDE DEF f
  <2> QED
    BY <2>1, <2>2, SumOfZeros
<1>3. Units = InitialUnits /\ InitialUnits \in Int
  <2>1. Units = InitialUnits
    BY DEF Init, Units, InitialUnits
  <2> QED
    BY <2>1, InitEstablishes, UnitsAreNumbers
<1> QED
  BY <1>1, <1>2, <1>3 DEF Books, UnitsAccountedFor

LEMMA BooksPreserved ==
  ASSUME OneConnection, IsFiniteSet(StockIds)
  PROVE  IInv /\ Placed /\ Sequential /\ Books /\ [Next]_vars => Books'
<1> SUFFICES ASSUME IInv, Placed, Sequential, Books, [Next]_vars PROVE Books'
  OBVIOUS
<1>1. CASE UNCHANGED vars
  BY <1>1 DEF vars, Books, AdjustmentsAnswered, UnitsAccountedFor, Units, InitialUnits,
              RecordedUnits, Recorded
<1>2. ASSUME NEW r \in Requests, NEW c \in Workload, Start(r, c) PROVE Books'
  <2>1. /\ UNCHANGED tables /\ pc[r] # "ok" /\ pc'[r] # "ok"
        /\ \A q \in Requests \ {r} : pc'[q] = pc[q] /\ call'[q] = call[q]
    BY <1>2 DEF Start, IInv, TypeOK
  <2> QED
    BY <2>1, QuietBooks
<1>3. ASSUME NEW r \in Requests, AcquireTimeout(r) \/ DeadlockVictim(r) \/ DatabaseError(r)
      PROVE  Books'
  BY <1>3, FailBooks DEF AcquireTimeout, DeadlockVictim, DatabaseError, InTx, Answered
<1>4. ASSUME NEW r \in Requests, Proceed(r), Fail(r) PROVE Books'
  <2>1. pc[r] \in InTx /\ pc[r] \notin Answered
    BY <1>4 DEF Proceed, Lookup, CheckInsert, FindStock, CheckTransfer, FindTransfer,
                FindSource, FindOpname, StockWrite, InsertStock, SaveStock, DeleteStock,
                AdjustStock, Completion, DebitSource, FindDestination, CompleteTransfer,
                StatusWrite, InsertTransfer, SetTransferStatus, InsertOpname,
                SetOpnameStatus, InTx, Answered
  <2> QED
    BY <1>4, <2>1, FailBooks
<1>5. ASSUME NEW r \in Requests, ~Fail(r), Lookup(r) \/ DebitSource(r) \/ FindDestination(r)
      PROVE  Books'
  <2>1. /\ UNCHANGED <<tables, call>> /\ pc[r] \in InTx
        /\ \E label \in InTx : pc' = [pc EXCEPT ![r] = label]
    BY <1>5 DEF Lookup, CheckInsert, FindStock, CheckTransfer, FindTransfer, FindSource,
                FindOpname, DebitSource, FindDestination, Advance, InTx
  <2>2. /\ pc[r] # "ok" /\ pc'[r] # "ok"
        /\ \A q \in Requests \ {r} : pc'[q] = pc[q] /\ call'[q] = call[q]
    BY <2>1 DEF InTx, IInv, TypeOK
  <2> QED
    BY <2>1, <2>2, QuietBooks
<1>6. ASSUME NEW r \in Requests, ~Fail(r), StockWrite(r) PROVE Books'
  <2>1. CASE DeleteStock(r)
    <3>1. /\ pc[r] \in InTx /\ Finish(r, "ok") /\ call[r].op = "deleteStock"
          /\ UNCHANGED <<stock, adjustments>>
      BY <2>1 DEF DeleteStock, SoftDelete, InTx, IInv, TypeOK
    <3> QED
      BY <3>1, NoUnitsBooks DEF Units
  <2> QED
    BY <1>6, <2>1, InsertStockBooks, SaveStockBooks, AdjustStockBooks DEF StockWrite
<1>7. ASSUME NEW r \in Requests, ~Fail(r), StatusWrite(r) PROVE Books'
  <2>1. /\ pc[r] \in InTx /\ Finish(r, "ok") /\ UNCHANGED <<stock, adjustments>>
        /\ call[r].op \notin {"updateStock", "createStock", "createAdjustment"}
    BY <1>7 DEF StatusWrite, InsertTransfer, SetTransferStatus, InsertOpname,
                SetOpnameStatus, InTx
  <2> QED
    BY <2>1, NoUnitsBooks DEF Units
<1>8. ASSUME NEW r \in Requests, Proceed(r) PROVE Books'
  BY <1>4, <1>5, <1>6, <1>7, <1>8, CompleteTransferBooks DEF Proceed, Completion
<1> QED
  BY <1>1, <1>2, <1>3, <1>8 DEF Next

\* As long as nobody overwrites a quantity by hand, the units on stock are the
\* initial ones plus what creations and adjustments recorded: with one
\* connection, for every workload and every length of the history.
THEOREM UnitsAccountedForHolds ==
  ASSUME OneConnection, IsFiniteSet(SeedStocks)
  PROVE  Spec => []UnitsAccountedFor
<1>1. IsFiniteSet(StockIds)
  BY FS_Union DEF StockIds, OneConnection
<1>2. Init => Books
  BY <1>1, InitBooks
<1>3. IInv /\ Placed /\ Sequential /\ Books /\ [Next]_vars => Books'
  BY <1>1, BooksPreserved
<1>4. Books => UnitsAccountedFor
  BY DEF Books
<1> QED
  BY <1>2, <1>3, <1>4, NeverStale, PTL DEF Spec
=============================================================================
