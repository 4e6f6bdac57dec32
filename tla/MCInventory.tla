---------------------------- MODULE MCInventory -----------------------------
(***************************************************************************)
(* Small instances of Inventory: two warehouses, one item kept in both and *)
(* a second one kept in neither, an open transfer in each direction.       *)
(***************************************************************************)
EXTENDS Inventory, TLC

CONSTANTS A, B, x, y, s1, s2, t1, t2, o1

MCWarehouses    == {A, B}
MCItems         == {x, y}
MCSeedStocks    == {s1, s2}
MCSeedTransfers == {t1, t2}
MCSeedOpnames   == {o1}

Row(w, q) == [exists |-> TRUE, isDeleted |-> FALSE,
              warehouse |-> w, item |-> x, quantity |-> q]
NoRow     == [exists |-> FALSE, isDeleted |-> FALSE,
              warehouse |-> A, item |-> x, quantity |-> 0]

MCInitStock == [s \in MCSeedStocks \cup Requests |->
                  CASE s = s1 -> Row(A, 2)
                    [] s = s2 -> Row(B, 1)
                    [] OTHER  -> NoRow]

Open(status, from, to) == [status |-> status, from |-> from, to |-> to,
                           item |-> x, quantity |-> 1]

MCInitTransfer == [t \in MCSeedTransfers \cup Requests |->
                     CASE t = t1 -> Open("pending", A, B)
                       [] t = t2 -> Open("in_transit", B, A)
                       [] OTHER  -> Open("none", A, B)]

MCInitOpname == [o \in MCSeedOpnames \cup Requests |->
                   IF o = o1 THEN "in_progress" ELSE "none"]

-----------------------------------------------------------------------------
Create(w, i, q)  == [op |-> "createStock", warehouse |-> w, item |-> i, quantity |-> q]
Update(s, i, q)  == [op |-> "updateStock", stock |-> s, item |-> i, quantity |-> q]
Delete(s)        == [op |-> "deleteStock", stock |-> s]
Adjust(s, k, q)  == [op |-> "createAdjustment", stock |-> s, type |-> k, quantity |-> q]
Transfer(f, w, q) == [op |-> "createTransfer", from |-> f, to |-> w, item |-> x, quantity |-> q]
SetTransfer(t, u) == [op |-> "updateTransferStatus", transfer |-> t, status |-> u]
CreateOpname     == [op |-> "createOpname", warehouse |-> A]
SetOpname(o, u)  == [op |-> "updateOpnameStatus", opname |-> o, status |-> u]

\* Requests that race: both transfers completed and cancelled, adjustments,
\* edits and a deletion of the same rows.
RacingWorkload ==
    {SetTransfer(t1, "completed"), SetTransfer(t2, "completed"),
     SetTransfer(t1, "cancelled"),
     Adjust(s1, "addition", 2), Adjust(s1, "subtraction", 2), Adjust(s2, "write_off", 1),
     Update(s2, y, Keep), Update(s1, Keep, 0),
     Create(B, x, 1)}

\* Clients that ask for the same transfer to be completed.
CompletionWorkload == {SetTransfer(t1, "completed")}

\* Long sequences of calls, also about rows that earlier calls created.
SequentialWorkload ==
    {SetTransfer(t, u) : t \in {t1} \cup Requests, u \in {"completed", "cancelled"}}
      \cup {SetTransfer(t1, "in_transit"), SetTransfer(t1, "pending"),
            SetTransfer(t2, "completed"), Adjust(s1, "addition", 1),
            Adjust(s2, "write_off", 1), Update(s1, y, Keep), Update(s2, Keep, 2),
            Delete(s1), Create(A, x, 2), Transfer(A, B, 1), Transfer(B, A, 2),
            Transfer(A, A, 1), CreateOpname}
      \cup {SetOpname(o, u) : o \in {o1} \cup Requests, u \in {"in_progress", "completed"}}

Symmetry == Permutations(Requests)
=============================================================================
