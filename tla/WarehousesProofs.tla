-------------------------- MODULE WarehousesProofs --------------------------
(***************************************************************************)
(* Theorems about Warehouses, for any number of requests, rows and codes.  *)
(*                                                                         *)
(* A request acts on what it looked up several steps ago.  What it still   *)
(* may rely on is a fact about its own task and the tables (Fits) and      *)
(* about its task and that of another request (Clash), which the row locks *)
(* keep apart.                                                             *)
(***************************************************************************)
EXTENDS Warehouses, TLAPS

\* A row to update exists or is gone, and never changes warehouse; a row to
\* insert is nobody's yet.
WriteFits(t) ==
    t.at \in {"check", "write", "written"} =>
        /\ t.fresh => t.changes
        /\ t.fresh /\ t.at # "written" => t.into = Nowhere
        /\ t.fresh /\ t.at = "written" =>
              /\ t.into \in Places /\ place[t.into] = Unused
              /\ t.into \in Warehouses => t.in = Tenant
        /\ ~t.fresh => /\ t.into \in Places /\ place[t.into] # Unused
                       /\ Exists(t.into) => place[t.into].in = t.in

\* What was counted is not at the location that is being destroyed.
DeleteFits(t) ==
    /\ t.at \in {"count", "destroy", "destroyed"} => place[t.row] # Unused
    /\ t.at \in {"destroy", "destroyed"} =>
          \A s \in t.seen : InUse(s) /\ stock[s].location # t.row

\* The location of a new stock row is in its warehouse, unless it is gone.
InsertFits(t) ==
    /\ t.at \in {"insert", "inserted"} /\ t.row.location # Nowhere =>
          /\ place[t.row.location] # Unused
          /\ Exists(t.row.location) => place[t.row.location].in = t.row.warehouse
    /\ t.at = "inserted" => /\ ~InUse(t.into)
                            /\ t.row.location # Nowhere => Exists(t.row.location)

Fits(t) == WriteFits(t) /\ DeleteFits(t) /\ InsertFits(t)

\* What two transactions never have in hand together.
Clash(t, u) ==
    \/ /\ t.at = "written" /\ t.fresh
       /\ u.at = "written" /\ u.changes /\ t.into = u.into
    \/ /\ t.at = "inserted"
       /\ u.at = "inserted" /\ t.into = u.into
    \/ /\ t.at = "destroyed"
       /\ u.at = "inserted" /\ u.row.location = t.row

TasksFit == \A r \in Requests : Fits(request[r])
NoClash  == \A q, r \in Requests : q # r => ~Clash(request[q], request[r])

\* A code that was free when it was checked is free until somebody overtakes.
StaysFree == \A r \in Requests :
                 At(r, {"write", "written"}) /\ r \notin overtaken => ~Taken(request[r])

IInv == TypeOK /\ TasksFit /\ NoClash /\ StaysFree /\ CodesDiffer /\ LocationsMatch

-----------------------------------------------------------------------------
\* The kinds of tasks, by what they are at.
LEMMA TaskKinds ==
    ASSUME NEW t \in Tasks
    PROVE  /\ t.at \in {"check", "write", "written"} =>
                 t \in [at : {"check", "write", "written"}, in : Warehouses \cup {Tenant},
                        code : Codes, into : Places \cup {Nowhere}, fresh : BOOLEAN,
                        changes : BOOLEAN]
           /\ t.at \in {"count", "destroy", "destroyed"} =>
                 t \in [at : {"count", "destroy", "destroyed"}, row : Locations,
                        seen : SUBSET Stocks]
           /\ t.at = "insert" => t \in [at : {"insert"}, row : StockRows]
           /\ t.at = "inserted" => t \in [at : {"inserted"}, row : StockRows, into : Stocks]
BY DEF Tasks, Idle

\* Idle requests rely on nothing.
LEMMA IdleFits == Idle \in Tasks /\ Fits(Idle) /\ \A t : ~Clash(Idle, t) /\ ~Clash(t, Idle)
BY DEF Idle, Tasks, Fits, WriteFits, DeleteFits, InsertFits, Clash

LEMMA InitIInv == Init => IInv
<1> SUFFICES ASSUME Init PROVE IInv
    OBVIOUS
<1>1. \A r \in Requests : request[r] = Idle
  BY DEF Init
<1>2. TypeOK
  BY IdleFits DEF Init, TypeOK, Exists, Places
<1>3. TasksFit /\ NoClash
  BY <1>1, IdleFits DEF TasksFit, NoClash
<1>4. StaysFree /\ CodesDiffer /\ LocationsMatch
  BY <1>1 DEF Init, StaysFree, CodesDiffer, LocationsMatch, At, Idle, Exists, InUse
<1> QED BY <1>2, <1>3, <1>4 DEF IInv

\* Everything but the three commits: one request goes on, the tables stay.
LEMMA TaskStep ==
    ASSUME IInv, NEW r \in Requests, NEW t \in Tasks,
           Becomes(r, t), UNCHANGED <<place, stock, doubled>>,
           Fits(t),
           \A q \in Requests \ {r} : ~Clash(t, request[q]) /\ ~Clash(request[q], t),
           \/ overtaken' = overtaken \ {r}
           \/ overtaken' = overtaken /\ (r \in overtaken => t.at \in {"write", "written"}),
           t.at \in {"write", "written"} => r \in overtaken' \/ ~Taken(t)
    PROVE  IInv'
<1> USE DEF IInv
<1>1. /\ request' \in [Requests -> Tasks] /\ request'[r] = t
      /\ \A q \in Requests \ {r} : request'[q] = request[q]
  BY DEF Becomes, TypeOK
<1>2. TypeOK'
  <2>1. overtaken' \subseteq {q \in Requests : At(q, {"write", "written"})'}
    BY <1>1 DEF TypeOK, At
  <2> QED BY <1>1, <2>1 DEF TypeOK, Exists
<1>3. TasksFit'
  BY <1>1 DEF TasksFit, Fits, WriteFits, DeleteFits, InsertFits, Exists, InUse
<1>4. NoClash'
  <2> SUFFICES ASSUME NEW p \in Requests, NEW q \in Requests, p # q
               PROVE  ~Clash(request'[p], request'[q])
      BY DEF NoClash, Clash
  <2> QED BY <1>1 DEF NoClash
<1>5. StaysFree'
  <2> SUFFICES ASSUME NEW q \in Requests, request'[q].at \in {"write", "written"}, q \notin overtaken'
               PROVE  (~Taken(request[q]))'
      BY DEF StaysFree, At
  <2>1. ~Taken(request'[q])
    BY <1>1 DEF StaysFree, At
  <2> QED BY <1>1, <2>1 DEF Taken, Exists
<1>6. (CodesDiffer /\ LocationsMatch)'
  BY DEF CodesDiffer, LocationsMatch, Exists, InUse
<1> QED BY <1>2, <1>3, <1>4, <1>5, <1>6

-----------------------------------------------------------------------------
\* A request that is past its check still writes what it checked.
LEMMA BeginKeeps ==
    ASSUME IInv, NEW r \in Requests,
           \/ \E c \in Codes : \/ \E w \in Warehouses \cup {Tenant} : Create(r, w, c)
                               \/ \E i \in Places : Update(r, i, c)
           \/ \E l \in Locations : DeleteLocation(r, l)
           \/ \E row \in StockRows : CreateStock(r, row)
    PROVE  IInv'
<1>1. r \notin overtaken
  <2>1. At(r, {"idle"})
    BY DEF Create, Update, DeleteLocation, CreateStock
  <2> QED BY <2>1 DEF IInv, TypeOK, At
<1> DEFINE Starts(t) ==
      /\ t \in Tasks /\ Becomes(r, t) /\ UNCHANGED <<place, stock, overtaken, doubled>>
      /\ Fits(t) /\ t.at \in {"check", "count", "insert"}
<1>2. ASSUME NEW t, Starts(t) PROVE IInv'
  <2>1. \A q \in Requests \ {r} : ~Clash(t, request[q]) /\ ~Clash(request[q], t)
    BY <1>2 DEF Clash
  <2> QED BY <1>1, <1>2, <2>1, TaskStep
<1>3. ASSUME NEW c \in Codes, NEW w \in Warehouses \cup {Tenant}, Create(r, w, c)
      PROVE  IInv'
  <2> DEFINE T == [at |-> "check", in |-> w, code |-> c, into |-> Nowhere,
                   fresh |-> TRUE, changes |-> TRUE]
  <2>1. T \in Tasks /\ Fits(T)
    BY DEF Tasks, Fits, WriteFits, DeleteFits, InsertFits
  <2>2. Starts(T)
    BY <1>3, <2>1 DEF Create
  <2> HIDE DEF T
  <2> QED BY <1>2, <2>2
<1>4. ASSUME NEW c \in Codes, NEW i \in Places, Update(r, i, c)
      PROVE  IInv'
  <2> DEFINE T == [at |-> "check", in |-> place[i].in, code |-> c, into |-> i,
                   fresh |-> FALSE, changes |-> c # place[i].code]
  <2>1. Exists(i) /\ place[i].in \in Warehouses \cup {Tenant}
    BY <1>4 DEF Update, IInv, TypeOK, Exists, PlaceRows
  <2>2. T \in Tasks
    BY <2>1 DEF Tasks
  <2>3. Fits(T)
    BY <2>1 DEF Fits, WriteFits, DeleteFits, InsertFits, Exists
  <2>4. Starts(T)
    BY <1>4, <2>2, <2>3 DEF Update
  <2> HIDE DEF T
  <2> QED BY <1>2, <2>4
<1>5. ASSUME NEW l \in Locations, DeleteLocation(r, l)
      PROVE  IInv'
  <2> DEFINE T == [at |-> "count", row |-> l, seen |-> {}]
  <2>1. T \in Tasks /\ Fits(T)
    BY <1>5 DEF DeleteLocation, Tasks, Fits, WriteFits, DeleteFits, InsertFits, Exists
  <2>2. Starts(T)
    BY <1>5, <2>1 DEF DeleteLocation
  <2> HIDE DEF T
  <2> QED BY <1>2, <2>2
<1>6. ASSUME NEW row \in StockRows, CreateStock(r, row)
      PROVE  IInv'
  <2> DEFINE T == [at |-> "insert", row |-> row]
  <2>1. T \in Tasks
    BY DEF Tasks
  <2>2. Fits(T)
    BY <1>6 DEF CreateStock, Verify, Fits, WriteFits, DeleteFits, InsertFits, Exists
  <2>3. Starts(T)
    BY <1>6, <2>1, <2>2 DEF CreateStock
  <2> HIDE DEF T
  <2> QED BY <1>2, <2>3
<1> QED BY <1>3, <1>4, <1>5, <1>6

\* A request that gives up leaves nothing.
LEMMA GivingUpKeeps ==
    ASSUME IInv, NEW r \in Requests, Becomes(r, Idle), UNCHANGED <<place, stock, doubled>>,
           overtaken' = overtaken \ {r}
    PROVE  IInv'
BY IdleFits, TaskStep DEF Idle

\* The check compares with every other row; nobody overtook before it.
LEMMA CheckKeeps ==
    ASSUME IInv, NEW r \in Requests, Check(r)
    PROVE  IInv'
<1>1. r \notin overtaken /\ overtaken \ {r} = overtaken
  BY DEF Check, IInv, TypeOK, At
<1>2. CASE Taken(request[r])
  BY <1>1, <1>2, GivingUpKeeps DEF Check
<1>3. CASE ~Taken(request[r])
  <2> DEFINE T == [request[r] EXCEPT !.at = "write"]
  <2>1. request[r] \in Tasks /\ Fits(request[r]) /\ request[r].at = "check"
    BY DEF Check, At, IInv, TypeOK, TasksFit
  <2>2. /\ T \in Tasks /\ T.at = "write"
        /\ T.in = request[r].in /\ T.code = request[r].code /\ T.into = request[r].into
        /\ T.fresh = request[r].fresh /\ T.changes = request[r].changes
    BY <2>1, TaskKinds DEF Tasks
  <2>3. Becomes(r, T) /\ UNCHANGED <<place, stock, overtaken, doubled>>
    BY <1>3 DEF Check
  <2> HIDE DEF T
  <2>4. Fits(T) /\ ~Taken(T)
    BY <1>3, <2>1, <2>2 DEF Fits, WriteFits, DeleteFits, InsertFits, Taken
  <2>5. \A q \in Requests \ {r} : ~Clash(T, request[q]) /\ ~Clash(request[q], T)
    BY <2>2 DEF Clash
  <2> QED BY <1>1, <2>2, <2>3, <2>4, <2>5, TaskStep
<1> QED BY <1>2, <1>3

\* The row of an INSERT is one that nobody has in hand.
LEMMA WriteKeeps ==
    ASSUME IInv, NEW r \in Requests, Write(r)
    PROVE  IInv'
<1>1. PICK i \in Target(request[r]) : Becomes(r, [request[r] EXCEPT !.at = "written", !.into = i])
  BY DEF Write
<1> DEFINE T == [request[r] EXCEPT !.at = "written", !.into = i]
<1>2. request[r] \in Tasks /\ Fits(request[r]) /\ request[r].at = "write"
  BY DEF Write, At, IInv, TypeOK, TasksFit
<1>3. i \in Places
  BY <1>2 DEF Target, Fits, WriteFits, Places
<1>4. /\ T \in Tasks /\ T.at = "written"
      /\ T.in = request[r].in /\ T.code = request[r].code /\ T.into = i
      /\ T.fresh = request[r].fresh /\ T.changes = request[r].changes
  BY <1>2, <1>3, TaskKinds DEF Tasks
<1>5. Becomes(r, T) /\ UNCHANGED <<place, stock, overtaken, doubled>>
  BY <1>1 DEF Write
<1> HIDE DEF T
<1>6. Fits(T)
  BY <1>2, <1>3, <1>4, WarehousesAssumption
     DEF Fits, WriteFits, DeleteFits, InsertFits, Target, Places
<1>7. \A q \in Requests \ {r} : ~Clash(T, request[q]) /\ ~Clash(request[q], T)
  <2> SUFFICES ASSUME NEW q \in Requests \ {r}
               PROVE  ~Clash(T, request[q]) /\ ~Clash(request[q], T)
      OBVIOUS
  <2>1. CASE request[r].fresh
    <3>1. ~Writes(q, i) /\ place[i] = Unused
      BY <2>1 DEF Target
    <3>2. Fits(request[q]) /\ request[q] \in Tasks
      BY DEF IInv, TasksFit, TypeOK
    <3> QED BY <1>4, <3>1, <3>2 DEF Clash, Writes, At, Fits, WriteFits
  <2>2. CASE ~request[r].fresh
    <3>1. i = request[r].into /\ place[i] # Unused
      BY <1>2, <2>2 DEF Target, Fits, WriteFits
    <3>2. Fits(request[q])
      BY DEF IInv, TasksFit
    <3> QED BY <1>4, <2>2, <3>1, <3>2 DEF Clash, Fits, WriteFits
  <2> QED BY <2>1, <2>2
<1>8. r \in overtaken \/ ~Taken(T)
  <2>1. r \in overtaken \/ ~Taken(request[r])
    BY <1>2 DEF IInv, StaysFree, At
  <2>2. request[r].into \in {i, Nowhere}
    BY <1>2 DEF Target, Fits, WriteFits
  <2> QED BY <1>4, <2>1, <2>2, WarehousesAssumption DEF Taken, Places
<1> QED BY <1>4, <1>5, <1>6, <1>7, <1>8, TaskStep

\* What a deletion counts is somewhere else.
LEMMA CountKeeps ==
    ASSUME IInv, NEW r \in Requests, Count(r)
    PROVE  IInv'
<1> DEFINE l == request[r].row
           T == [at |-> "destroy", row |-> l, seen |-> {s \in Stocks : InUse(s)}]
<1>1. r \notin overtaken /\ overtaken \ {r} = overtaken
  BY DEF Count, IInv, TypeOK, At
<1>2. request[r] \in Tasks /\ Fits(request[r]) /\ request[r].at = "count"
  BY DEF Count, At, IInv, TypeOK, TasksFit
<1>3. CASE KeptAt(l) # {}
  BY <1>1, <1>3, GivingUpKeeps DEF Count, CountStocks
<1>4. CASE KeptAt(l) = {}
  <2>1. l \in Locations
    BY <1>2, TaskKinds
  <2>2. T \in Tasks /\ T.at = "destroy"
    BY <2>1 DEF Tasks
  <2>3. Fits(T)
    BY <1>2, <1>4 DEF KeptAt, Fits, WriteFits, DeleteFits, InsertFits
  <2>4. Becomes(r, T) /\ UNCHANGED <<place, stock, overtaken, doubled>>
    BY <1>4 DEF Count, CountStocks
  <2> HIDE DEF T
  <2>5. \A q \in Requests \ {r} : ~Clash(T, request[q]) /\ ~Clash(request[q], T)
    BY <2>2 DEF Clash
  <2> QED BY <1>1, <2>2, <2>3, <2>4, <2>5, TaskStep
<1> QED BY <1>3, <1>4

\* The DELETE waits for rows that refer to the location.
LEMMA DestroyKeeps ==
    ASSUME IInv, NEW r \in Requests, Destroy(r)
    PROVE  IInv'
<1> DEFINE T == [request[r] EXCEPT !.at = "destroyed"]
<1>1. r \notin overtaken
  BY DEF Destroy, IInv, TypeOK, At
<1>2. request[r] \in Tasks /\ Fits(request[r]) /\ request[r].at = "destroy"
  BY DEF Destroy, At, IInv, TypeOK, TasksFit
<1>3. /\ T \in Tasks /\ T.at = "destroyed"
      /\ T.row = request[r].row /\ T.seen = request[r].seen
  BY <1>2, TaskKinds DEF Tasks
<1>4. Becomes(r, T) /\ UNCHANGED <<place, stock, overtaken, doubled>>
  BY DEF Destroy
<1> HIDE DEF T
<1>5. Fits(T)
  BY <1>2, <1>3 DEF Fits, WriteFits, DeleteFits, InsertFits
<1>6. \A q \in Requests \ {r} : ~Clash(T, request[q]) /\ ~Clash(request[q], T)
  BY <1>3 DEF Clash, Destroy, Free, RefersTo, At
<1> QED BY <1>1, <1>3, <1>4, <1>5, <1>6, TaskStep

\* The INSERT waits for a DELETE of its location, and its row is nobody's.
LEMMA InsertKeeps ==
    ASSUME IInv, NEW r \in Requests, Insert(r)
    PROVE  IInv'
<1> DEFINE l == request[r].row.location
<1>1. r \notin overtaken /\ overtaken \ {r} = overtaken
  BY DEF Insert, IInv, TypeOK, At
<1>2. request[r] \in Tasks /\ Fits(request[r]) /\ request[r].at = "insert"
  BY DEF Insert, At, IInv, TypeOK, TasksFit
<1>3. CASE Becomes(r, Idle)
  BY <1>1, <1>3, GivingUpKeeps DEF Insert
<1>4. CASE ~Becomes(r, Idle)
  <2>1. PICK s \in Stocks :
            /\ l # Nowhere => Exists(l)
            /\ ~InUse(s)
            /\ \A q \in Requests : At(q, {"inserted"}) => request[q].into # s
            /\ Becomes(r, [at |-> "inserted", row |-> request[r].row, into |-> s])
    BY <1>4 DEF Insert
  <2> DEFINE T == [at |-> "inserted", row |-> request[r].row, into |-> s]
  <2>2. request[r].row \in StockRows
    BY <1>2, TaskKinds
  <2>3. T \in Tasks
    BY <2>2 DEF Tasks
  <2>4. T.at = "inserted" /\ T.row = request[r].row /\ T.into = s
    OBVIOUS
  <2>5. Becomes(r, T) /\ UNCHANGED <<place, stock, overtaken, doubled>>
    BY <2>1 DEF Insert
  <2> HIDE DEF T
  <2>6. Fits(T)
    BY <1>2, <2>1, <2>4 DEF Fits, WriteFits, DeleteFits, InsertFits
  <2>7. \A q \in Requests \ {r} : ~Clash(T, request[q]) /\ ~Clash(request[q], T)
    BY <2>1, <2>4 DEF Clash, Insert, Destroys, At
  <2> QED BY <1>1, <2>3, <2>4, <2>5, <2>6, <2>7, TaskStep
<1> QED BY <1>3, <1>4

LEMMA FailKeeps ==
    ASSUME IInv, NEW r \in Requests, Fail(r)
    PROVE  IInv'
BY GivingUpKeeps DEF Fail

-----------------------------------------------------------------------------
\* The commits.  A code that is committed is announced to all who have checked
\* theirs; the locations that rows refer to stay in their warehouses.
LEMMA CommitKeeps ==
    ASSUME IInv, NEW r \in Requests, Commit(r)
    PROVE  IInv'
<1> DEFINE task   == request[r]
           new    == [in |-> task.in, code |-> task.code]
           rivals == {q \in Requests \ {r} : /\ At(q, {"write", "written"})
                                             /\ request[q].in = task.in
                                             /\ request[q].code = task.code}
<1>1. task \in Tasks /\ Fits(task) /\ task.at = "written"
  BY DEF Commit, At, IInv, TypeOK, TasksFit
<1>2. CASE ~(task.changes /\ place[task.into] # Gone)
  BY <1>2, GivingUpKeeps DEF Commit
<1>3. CASE task.changes /\ place[task.into] # Gone
  <2>1. /\ place' = [place EXCEPT ![task.into] = new]
        /\ overtaken' = (overtaken \cup rivals) \ {r}
        /\ doubled' = IF r \in overtaken THEN doubled \cup {task.into}
                                         ELSE doubled \ {task.into}
        /\ Becomes(r, Idle) /\ stock' = stock
    BY <1>3 DEF Commit
  <2>2. task.into \in Places /\ new \in PlaceRows
    BY <1>1, TaskKinds DEF Fits, WriteFits, PlaceRows
  <2> HIDE DEF new
  <2>3. /\ request' \in [Requests -> Tasks] /\ request'[r] = Idle
        /\ \A q \in Requests \ {r} : request'[q] = request[q]
    BY <2>1, IdleFits DEF Becomes, IInv, TypeOK
  <2>4. /\ place' \in [Places -> PlaceRows \cup {Unused, Gone}]
        /\ place'[task.into] = new
        /\ \A i \in Places \ {task.into} : place'[i] = place[i]
        /\ new \notin {Unused, Gone} /\ new.in = task.in
    BY <2>1, <2>2, WarehousesAssumption DEF IInv, TypeOK, new
  <2>5. \/ task.fresh /\ place[task.into] = Unused
        \/ ~task.fresh /\ Exists(task.into) /\ place[task.into].in = task.in
    BY <1>1, <1>3 DEF Fits, WriteFits, Exists
  <2>6. TypeOK'
    <3>1. \A w \in Warehouses : place'[w] \notin {Unused, Gone} => place'[w].in = Tenant
      <4> SUFFICES ASSUME NEW w \in Warehouses, place'[w] \notin {Unused, Gone}
                   PROVE  place'[w].in = Tenant
          OBVIOUS
      <4>1. CASE w = task.into
        BY <1>1, <2>4, <2>5, <4>1 DEF Fits, WriteFits, IInv, TypeOK
      <4>2. CASE w # task.into
        BY <2>4, <4>2 DEF IInv, TypeOK, Exists, Places
      <4> QED BY <4>1, <4>2
    <3>2. overtaken' \subseteq {q \in Requests : At(q, {"write", "written"})'}
      BY <2>1, <2>3 DEF IInv, TypeOK, At
    <3>3. doubled' \subseteq Places
      BY <2>1, <2>2 DEF IInv, TypeOK
    <3> QED BY <2>1, <2>3, <2>4, <3>1, <3>2, <3>3 DEF TypeOK, IInv, Exists
  <2>7. TasksFit'
    <3> SUFFICES ASSUME NEW q \in Requests
                 PROVE  Fits(request[q])'
        BY DEF TasksFit
    <3>1. CASE q = r
      BY <2>3, <3>1 DEF Fits, WriteFits, DeleteFits, InsertFits, Idle
    <3>2. CASE q # r
      <4>1. /\ Fits(request[q]) /\ request[q] \in Tasks /\ request'[q] = request[q]
            /\ ~Clash(request[q], task)
        BY <2>3, <3>2 DEF IInv, TasksFit, TypeOK, NoClash
      <4>2. WriteFits(request[q])'
        BY <1>1, <1>3, <2>4, <2>5, <4>1 DEF Fits, WriteFits, Exists, Clash
      <4>3. DeleteFits(request[q])'
        BY <2>1, <2>4, <2>5, <4>1, TaskKinds DEF Fits, DeleteFits, InUse, Places
      <4>4. InsertFits(request[q])'
        <5>1. request[q].at \in {"insert", "inserted"} => request[q].row \in StockRows
          BY <4>1, TaskKinds
        <5>2. request[q].at \in {"insert", "inserted"} /\ request[q].row.location # Nowhere
                 => request[q].row.location \in Places
          BY <5>1 DEF StockRows, Places
        <5> QED BY <2>1, <2>4, <2>5, <4>1, <5>2 DEF Fits, InsertFits, Exists, InUse
      <4> QED BY <4>2, <4>3, <4>4 DEF Fits
    <3> QED BY <3>1, <3>2
  <2>8. NoClash'
    <3> SUFFICES ASSUME NEW p \in Requests, NEW q \in Requests, p # q
                 PROVE  ~Clash(request'[p], request'[q])
        BY DEF NoClash, Clash
    <3> QED BY <2>3, IdleFits DEF IInv, NoClash
  <2>9. StaysFree'
    <3> SUFFICES ASSUME NEW q \in Requests, request'[q].at \in {"write", "written"}, q \notin overtaken'
                 PROVE  (~Taken(request[q]))'
        BY DEF StaysFree, At
    <3>1. q # r /\ request'[q] = request[q]
      BY <2>3 DEF Idle
    <3>2. ~Taken(request[q]) /\ q \notin rivals
      BY <2>1, <3>1 DEF IInv, StaysFree, At
    <3>3. [in |-> request[q].in, code |-> request[q].code] # new
      BY <3>1, <3>2 DEF At, new
    <3> QED BY <2>4, <3>1, <3>2, <3>3 DEF Taken, Exists
  <2>10. CodesDiffer'
    <3>1. r \notin overtaken => \A i \in Places \ {task.into} : Exists(i) => place[i] # new
      BY <1>1 DEF IInv, StaysFree, At, Taken, new
    <3> QED BY <2>1, <2>2, <2>4, <3>1 DEF IInv, CodesDiffer, Exists
  <2>11. LocationsMatch'
    <3> SUFFICES ASSUME NEW s \in Stocks, InUse(s), stock[s].location # Nowhere
                 PROVE  /\ Exists(stock[s].location)'
                        /\ place'[stock[s].location].in = stock[s].warehouse
        BY <2>1 DEF LocationsMatch, InUse
    <3>1. stock[s].location \in Places
      BY DEF IInv, TypeOK, InUse, StockRows, Places
    <3>2. Exists(stock[s].location) /\ place[stock[s].location].in = stock[s].warehouse
      BY DEF IInv, LocationsMatch
    <3> QED BY <2>1, <2>4, <2>5, <3>1, <3>2 DEF Exists
  <2> QED BY <2>6, <2>7, <2>8, <2>9, <2>10, <2>11 DEF IInv
<1> QED BY <1>2, <1>3

\* Nobody who inserts a row still needs the location that goes.
LEMMA CommitDestroyKeeps ==
    ASSUME IInv, NEW r \in Requests, CommitDestroy(r)
    PROVE  IInv'
<1> DEFINE l == request[r].row
<1>1. request[r] \in Tasks /\ Fits(request[r]) /\ request[r].at = "destroyed"
  BY DEF CommitDestroy, At, IInv, TypeOK, TasksFit
<1>2. l \in Locations /\ l \in Places /\ l \notin Warehouses /\ l # Nowhere /\ r \notin overtaken
  BY <1>1, TaskKinds, WarehousesAssumption DEF IInv, TypeOK, At, Places
<1>3. /\ request' \in [Requests -> Tasks] /\ request'[r] = Idle
      /\ \A q \in Requests \ {r} : request'[q] = request[q]
  BY IdleFits DEF CommitDestroy, Becomes, IInv, TypeOK
<1>4. /\ place' \in [Places -> PlaceRows \cup {Unused, Gone}]
      /\ place'[l] = Gone /\ \A i \in Places \ {l} : place'[i] = place[i]
  BY <1>2 DEF CommitDestroy, IInv, TypeOK
<1>5. \A s \in Stocks :
          stock'[s] = IF s \in KeptAt(l) THEN [stock[s] EXCEPT !.location = Nowhere] ELSE stock[s]
  BY DEF CommitDestroy
<1>6. \A s \in Stocks :
          /\ InUse(s)' <=> InUse(s)
          /\ InUse(s) => /\ stock[s] \in StockRows /\ stock'[s] \in StockRows
                         /\ stock'[s].warehouse = stock[s].warehouse
                         /\ stock'[s].location = IF stock[s].location = l THEN Nowhere
                                                 ELSE stock[s].location
          /\ ~InUse(s) => stock'[s] = Nowhere
  <2> SUFFICES ASSUME NEW s \in Stocks
               PROVE  /\ InUse(s)' <=> InUse(s)
                      /\ InUse(s) => /\ stock[s] \in StockRows /\ stock'[s] \in StockRows
                                     /\ stock'[s].warehouse = stock[s].warehouse
                                     /\ stock'[s].location = IF stock[s].location = l THEN Nowhere
                                                             ELSE stock[s].location
                      /\ ~InUse(s) => stock'[s] = Nowhere
      OBVIOUS
  <2>1. InUse(s) => stock[s] \in StockRows
    BY DEF IInv, TypeOK, InUse
  <2>2. CASE s \in KeptAt(l)
    <3>1. stock'[s] = [stock[s] EXCEPT !.location = Nowhere] /\ InUse(s) /\ stock[s].location = l
      BY <1>5, <2>2 DEF KeptAt
    <3>2. stock'[s] \in StockRows /\ stock'[s].location = Nowhere
          /\ stock'[s].warehouse = stock[s].warehouse
      BY <2>1, <3>1 DEF StockRows
    <3> QED BY <2>1, <3>1, <3>2, WarehousesAssumption DEF InUse
  <2>3. CASE s \notin KeptAt(l)
    BY <1>5, <2>1, <2>3 DEF KeptAt, InUse
  <2> QED BY <2>2, <2>3
<1>7. TypeOK'
  <2>1. stock' \in [Stocks -> StockRows \cup {Nowhere}]
    <3>1. stock' = [s \in Stocks |-> IF s \in KeptAt(l)
                                     THEN [stock[s] EXCEPT !.location = Nowhere] ELSE stock[s]]
      BY DEF CommitDestroy
    <3>2. \A s \in Stocks : stock'[s] \in StockRows \cup {Nowhere}
      BY <1>6
    <3> HIDE DEF l
    <3> QED BY <3>1, <3>2
  <2>2. overtaken' \subseteq {q \in Requests : At(q, {"write", "written"})'}
    BY <1>2, <1>3 DEF CommitDestroy, IInv, TypeOK, At
  <2>3. doubled' \subseteq Places
    BY DEF CommitDestroy, IInv, TypeOK
  <2>4. \A w \in Warehouses : place'[w] = place[w]
    BY <1>2, <1>4 DEF Places
  <2> QED BY <1>3, <1>4, <2>1, <2>2, <2>3, <2>4 DEF TypeOK, IInv, Exists
<1>8. TasksFit'
  <2> SUFFICES ASSUME NEW q \in Requests
               PROVE  Fits(request[q])'
      BY DEF TasksFit
  <2>1. CASE q = r
    BY <1>3, <2>1 DEF Fits, WriteFits, DeleteFits, InsertFits, Idle
  <2>2. CASE q # r
    <3>1. /\ Fits(request[q]) /\ request[q] \in Tasks /\ request'[q] = request[q]
          /\ ~Clash(request[r], request[q])
      BY <1>3, <2>2 DEF IInv, TasksFit, TypeOK, NoClash
    <3>2. place[l] # Unused /\ Gone # Unused
      BY <1>1, WarehousesAssumption DEF Fits, DeleteFits
    <3>3. WriteFits(request[q])'
      BY <1>4, <3>1, <3>2 DEF Fits, WriteFits, Exists
    <3>4. DeleteFits(request[q])'
      <4>1. request[q].at \in {"count", "destroy", "destroyed"} =>
                /\ request[q].row \in Locations /\ request[q].row \in Places
                /\ request[q].at # "count" => request[q].seen \subseteq Stocks
        BY <3>1, TaskKinds DEF Places
      <4> QED BY <1>4, <1>6, <3>1, <3>2, <4>1, WarehousesAssumption DEF Fits, DeleteFits
    <3>5. InsertFits(request[q])'
      <4>1. /\ request[q].at \in {"insert", "inserted"} => request[q].row \in StockRows
            /\ request[q].at = "inserted" => request[q].into \in Stocks
        BY <3>1, TaskKinds
      <4>2. request[q].at \in {"insert", "inserted"} /\ request[q].row.location # Nowhere
               => request[q].row.location \in Places
        BY <4>1 DEF StockRows, Places
      <4>3. request[q].at = "inserted" => request[q].row.location # l
        BY <1>1, <3>1 DEF Clash
      <4> QED BY <1>4, <1>6, <3>1, <3>2, <4>1, <4>2, <4>3 DEF Fits, InsertFits, Exists
    <3> QED BY <3>1, <3>3, <3>4, <3>5 DEF Fits
  <2> QED BY <2>1, <2>2
<1>9. NoClash'
  <2> SUFFICES ASSUME NEW p \in Requests, NEW q \in Requests, p # q
               PROVE  ~Clash(request'[p], request'[q])
      BY DEF NoClash, Clash
  <2> QED BY <1>3, IdleFits DEF IInv, NoClash
<1>10. StaysFree'
  <2> SUFFICES ASSUME NEW q \in Requests, request'[q].at \in {"write", "written"}, q \notin overtaken'
               PROVE  (~Taken(request[q]))'
      BY DEF StaysFree, At
  <2>1. request'[q] = request[q] /\ ~Taken(request[q])
    BY <1>3 DEF IInv, StaysFree, At, Idle, CommitDestroy
  <2> QED BY <1>4, <2>1 DEF Taken, Exists
<1>11. CodesDiffer'
  <2>1. doubled' = doubled \ {l}
    BY DEF CommitDestroy
  <2> QED BY <1>4, <2>1 DEF IInv, CodesDiffer, Exists
<1>12. LocationsMatch'
  <2> SUFFICES ASSUME NEW s \in Stocks, InUse(s)', stock'[s].location # Nowhere
               PROVE  /\ Exists(stock[s].location)'
                      /\ place'[stock'[s].location].in = stock'[s].warehouse
      BY DEF LocationsMatch
  <2>1. /\ InUse(s) /\ stock[s] \in StockRows /\ stock[s].location # l
        /\ stock'[s].location = stock[s].location /\ stock'[s].warehouse = stock[s].warehouse
    BY <1>6
  <2>2. stock[s].location \in Places
    BY <2>1 DEF StockRows, Places
  <2>3. Exists(stock[s].location) /\ place[stock[s].location].in = stock[s].warehouse
    BY <2>1 DEF IInv, LocationsMatch
  <2> QED BY <1>4, <2>1, <2>2, <2>3 DEF Exists
<1> QED BY <1>7, <1>8, <1>9, <1>10, <1>11, <1>12 DEF IInv

\* The row of an INSERT is out of use until it is committed, whatever others count.
LEMMA CommitInsertKeeps ==
    ASSUME IInv, NEW r \in Requests, CommitInsert(r)
    PROVE  IInv'
<1> DEFINE row  == request[r].row
           into == request[r].into
<1>1. request[r] \in Tasks /\ Fits(request[r]) /\ request[r].at = "inserted"
  BY DEF CommitInsert, At, IInv, TypeOK, TasksFit
<1>2. row \in StockRows /\ into \in Stocks /\ r \notin overtaken /\ ~InUse(into)
  BY <1>1, TaskKinds DEF IInv, TypeOK, At, Fits, InsertFits
<1>3. /\ request' \in [Requests -> Tasks] /\ request'[r] = Idle
      /\ \A q \in Requests \ {r} : request'[q] = request[q]
      /\ UNCHANGED <<place, overtaken, doubled>>
  BY IdleFits DEF CommitInsert, Becomes, IInv, TypeOK
<1>4. /\ stock' \in [Stocks -> StockRows \cup {Nowhere}]
      /\ stock'[into] = row /\ \A s \in Stocks \ {into} : stock'[s] = stock[s]
  BY <1>2 DEF CommitInsert, IInv, TypeOK
<1>5. TypeOK'
  <2>1. overtaken' \subseteq {q \in Requests : At(q, {"write", "written"})'}
    BY <1>2, <1>3 DEF IInv, TypeOK, At
  <2> QED BY <1>3, <1>4, <2>1 DEF TypeOK, IInv, Exists
<1>6. TasksFit'
  <2> SUFFICES ASSUME NEW q \in Requests
               PROVE  Fits(request[q])'
      BY DEF TasksFit
  <2>1. CASE q = r
    BY <1>3, <2>1 DEF Fits, WriteFits, DeleteFits, InsertFits, Idle
  <2>2. CASE q # r
    <3>1. /\ Fits(request[q]) /\ request[q] \in Tasks /\ request'[q] = request[q]
          /\ ~Clash(request[r], request[q])
      BY <1>3, <2>2 DEF IInv, TasksFit, TypeOK, NoClash
    <3>2. WriteFits(request[q])'
      BY <1>3, <3>1 DEF Fits, WriteFits, Exists
    <3>3. DeleteFits(request[q])'
      <4>1. request[q].at \in {"destroy", "destroyed"} => request[q].seen \subseteq Stocks
        BY <3>1, TaskKinds
      <4> QED BY <1>2, <1>3, <1>4, <3>1, <4>1 DEF Fits, DeleteFits, InUse
    <3>4. InsertFits(request[q])'
      <4>1. request[q].at = "inserted" => request[q].into \in Stocks /\ request[q].into # into
        BY <1>1, <3>1, TaskKinds DEF Clash
      <4> QED BY <1>3, <1>4, <3>1, <4>1 DEF Fits, InsertFits, Exists, InUse
    <3> QED BY <3>2, <3>3, <3>4 DEF Fits
  <2> QED BY <2>1, <2>2
<1>7. NoClash'
  <2> SUFFICES ASSUME NEW p \in Requests, NEW q \in Requests, p # q
               PROVE  ~Clash(request'[p], request'[q])
      BY DEF NoClash, Clash
  <2> QED BY <1>3, IdleFits DEF IInv, NoClash
<1>8. StaysFree'
  <2> SUFFICES ASSUME NEW q \in Requests, request'[q].at \in {"write", "written"}, q \notin overtaken'
               PROVE  (~Taken(request[q]))'
      BY DEF StaysFree, At
  <2>1. request'[q] = request[q] /\ ~Taken(request[q])
    BY <1>3 DEF IInv, StaysFree, At, Idle
  <2> QED BY <1>3, <2>1 DEF Taken, Exists
<1>9. CodesDiffer'
  BY <1>3 DEF IInv, CodesDiffer, Exists
<1>10. LocationsMatch'
  <2>1. row.location # Nowhere => Exists(row.location) /\ place[row.location].in = row.warehouse
    BY <1>1 DEF Fits, InsertFits
  <2> QED BY <1>2, <1>3, <1>4, <2>1 DEF IInv, LocationsMatch, Exists, InUse
<1> QED BY <1>5, <1>6, <1>7, <1>8, <1>9, <1>10 DEF IInv

-----------------------------------------------------------------------------
\* Whatever two requests look up before one of them commits, the invariant holds.
THEOREM AlwaysIInv == Spec => []IInv
<1>1. Init => IInv
  BY InitIInv
<1>2. IInv /\ [Next]_vars => IInv'
  <2> SUFFICES ASSUME IInv, [Next]_vars PROVE IInv'
      OBVIOUS
  <2>1. CASE Next
    BY <2>1, BeginKeeps, CheckKeeps, WriteKeeps, CommitKeeps, CountKeeps, DestroyKeeps,
       CommitDestroyKeeps, InsertKeeps, CommitInsertKeeps, FailKeeps DEF Next
  <2>2. CASE UNCHANGED vars
    BY <2>2 DEF vars, IInv, TypeOK, TasksFit, NoClash, StaysFree, CodesDiffer, LocationsMatch,
                Fits, WriteFits, DeleteFits, InsertFits, Taken, Exists, InUse, At
  <2> QED BY <2>1, <2>2
<1> QED BY <1>1, <1>2, PTL DEF Spec

\* TypeOK, for every set of requests, rows and codes.
THEOREM TypeOKHolds == Spec => []TypeOK
<1>1. IInv => TypeOK
  BY DEF IInv
<1> QED BY <1>1, AlwaysIInv, PTL

\* Codes are doubled only across a check and a commit: two creations or changes
\* that do not overlap leave the codes of a tenant or a warehouse different.
THEOREM CodesDifferHolds == Spec => []CodesDiffer
<1>1. IInv => CodesDiffer
  BY DEF IInv
<1> QED BY <1>1, AlwaysIInv, PTL

\* A stock row never refers to a location that is gone or elsewhere.
THEOREM LocationsMatchHolds == Spec => []LocationsMatch
<1>1. IInv => LocationsMatch
  BY DEF IInv
<1> QED BY <1>1, AlwaysIInv, PTL

\* A deletion takes no location from a row of stock it could have counted.
THEOREM CountedStocksStayHolds == Spec => CountedStocksStay
<1> DEFINE A == \A s \in Stocks :
                    InUse(s) /\ stock'[s] # stock[s] =>
                        \E r \in Requests : At(r, {"destroyed"}) /\ s \notin request[r].seen
<1>1. IInv /\ [Next]_vars => [A]_vars
  <2> SUFFICES ASSUME IInv, Next, NEW s \in Stocks, InUse(s), stock'[s] # stock[s]
               PROVE  \E r \in Requests : At(r, {"destroyed"}) /\ s \notin request[r].seen
      OBVIOUS
  <2>1. PICK r \in Requests : CommitDestroy(r) \/ CommitInsert(r)
    BY DEF Next, Create, Update, Check, Write, Commit, DeleteLocation, Count, Destroy,
           CreateStock, Insert, Fail
  <2>2. request[r] \in Tasks /\ Fits(request[r])
    BY DEF IInv, TypeOK, TasksFit
  <2>3. CASE CommitDestroy(r)
    <3>1. At(r, {"destroyed"}) /\ s \in KeptAt(request[r].row)
      BY <2>3 DEF CommitDestroy
    <3>2. s \notin request[r].seen
      BY <2>2, <3>1 DEF Fits, DeleteFits, KeptAt, At
    <3> QED BY <3>1, <3>2
  <2>4. CASE CommitInsert(r)
    <3>1. request[r].at = "inserted" /\ request[r].into # s
      BY <2>2, <2>4 DEF CommitInsert, Fits, InsertFits, At
    <3> QED BY <2>4, <3>1 DEF CommitInsert, IInv, TypeOK
  <2> QED BY <2>1, <2>3, <2>4
<1> QED BY <1>1, AlwaysIInv, PTL DEF Spec, CountedStocksStay
=============================================================================
