------------------------------- MODULE Records -------------------------------
(***************************************************************************)
(* The life of one row behind the CRUD handlers of the services and of the *)
(* items API: it is created, changed and removed by concurrent requests,   *)
(* each of which reads, selects and writes in separate steps.  `service`   *)
(* tells whose row it is:                                                  *)
(*   product    changes and removal are audited in Mongo, removal reads    *)
(*              the row first;                                             *)
(*   customer, inventory   no journal, removal does not look;              *)
(*   item       removal answers 404 when nothing was there;                *)
(*   order      a second table, order_items, and events in Mongo; what     *)
(*              create() does before it writes is in module Orders;        *)
(*   payment    never removed, and created only after order-service has    *)
(*              answered for the order, to which no foreign key ties it.   *)
(* Any call may fail, or lose its answer after its effect, and the process *)
(* may be killed between two calls.                                        *)
(***************************************************************************)
EXTENDS SavedRow

CONSTANTS
    Request,    \* activations of handlers
    Column, Value,
    Status,     \* the column that updateStatus() of orders and payments sets
    Default     \* the value of a column that the client does not give

ASSUME RecordsAssumption ==
    Default \in Value /\ Status \in Column /\ NoRow \notin [Column -> Value]

Service    == {"product", "customer", "inventory", "item", "order", "payment"}
Journalled == {"product", "order"}

VARIABLES
    service,
    row,        \* the row, or NoRow
    born,       \* whether its id has been given out
    items,      \* whether order_items holds the order's items
    theOrder,   \* the order a payment is for: "none", "there" or "removed"
    req,        \* req[r]: what request r awaits and knows
    journal,    \* actions in product_audit_logs or order_events
    failed      \* whether a call has failed or the process was killed

vars == <<service, row, born, items, theOrder, req, journal, failed>>

Row   == [Column -> Value]
First == [c \in Column |-> Default]

Idle == [at |-> "idle", op |-> "none", asked |-> {}, entity |-> NoRow,
         seen |-> NoRow, hadItems |-> FALSE, others |-> {}]

Requests ==
    [at : {"idle", "check", "insert", "save items", "select", "write",
           "delete items", "delete", "log"},
     op : {"none", "create", "update", "delete"},
     asked : SUBSET Column,             \* columns the client changes
     entity : Row \union {NoRow},       \* what it will save
     seen : Row \union {NoRow},         \* what its save() has selected
     hadItems : BOOLEAN,                \* items loaded with the order
     others : SUBSET Column]            \* changed by others meanwhile

TypeOK ==
    /\ service \in Service
    /\ row \in Row \union {NoRow}
    /\ born \in BOOLEAN /\ items \in BOOLEAN /\ failed \in BOOLEAN
    /\ theOrder \in {"none", "there", "removed"}
    /\ req \in [Request -> Requests]
    /\ journal \subseteq {"create", "update", "delete"}

Init ==
    /\ service \in Service
    /\ row = NoRow /\ born = FALSE /\ items = FALSE
    /\ theOrder = "none"
    /\ req = [r \in Request |-> Idle]
    /\ journal = {} /\ failed = FALSE

-----------------------------------------------------------------------------
now(r, next) == req' = [req EXCEPT ![r] = next]

at(r, where) == req[r].at = where

\* A slip: the changes of products are not audited, only their removal.
madeUnaudited(r) ==
    IF service = "order" \/ (service = "product" /\ req[r].op = "delete")
    THEN [req[r] EXCEPT !.at = "log"] ELSE Idle

\* Where r goes when its change is made: only some services keep a journal.
made(r) == IF service \in Journalled THEN [req[r] EXCEPT !.at = "log"] ELSE Idle

changed(before, after) ==
    IF before = NoRow \/ after = NoRow
    THEN IF before = after THEN {} ELSE Column
    ELSE {c \in Column : before[c] # after[c]}

\* r's statement leaves the row as new and r at next; or its answer is lost.
store(r, new, next) ==
    /\ row' = new
    /\ \E n \in {next, Idle} :
         /\ req' = [q \in Request |->
              IF q = r THEN n
              ELSE IF at(q, "idle") THEN req[q]
              ELSE [req[q] EXCEPT !.others = @ \union changed(row, new)]]
         /\ failed' = (failed \/ n # next)

-----------------------------------------------------------------------------
(* create()                                                                *)

Create(r) ==
    /\ at(r, "idle") /\ ~born /\ \A q \in Request : req[q].op # "create"
    /\ now(r, [Idle EXCEPT !.at = IF service = "payment" THEN "check" ELSE "insert",
                           !.op = "create", !.entity = First])
    /\ UNCHANGED <<service, row, born, items, theOrder, journal, failed>>

\* payment-service: the GET of the order returns.
OrderAnswers(r) ==
    /\ at(r, "check") /\ theOrder = "there"
    /\ now(r, [req[r] EXCEPT !.at = "insert"])
    /\ UNCHANGED <<service, row, born, items, theOrder, journal, failed>>

\* It is a 404: nothing is saved.
OrderUnknown(r) ==
    /\ at(r, "check") /\ theOrder # "there"
    /\ now(r, Idle)
    /\ UNCHANGED <<service, row, born, items, theOrder, journal, failed>>

Insert(r) ==
    /\ at(r, "insert")
    /\ born' = TRUE
    /\ store(r, First, IF service = "order" THEN [req[r] EXCEPT !.at = "save items"]
                                            ELSE made(r))
    /\ UNCHANGED <<service, items, theOrder, journal>>

\* The foreign key refuses the items of an order removed meanwhile.
SaveItems(r) ==
    /\ at(r, "save items")
    /\ items' = (row # NoRow)
    /\ now(r, IF row # NoRow THEN made(r) ELSE Idle)
    /\ failed' = (failed \/ row = NoRow)
    /\ UNCHANGED <<service, row, born, theOrder, journal>>

-----------------------------------------------------------------------------
(* update() and updateStatus(): findOne(), Object.assign(), save().        *)

\* r will save the row it has read as base, with the columns its client gives.
assign(r, base) ==
    \E asked \in SUBSET (IF service \in {"order", "payment"} THEN {Status} ELSE Column) \ {{}} :
        \E given \in [asked -> Value] :
            now(r, [Idle EXCEPT !.at = "select", !.op = "update", !.asked = asked,
                                !.entity = [c \in Column |-> IF c \in asked THEN given[c]
                                                                         ELSE base[c]],
                                !.hadItems = items])

\* Slips: the entity is made of the client's data alone; no 404.
UpdateBlindly(r) ==
    /\ at(r, "idle") /\ row # NoRow
    /\ assign(r, First)
    /\ UNCHANGED <<service, row, born, items, theOrder, journal, failed>>

UpdateOrInsert(r) ==
    /\ at(r, "idle") /\ born
    /\ assign(r, IF row = NoRow THEN First ELSE row)
    /\ UNCHANGED <<service, row, born, items, theOrder, journal, failed>>

\* findOne() has returned the row, and for an order its items.
Update(r) ==
    /\ at(r, "idle") /\ row # NoRow
    /\ assign(r, row)
    /\ UNCHANGED <<service, row, born, items, theOrder, journal, failed>>

\* An order read before its items were saved is refused: save() would take
\* order_items.orderId, which is NOT NULL, from the items it selects.
Select(r) ==
    /\ at(r, "select")
    /\ now(r, IF row # NoRow /\ items /\ ~req[r].hadItems THEN Idle
              ELSE [req[r] EXCEPT !.at = "write", !.seen = row])
    /\ UNCHANGED <<service, row, born, items, theOrder, journal, failed>>

Write(r) ==
    /\ at(r, "write")
    /\ IF Conflict(req[r].seen, row)
       THEN now(r, Idle) /\ UNCHANGED <<row, failed>>
       ELSE store(r, written(req[r].entity, req[r].seen, row), made(r))
    /\ UNCHANGED <<service, born, items, theOrder, journal>>

-----------------------------------------------------------------------------
(* remove()                                                                *)

\* product-service: findOne() has returned the row that will be audited.
FindThenRemove(r) ==
    /\ at(r, "idle") /\ row # NoRow
    /\ now(r, [Idle EXCEPT !.at = "delete", !.op = "delete"])
    /\ UNCHANGED <<service, row, born, items, theOrder, journal, failed>>

Remove(r) ==
    /\ at(r, "idle") /\ born
    /\ now(r, [Idle EXCEPT !.at = IF service = "order" THEN "delete items" ELSE "delete",
                           !.op = "delete"])
    /\ UNCHANGED <<service, row, born, items, theOrder, journal, failed>>

DeleteItems(r) ==
    /\ at(r, "delete items")
    /\ items' = FALSE
    /\ now(r, [req[r] EXCEPT !.at = "delete"])
    /\ UNCHANGED <<service, row, born, theOrder, journal, failed>>

\* A slip: only the items that remove() has deleted itself go with the order.
DeleteAlone(r) ==
    /\ at(r, "delete")
    /\ store(r, NoRow, made(r))
    /\ UNCHANGED <<service, born, items, theOrder, journal>>

\* ON DELETE CASCADE: items saved meanwhile go with the order.
Delete(r) ==
    /\ at(r, "delete")
    /\ items' = FALSE
    /\ store(r, NoRow, made(r))
    /\ UNCHANGED <<service, born, theOrder, journal>>

-----------------------------------------------------------------------------
\* A slip: the entry is made of the request after it has ended.
LogLate(r) ==
    /\ at(r, "log")
    /\ now(r, Idle)
    /\ journal' = journal \union {req'[r].op}
    /\ UNCHANGED <<service, row, born, items, theOrder, failed>>

\* audit() and event()
Log(r) ==
    /\ at(r, "log")
    /\ journal' = journal \union {req[r].op}
    /\ now(r, Idle)
    /\ UNCHANGED <<service, row, born, items, theOrder, failed>>

\* .catch(): an entry that Mongo does not take is lost, and the client answered.
LogFails(r) ==
    /\ at(r, "log")
    /\ now(r, Idle)
    /\ failed' = TRUE
    /\ UNCHANGED <<service, row, born, items, theOrder, journal>>

\* A slip: an error of the second write is swallowed as well.
FailUnseen(r) ==
    /\ req[r].at \notin {"idle", "log"}
    /\ now(r, IF at(r, "save items") THEN made(r) ELSE Idle)
    /\ failed' = (failed \/ ~at(r, "save items"))
    /\ UNCHANGED <<service, row, born, items, theOrder, journal>>

\* Postgres, the pool or a call of another service fails: a 500.
Fail(r) ==
    /\ req[r].at \notin {"idle", "log"}
    /\ now(r, Idle)
    /\ failed' = TRUE
    /\ UNCHANGED <<service, row, born, items, theOrder, journal>>

\* The process is killed, and its requests with it.
Kill ==
    /\ \E r \in Request : ~at(r, "idle")
    /\ req' = [r \in Request |-> Idle]
    /\ failed' = TRUE
    /\ UNCHANGED <<service, row, born, items, theOrder, journal>>

\* The order of a payment lives at order-service.
OrderLives ==
    /\ service = "payment"
    /\ \/ theOrder = "none" /\ theOrder' = "there"
       \/ theOrder = "there" /\ theOrder' = "removed"
    /\ UNCHANGED <<service, row, born, items, req, journal, failed>>

-----------------------------------------------------------------------------
(* Which requests each service takes.                                      *)

Products(r)  == service = "product"   /\ (Create(r) \/ Update(r) \/ FindThenRemove(r))
Customers(r) == service = "customer"  /\ (Create(r) \/ Update(r) \/ Remove(r))
Inventory(r) == service = "inventory" /\ (Create(r) \/ Update(r) \/ Remove(r))
Items(r)     == service = "item"      /\ (Create(r) \/ Update(r) \/ Remove(r))
Orders(r)    == service = "order"     /\ (Create(r) \/ Update(r) \/ Remove(r))
Payments(r)  == service = "payment"   /\ (Create(r) \/ Update(r))

Begin(r) ==
    Products(r) \/ Customers(r) \/ Inventory(r) \/ Items(r) \/ Orders(r) \/ Payments(r)

Next ==
    \/ \E r \in Request :
         \/ Begin(r)
         \/ OrderAnswers(r) \/ OrderUnknown(r) \/ Insert(r) \/ SaveItems(r)
         \/ Select(r) \/ Write(r)
         \/ DeleteItems(r) \/ Delete(r)
         \/ Log(r) \/ LogFails(r) \/ Fail(r)
    \/ Kill \/ OrderLives

Spec == Init /\ [][Next]_vars

-----------------------------------------------------------------------------
Quiet == \A r \in Request : at(r, "idle")

\* Unless something fails, whatever happened to the row can be told from the
\* journal when all requests have ended: creation, change and removal are each
\* in it, in every interleaving of updates and removals (audit() and event()
\* come after the write, and on every path that writes).
NothingUnaudited ==
    service \in Journalled /\ ~failed /\ Quiet /\ born =>
        /\ "create" \in journal
        /\ row = NoRow => "delete" \in journal
        /\ row \notin {NoRow, First} => "update" \in journal

\* The row has been removed, and no update that had read it before is left.
Gone == born /\ row = NoRow /\ \A r \in Request : ~at(r, "select") /\ ~at(r, "write")

\* An update that had read the row inserts it again after its removal; but once
\* no such update is left, the row is gone for good: no sequence of requests and
\* failures brings it back (the 404 of findOne(), and ids are never reused).
RemovedStaysRemoved == [][Gone => Gone']_vars

\* A request takes a column that its client has not asked it to change only when
\* another request has changed that column while it was under way: otherwise
\* concurrent updates of different columns all survive.
OverwritesOnlyConcurrent ==
    [][\A c \in Column :
         row # NoRow /\ row' # NoRow /\ row'[c] # row[c] =>
            \E r \in Request : at(r, "write") /\ req'[r] # req[r]
                               /\ c \in req[r].asked \union req[r].others]_vars

\* No order item outlives its order, although remove() deletes the items and the
\* order in two statements between which create() may save items, and an update
\* may bring the order back.
ItemsHaveTheirOrder == items => row # NoRow

\* Once its requests are over, an order that nobody has removed has its items,
\* unless something failed: also when its status is changed while create() is
\* between the two tables.
OrderHasItems ==
    service = "order" /\ ~failed /\ Quiet /\ "delete" \notin journal /\ row # NoRow => items
=============================================================================
