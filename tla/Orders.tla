------------------------------- MODULE Orders --------------------------------
(***************************************************************************)
(* Creating orders: OrderService.create() asks customer-service, then for  *)
(* every item product-service and inventory-service (POST reserve), then   *)
(* writes the order and its items.  InventoryService.reserve() reads the   *)
(* stock row, checks it, and saves the row it has read; the requests of    *)
(* other orders, restocking (PATCH) and removal run in between.            *)
(*                                                                         *)
(* Every HTTP call may fail or time out at its caller while its handler    *)
(* goes on.  With the select of repository.save() (module SavedRow) a      *)
(* change of a row takes three steps.                                      *)
(***************************************************************************)
EXTENDS SavedRow, Sequences, FiniteSetsExt

CONSTANTS
    Order,      \* POST /orders requests
    Product,
    Cart,       \* Cart[o]: sequence of [product, quantity]
    Stock,      \* Stock[p]: quantity of the inventory row at first
    Restocks,   \* quantities that PATCH /inventory/:id may set
    MayRemove,  \* whether inventory rows and orders are removed
    None        \* not selected yet

Row == [quantity : Nat, reserved : Nat]

ASSUME OrdersAssumption ==
    /\ IsFiniteSet(Order)
    /\ Cart \in [Order -> Seq([product : Product, quantity : Nat])]
    /\ Stock \in [Product -> Nat]
    /\ Restocks \subseteq Nat
    /\ MayRemove \in BOOLEAN
    /\ NoRow \notin Row

VARIABLES
    row,        \* row[p]: the inventory row of product p
    pc,         \* pc[o]: the call that create() of o awaits
    next,       \* next[o]: item of the loop
    handler,    \* handler[o]: reserve() on behalf of o's latest POST
    read,       \* read[o]: the inv that this reserve() has read
    found,      \* found[o]: the row that its save() has selected
    granted,    \* granted[o]: items whose reservation has been saved
    saved,      \* saved[o]: what of o is in orders and order_items
    remover,    \* remover[o]: progress of DELETE /orders/:id
    patch,      \* patch[p]: the entity a PATCH of p's row has read
    patchFound  \* patchFound[p]: the row that its save() has selected

inventoryVars == <<row, patch, patchFound>>
handlerVars   == <<handler, read, found, granted>>
orderVars     == <<pc, next, saved, remover>>
vars == <<inventoryVars, handlerVars, orderVars>>

TypeOK ==
    /\ row \in [Product -> Row \union {NoRow}]
    /\ patch \in [Product -> Row \union {NoRow}]
    /\ patchFound \in [Product -> Row \union {NoRow, None}]
    /\ pc \in [Order -> {"new", "customer", "product", "reserve", "order",
                         "items", "event", "returned", "failed"}]
    /\ next \in [Order -> Nat] /\ \A o \in Order : next[o] \in 1..Len(Cart[o]) + 1
    /\ handler \in [Order -> {"none", "called", "read", "found", "ok", "refused"}]
    /\ read \in [Order -> Row \union {NoRow}]
    /\ found \in [Order -> Row \union {NoRow}]
    /\ granted \in [Order -> SUBSET Nat] /\ \A o \in Order : granted[o] \subseteq DOMAIN Cart[o]
    /\ saved \in [Order -> {"nothing", "order", "order and items", "removed"}]
    /\ remover \in [Order -> {"none", "items deleted", "done"}]

Init ==
    /\ row = [p \in Product |-> [quantity |-> Stock[p], reserved |-> 0]]
    /\ patch = [p \in Product |-> NoRow]
    /\ patchFound = [p \in Product |-> None]
    /\ pc = [o \in Order |-> "new"]
    /\ next = [o \in Order |-> 1]
    /\ handler = [o \in Order |-> "none"]
    /\ read = [o \in Order |-> NoRow]
    /\ found = [o \in Order |-> NoRow]
    /\ granted = [o \in Order |-> {}]
    /\ saved = [o \in Order |-> "nothing"]
    /\ remover = [o \in Order |-> "none"]

goto(o, where) == pc' = [pc EXCEPT ![o] = where]

Item(o) == Cart[o][next[o]]

-----------------------------------------------------------------------------
(* inventory-service: reserve() for the current item of o.                 *)

\* A slip: what is reserved already is not subtracted.
availableAtAll(inv, quantity) == inv.quantity >= quantity

available(inv, quantity) == inv.quantity - inv.reserved >= quantity

answer(o, a) ==
    /\ handler' = [handler EXCEPT ![o] = a]
    /\ read' = [read EXCEPT ![o] = NoRow]
    /\ found' = [found EXCEPT ![o] = NoRow]

\* findOneBy(), the checks, and the addition to the entity.
ReserveReads(o) ==
    /\ handler[o] = "called"
    /\ LET inv == row[Item(o).product]
       IN  IF inv # NoRow /\ available(inv, Item(o).quantity)
           THEN /\ handler' = [handler EXCEPT ![o] = "read"]
                /\ read' = [read EXCEPT ![o] =
                             [inv EXCEPT !.reserved = @ + Item(o).quantity]]
                /\ UNCHANGED found
           ELSE answer(o, "refused")
    /\ UNCHANGED <<inventoryVars, granted, orderVars>>

ReserveSelects(o) ==
    /\ handler[o] = "read"
    /\ handler' = [handler EXCEPT ![o] = "found"]
    /\ found' = [found EXCEPT ![o] = row[Item(o).product]]
    /\ UNCHANGED <<inventoryVars, read, granted, orderVars>>

ReserveSaves(o) ==
    /\ handler[o] = "found"
    /\ ~Conflict(found[o], row[Item(o).product])
    /\ row' = [row EXCEPT ![Item(o).product] = written(read[o], found[o], @)]
    /\ granted' = [granted EXCEPT ![o] = @ \union {next[o]}]
    /\ answer(o, "ok")
    /\ UNCHANGED <<patch, patchFound, orderVars>>

\* Postgres or the pool fails: a 500.
ReserveFails(o) ==
    /\ handler[o] \in {"called", "read", "found"}
    /\ answer(o, "refused")
    /\ UNCHANGED <<inventoryVars, granted, orderVars>>

\* PATCH /inventory/:id: findOne(), then save() of the row read and changed.
PatchReads(p) ==
    /\ patch[p] = NoRow /\ row[p] # NoRow
    /\ \E q \in Restocks : patch' = [patch EXCEPT ![p] = [row[p] EXCEPT !.quantity = q]]
    /\ UNCHANGED <<row, patchFound, handlerVars, orderVars>>

PatchSelects(p) ==
    /\ patch[p] # NoRow /\ patchFound[p] = None
    /\ patchFound' = [patchFound EXCEPT ![p] = row[p]]
    /\ UNCHANGED <<row, patch, handlerVars, orderVars>>

\* Also when the insert is refused.
PatchSaves(p) ==
    /\ patchFound[p] # None
    /\ row' = [row EXCEPT ![p] = IF Conflict(patchFound[p], @) THEN @
                                 ELSE written(patch[p], patchFound[p], @)]
    /\ patch' = [patch EXCEPT ![p] = NoRow]
    /\ patchFound' = [patchFound EXCEPT ![p] = None]
    /\ UNCHANGED <<handlerVars, orderVars>>

\* DELETE /inventory/:id
RemoveRow(p) ==
    /\ MayRemove /\ row[p] # NoRow
    /\ row' = [row EXCEPT ![p] = NoRow]
    /\ UNCHANGED <<patch, patchFound, handlerVars, orderVars>>

-----------------------------------------------------------------------------
(* order-service: create().                                                *)

Create(o) ==
    /\ pc[o] = "new"
    /\ goto(o, IF Cart[o] = <<>> THEN "failed" ELSE "customer")
    /\ UNCHANGED <<next, saved, remover, inventoryVars, handlerVars>>

CustomerAnswers(o) ==
    /\ pc[o] = "customer"
    /\ goto(o, "product")
    /\ UNCHANGED <<next, saved, remover, inventoryVars, handlerVars>>

\* The price has arrived: POST /inventory/reserve is sent.
ProductAnswers(o) ==
    /\ pc[o] = "product"
    /\ goto(o, "reserve")
    /\ handler' = [handler EXCEPT ![o] = "called"]
    /\ UNCHANGED <<next, saved, remover, inventoryVars, read, found, granted>>

ReserveAnswers(o) ==
    /\ pc[o] = "reserve" /\ handler[o] = "ok"
    /\ handler' = [handler EXCEPT ![o] = "none"]
    /\ next' = [next EXCEPT ![o] = @ + 1]
    /\ goto(o, IF next[o] = Len(Cart[o]) THEN "order" ELSE "product")
    /\ UNCHANGED <<saved, remover, inventoryVars, read, found, granted>>

\* A slip: a refused reservation is tried again for ever.
ReserveInsists(o) ==
    /\ pc[o] = "reserve" /\ handler[o] = "refused"
    /\ handler' = [handler EXCEPT ![o] = "none"]
    /\ goto(o, "product")
    /\ UNCHANGED <<next, saved, remover, inventoryVars, read, found, granted>>

\* A slip: a refused reservation is given back.
ReserveGivenBack(o) ==
    /\ pc[o] = "reserve" /\ handler[o] = "refused"
    /\ row[Item(o).product] # NoRow
    /\ row' = [row EXCEPT ![Item(o).product].reserved = @ - Item(o).quantity]
    /\ handler' = [handler EXCEPT ![o] = "none"]
    /\ goto(o, "failed")
    /\ UNCHANGED <<next, saved, remover, patch, patchFound, read, found, granted>>

\* 400, 404 or 500: create() throws; earlier reservations stay as they are.
ReserveRefused(o) ==
    /\ pc[o] = "reserve" /\ handler[o] = "refused"
    /\ handler' = [handler EXCEPT ![o] = "none"]
    /\ goto(o, "failed")
    /\ UNCHANGED <<next, saved, remover, inventoryVars, read, found, granted>>

\* A slip: a reservation that times out is taken for granted.
TimeoutIgnored(o) ==
    /\ pc[o] = "reserve"
    /\ next' = [next EXCEPT ![o] = @ + 1]
    /\ goto(o, IF next[o] = Len(Cart[o]) THEN "order" ELSE "product")
    /\ UNCHANGED <<saved, remover, inventoryVars, handlerVars>>

\* The HTTP call fails or takes longer than HTTP_CLIENT_TIMEOUT_MS: create()
\* throws, and a reserve() under way goes on.
HttpFails(o) ==
    /\ pc[o] \in {"customer", "product", "reserve"}
    /\ goto(o, "failed")
    /\ UNCHANGED <<next, saved, remover, inventoryVars, handlerVars>>

SaveOrder(o) ==
    /\ pc[o] = "order"
    /\ saved' = [saved EXCEPT ![o] = "order"]
    /\ goto(o, "items")
    /\ UNCHANGED <<next, remover, inventoryVars, handlerVars>>

\* The foreign key refuses the items of an order removed meanwhile.
SaveItems(o) ==
    /\ pc[o] = "items"
    /\ IF saved[o] = "removed"
       THEN goto(o, "failed") /\ UNCHANGED saved
       ELSE goto(o, "event") /\ saved' = [saved EXCEPT ![o] = "order and items"]
    /\ UNCHANGED <<next, remover, inventoryVars, handlerVars>>

SaveFails(o) ==
    /\ pc[o] \in {"order", "items"}
    /\ goto(o, "failed")
    /\ UNCHANGED <<next, saved, remover, inventoryVars, handlerVars>>

\* The event is written or its error swallowed, and findOne() reads the order.
Return(o) ==
    /\ pc[o] = "event"
    /\ goto(o, IF saved[o] = "removed" THEN "failed" ELSE "returned")
    /\ UNCHANGED <<next, saved, remover, inventoryVars, handlerVars>>

\* DELETE /orders/:id by a client that has seen the order: first the items,
\* then the order, and with it (ON DELETE CASCADE) any items added meanwhile.
RemoveItems(o) ==
    /\ MayRemove /\ remover[o] = "none"
    /\ saved[o] \in {"order", "order and items"}
    /\ saved' = [saved EXCEPT ![o] = "order"]
    /\ remover' = [remover EXCEPT ![o] = "items deleted"]
    /\ UNCHANGED <<pc, next, inventoryVars, handlerVars>>

RemoveOrder(o) ==
    /\ remover[o] = "items deleted"
    /\ saved' = [saved EXCEPT ![o] = "removed"]
    /\ remover' = [remover EXCEPT ![o] = "done"]
    /\ UNCHANGED <<pc, next, inventoryVars, handlerVars>>

-----------------------------------------------------------------------------
HandlerStep(o) ==
    ReserveReads(o) \/ ReserveSelects(o) \/ ReserveSaves(o) \/ ReserveFails(o)

CreateStep(o) ==
    \/ CustomerAnswers(o) \/ ProductAnswers(o)
    \/ ReserveAnswers(o) \/ ReserveRefused(o) \/ HttpFails(o)
    \/ SaveOrder(o) \/ SaveItems(o) \/ SaveFails(o) \/ Return(o)

Next ==
    \/ \E o \in Order : Create(o) \/ CreateStep(o) \/ HandlerStep(o)
    \/ \E o \in Order : RemoveItems(o) \/ RemoveOrder(o)
    \/ \E p \in Product : PatchReads(p) \/ PatchSelects(p) \/ PatchSaves(p) \/ RemoveRow(p)

\* Calls are answered or time out, and handlers run to their end.
Fairness == \A o \in Order : WF_vars(CreateStep(o)) /\ WF_vars(HandlerStep(o))

Spec == Init /\ [][Next]_vars /\ Fairness

-----------------------------------------------------------------------------
\* The quantity of p in each item of o.
Wanted(o, p) ==
    [i \in DOMAIN Cart[o] |-> IF Cart[o][i].product = p THEN Cart[o][i].quantity ELSE 0]

\* The quantity of p that reserve() has promised to orders.
Granted(p) == SumFunction([o \in Order |-> SumFunctionOnSet(Wanted(o, p), granted[o])])

\* A row never shows more reserved than the greatest quantity it is ever given:
\* although reservations and restocking overwrite each other column by column,
\* each count written was checked against one of these quantities.  (Not
\* against the present one: a PATCH may change that in between.)
ReservedWithinStock ==
    \A p \in Product : row[p] # NoRow =>
        \E q \in Restocks \union {Stock[p]} : row[p].reserved <= q

\* Whatever is lost, nothing is invented: a row never shows more reserved than
\* has been promised to orders, also with timeouts, failures and rows written
\* back after their removal.
ReservedIsGranted ==
    \A p \in Product : row[p] # NoRow => row[p].reserved <= Granted(p)

\* An order is written only when every one of its items has been reserved for
\* it, however late the answers of inventory-service come.
OrderIsBacked ==
    \A o \in Order : saved[o] # "nothing" => granted[o] = DOMAIN Cart[o]

\* Every POST /orders is answered: no chain of calls between the services
\* waits for ever.
CreateEnds == \A o \in Order : pc[o] = "customer" ~> pc[o] \in {"returned", "failed"}

\* docs/architecture/microservices.md:35: order-service calls inventory-service
\* to reserve inventory, and reserve() refuses what exceeds the stock with
\* "Insufficient inventory".  So no more is promised than there is.
NoOversell == \A p \in Product : Granted(p) <= Stock[p]
=============================================================================
