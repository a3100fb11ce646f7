---------------------------- MODULE OrdersProofs ------------------------------
(***************************************************************************)
(* Orders and reservations for any orders, carts, products and stocks.     *)
(***************************************************************************)
EXTENDS Orders, SequenceTheorems, FiniteSetTheorems, TLAPS

\* How far create() and the reserve() of its latest call are, and what has been
\* granted by then: the items before the current one, and the current one when
\* the answer is "ok".  A reserve() that outlives its caller still works for the
\* current item, which the caller has then not left behind.
Progress(o) ==
    /\ 1..(next[o] - 1) \subseteq granted[o]
    /\ pc[o] \in {"customer", "product", "reserve"} \/ handler[o] # "none"
          => next[o] <= Len(Cart[o])
    /\ pc[o] \in {"order", "items", "event", "returned"} => next[o] = Len(Cart[o]) + 1
    /\ pc[o] = "new" => next[o] = 1
    /\ pc[o] \notin {"reserve", "failed"} => handler[o] = "none"
    /\ handler[o] = "ok" => next[o] \in granted[o]
    /\ handler[o] \in {"read", "found"} <=> read[o] # NoRow
    /\ saved[o] # "nothing" \/ remover[o] # "none" => granted[o] = DOMAIN Cart[o]

\* The quantities that the row of p has ever had, and the rows whose count is
\* below one of them.
Quantities(p) == Restocks \union {Stock[p]}
Within(p) == {r \in Row : r.quantity \in Quantities(p)
                          /\ \E q \in Quantities(p) : r.reserved <= q}

\* Every copy of a row is within: in the table, and in the entities that a PATCH
\* and a reserve() are about to save.
Stocked ==
    /\ \A p \in Product : row[p] \in Within(p) \union {NoRow}
    /\ \A p \in Product : patch[p] \in Within(p) \union {NoRow}
    /\ \A p \in Product : patchFound[p] # None => patch[p] # NoRow
    /\ \A o \in Order : read[o] # NoRow => read[o] \in Within(Item(o).product)

IInv == TypeOK /\ (\A o \in Order : Progress(o)) /\ Stocked

-----------------------------------------------------------------------------
\* The current item is one while there is a current item.
LEMMA ItemType ==
    ASSUME TypeOK, NEW o \in Order, next[o] <= Len(Cart[o])
    PROVE  /\ Item(o).product \in Product /\ Item(o).quantity \in Nat
           /\ next[o] \in DOMAIN Cart[o]
<1>1. Cart[o] \in Seq([product : Product, quantity : Nat]) /\ next[o] \in 1..Len(Cart[o]) + 1
  BY OrdersAssumption DEF TypeOK
<1>2. next[o] \in 1..Len(Cart[o])
  BY <1>1
<1>3. Cart[o][next[o]] \in [product : Product, quantity : Nat]
  BY <1>1, <1>2, ElementOfSeq
<1>. QED BY <1>1, <1>2, <1>3 DEF Item

\* What a cart and its length are.
LEMMA CartType ==
    ASSUME TypeOK, NEW o \in Order
    PROVE  /\ Len(Cart[o]) \in Nat /\ DOMAIN Cart[o] = 1..Len(Cart[o])
           /\ next[o] \in Nat /\ 1 <= next[o] /\ next[o] <= Len(Cart[o]) + 1
           /\ granted[o] \subseteq 1..Len(Cart[o])
<1>1. Cart[o] \in Seq([product : Product, quantity : Nat])
  BY OrdersAssumption
<1>2. next[o] \in 1..Len(Cart[o]) + 1 /\ granted[o] \subseteq DOMAIN Cart[o] /\ next[o] \in Nat
  BY DEF TypeOK
<1>. QED BY <1>1, <1>2

\* After the last item everything has been granted.
LEMMA AllGranted ==
    ASSUME TypeOK, NEW o \in Order, Progress(o), next[o] = Len(Cart[o]) + 1
    PROVE  granted[o] = DOMAIN Cart[o]
<1>1. 1..Len(Cart[o]) \subseteq granted[o]
  <2>1. next[o] - 1 = Len(Cart[o])
    BY CartType
  <2>. QED BY <2>1 DEF Progress
<1>. QED BY <1>1, CartType

\* save() mixes two copies of a row, column by column: what it writes is within,
\* if both were.
LEMMA WrittenWithin ==
    ASSUME NEW p \in Product, NEW entity \in Within(p), NEW selected,
           NEW current \in Within(p) \union {NoRow}
    PROVE  written(entity, selected, current) \in Within(p) \union {NoRow}
<1>. DEFINE w == written(entity, selected, current)
<1>1. CASE selected = NoRow \/ current = NoRow
  BY <1>1 DEF written
<1>2. CASE selected # NoRow /\ current # NoRow
  <2>1. entity \in Row /\ current \in Row /\ current \in Within(p)
    BY <1>2 DEF Within
  <2>2. /\ w \in Row
        /\ w.quantity \in {entity.quantity, current.quantity}
        /\ w.reserved \in {entity.reserved, current.reserved}
    BY <1>2, <2>1 DEF written, Row
  <2>. QED BY <2>1, <2>2 DEF Within
<1>. QED BY <1>1, <1>2

\* Rows that are within are rows, and there is no row that is none.
LEMMA WithinRow ==
    ASSUME NEW p \in Product
    PROVE  Within(p) \subseteq Row /\ NoRow \notin Within(p)
BY OrdersAssumption DEF Within

\* Nothing is written at first, and the stock is within itself.
LEMMA InitInv == Init => IInv
<1>. SUFFICES ASSUME Init PROVE IInv
  OBVIOUS
<1>1. \A o \in Order : Len(Cart[o]) \in Nat
  BY OrdersAssumption
<1>2. \A p \in Product : row[p] \in Row /\ row[p] \in Within(p)
  <2>. SUFFICES ASSUME NEW p \in Product PROVE row[p] \in Row /\ row[p] \in Within(p)
    OBVIOUS
  <2>1. row[p] = [quantity |-> Stock[p], reserved |-> 0] /\ Stock[p] \in Nat
    BY OrdersAssumption DEF Init
  <2>. QED BY <2>1 DEF Row, Within, Quantities
<1>3. TypeOK
  <2>1. \A o \in Order : next[o] \in 1..Len(Cart[o]) + 1 /\ granted[o] \subseteq DOMAIN Cart[o]
    BY <1>1 DEF Init
  <2>2. row \in [Product -> Row \union {NoRow}]
    BY <1>2 DEF Init
  <2>. QED BY <2>1, <2>2 DEF Init, TypeOK
<1>4. \A o \in Order : Progress(o)
  BY <1>1 DEF Init, Progress
<1>5. Stocked
  BY <1>2 DEF Init, Stocked
<1>. QED BY <1>3, <1>4, <1>5 DEF IInv
-----------------------------------------------------------------------------
(* order-service: the steps of create() and of remove().                   *)

\* What the steps of order-service have in common: they leave the rows alone.
CallerStep(o) == Create(o) \/ CreateStep(o) \/ RemoveItems(o) \/ RemoveOrder(o)

\* They change one order, and read nothing of inventory-service.
LEMMA CallerShape ==
    ASSUME TypeOK, NEW o \in Order, CallerStep(o)
    PROVE  /\ UNCHANGED <<row, patch, patchFound, read, found, granted>>
           /\ \A q \in Order \ {o} : /\ pc'[q] = pc[q] /\ next'[q] = next[q]
                                     /\ handler'[q] = handler[q] /\ saved'[q] = saved[q]
                                     /\ remover'[q] = remover[q]
<1>1. UNCHANGED <<row, patch, patchFound, read, found, granted>>
  BY DEF CallerStep, Create, CreateStep, CustomerAnswers, ProductAnswers, ReserveAnswers,
     ReserveRefused, HttpFails, SaveOrder, SaveItems, SaveFails, Return, RemoveItems, RemoveOrder,
     inventoryVars, handlerVars
<1>2. \A q \in Order \ {o} : pc'[q] = pc[q] /\ next'[q] = next[q]
  BY DEF CallerStep, Create, CreateStep, CustomerAnswers, ProductAnswers, ReserveAnswers,
     ReserveRefused, HttpFails, SaveOrder, SaveItems, SaveFails, Return, RemoveItems, RemoveOrder,
     goto, TypeOK
<1>3. \A q \in Order \ {o} : handler'[q] = handler[q] /\ saved'[q] = saved[q]
                           /\ remover'[q] = remover[q]
  BY DEF CallerStep, Create, CreateStep, CustomerAnswers, ProductAnswers, ReserveAnswers,
     ReserveRefused, HttpFails, SaveOrder, SaveItems, SaveFails, Return, RemoveItems, RemoveOrder,
     handlerVars, TypeOK
<1>. QED BY <1>1, <1>2, <1>3

\* The order itself makes progress: next item only after "ok", and the order is
\* written after the last item.
LEMMA CallerProgress ==
    ASSUME IInv, NEW o \in Order, CallerStep(o)
    PROVE  Progress(o)'
<1>1. TypeOK /\ Progress(o)
  BY DEF IInv
<1>2. CASE Create(o)
  <2>1. /\ pc[o] = "new" /\ pc'[o] = IF Cart[o] = <<>> THEN "failed" ELSE "customer"
        /\ UNCHANGED <<next, granted, saved, remover, handler, read>>
    BY <1>1, <1>2 DEF Create, goto, handlerVars, TypeOK
  <2>2. handler[o] = "none" /\ next[o] = 1
    BY <1>1, <2>1 DEF Progress
  <2>3. Cart[o] # <<>> => next[o] <= Len(Cart[o])
    <3>1. Cart[o] \in Seq([product : Product, quantity : Nat])
      BY OrdersAssumption
    <3>. QED BY <2>2, <3>1, EmptySeq, CartType, <1>1
  <2>. QED BY <1>1, <2>1, <2>2, <2>3 DEF Progress
<1>3. CASE CustomerAnswers(o) \/ ProductAnswers(o)
  <2>1. /\ pc[o] \in {"customer", "product"} /\ pc'[o] \in {"product", "reserve"}
        /\ UNCHANGED <<next, granted, saved, remover, read>>
        /\ handler'[o] = handler[o] \/ (handler'[o] = "called" /\ pc'[o] = "reserve")
    BY <1>1, <1>3 DEF CustomerAnswers, ProductAnswers, goto, handlerVars, TypeOK
  <2>2. next[o] <= Len(Cart[o]) /\ handler[o] = "none" /\ read[o] = NoRow
    BY <1>1, <2>1 DEF Progress
  <2>. QED BY <1>1, <2>1, <2>2, CartType DEF Progress
<1>4. CASE ReserveAnswers(o)
  <2>1. /\ next' = [next EXCEPT ![o] = @ + 1] /\ handler[o] = "ok" /\ pc[o] = "reserve"
        /\ UNCHANGED <<granted, saved, remover, read>>
        /\ pc'[o] = IF next[o] = Len(Cart[o]) THEN "order" ELSE "product"
        /\ handler'[o] = "none"
    BY <1>1, <1>4 DEF ReserveAnswers, goto, TypeOK
  <2>2. next'[o] = next[o] + 1 /\ next[o] \in granted[o] /\ next[o] <= Len(Cart[o])
    BY <1>1, <2>1 DEF Progress, TypeOK
  <2>3. 1..(next'[o] - 1) \subseteq granted'[o]
    <3>1. next'[o] - 1 = next[o]
      BY <1>1, <2>2, CartType
    <3>2. \A i \in 1..next[o] : i \in 1..(next[o] - 1) \/ i = next[o]
      BY <1>1, CartType
    <3>. QED BY <1>1, <2>1, <2>2, <3>1, <3>2 DEF Progress
  <2>4. IF next[o] = Len(Cart[o]) THEN next'[o] = Len(Cart[o]) + 1 ELSE next'[o] <= Len(Cart[o])
    BY <1>1, <2>2, CartType
  <2>. QED BY <1>1, <2>1, <2>3, <2>4 DEF Progress
<1>5. CASE ReserveRefused(o) \/ HttpFails(o)
  BY <1>1, <1>5, CartType DEF ReserveRefused, HttpFails, goto, Progress, handlerVars, TypeOK
<1>6. CASE SaveOrder(o) \/ SaveItems(o) \/ SaveFails(o) \/ Return(o)
  <2>1. pc[o] \in {"order", "items", "event"} /\ next[o] = Len(Cart[o]) + 1
    BY <1>1, <1>6 DEF SaveOrder, SaveItems, SaveFails, Return, Progress
  <2>2. /\ pc'[o] \in {"items", "event", "returned", "failed"}
        /\ UNCHANGED <<next, granted, handler, read>>
    BY <1>1, <1>6 DEF SaveOrder, SaveItems, SaveFails, Return, goto, handlerVars, TypeOK
  <2>3. handler[o] = "none"
    BY <1>1, <2>1 DEF Progress
  <2>. QED BY <1>1, <2>1, <2>2, <2>3, AllGranted DEF Progress
<1>7. CASE RemoveItems(o) \/ RemoveOrder(o)
  <2>1. granted[o] = DOMAIN Cart[o]
    BY <1>1, <1>7 DEF RemoveItems, RemoveOrder, Progress
  <2>2. UNCHANGED <<pc, next, granted, handler, read>>
    BY <1>7 DEF RemoveItems, RemoveOrder, handlerVars
  <2>. QED BY <1>1, <2>1, <2>2 DEF Progress
<1>. QED BY <1>2, <1>3, <1>4, <1>5, <1>6, <1>7 DEF CallerStep, CreateStep
\* Types, and what each order works with, are kept.
LEMMA CallerInv ==
    ASSUME IInv, NEW o \in Order, CallerStep(o)
    PROVE  IInv'
<1>1. TypeOK /\ Progress(o)
  BY DEF IInv
<1>2. /\ UNCHANGED <<row, patch, patchFound, read, found, granted>>
      /\ \A q \in Order \ {o} : /\ pc'[q] = pc[q] /\ next'[q] = next[q]
                                /\ handler'[q] = handler[q] /\ saved'[q] = saved[q]
                                /\ remover'[q] = remover[q]
  BY <1>1, CallerShape
<1>3. Progress(o)'
  BY CallerProgress
<1>4. \A q \in Order : Progress(q)'
  BY <1>2, <1>3 DEF IInv, Progress
<1>5. next'[o] = next[o] \/ (ReserveAnswers(o) /\ next'[o] = next[o] + 1)
  BY <1>1 DEF CallerStep, Create, CreateStep, CustomerAnswers, ProductAnswers, ReserveAnswers,
     ReserveRefused, HttpFails, SaveOrder, SaveItems, SaveFails, Return, RemoveItems, RemoveOrder,
     TypeOK
<1>6. TypeOK'
  <2>1. /\ pc' \in [Order -> {"new", "customer", "product", "reserve", "order",
                             "items", "event", "returned", "failed"}]
        /\ saved' \in [Order -> {"nothing", "order", "order and items", "removed"}]
    BY <1>1 DEF CallerStep, Create, CreateStep, CustomerAnswers, ProductAnswers, ReserveAnswers,
       ReserveRefused, HttpFails, SaveOrder, SaveItems, SaveFails, Return, RemoveItems, RemoveOrder,
       goto, TypeOK
  <2>2. /\ handler' \in [Order -> {"none", "called", "read", "found", "ok", "refused"}]
        /\ remover' \in [Order -> {"none", "items deleted", "done"}]
    BY <1>1 DEF CallerStep, Create, CreateStep, CustomerAnswers, ProductAnswers, ReserveAnswers,
       ReserveRefused, HttpFails, SaveOrder, SaveItems, SaveFails, Return, RemoveItems, RemoveOrder,
       handlerVars, TypeOK
  <2>3. next' \in [Order -> Nat]
    <3>1. next[o] + 1 \in Nat
      BY <1>1, CartType
    <3>2. next' = next \/ next' = [next EXCEPT ![o] = @ + 1]
      BY DEF CallerStep, Create, CreateStep, CustomerAnswers, ProductAnswers, ReserveAnswers,
         ReserveRefused, HttpFails, SaveOrder, SaveItems, SaveFails, Return, RemoveItems, RemoveOrder
    <3>. QED BY <1>1, <3>1, <3>2 DEF TypeOK
  <2>4. next'[o] \in 1..Len(Cart[o]) + 1
    <3>1. CASE next'[o] = next[o]
      BY <1>1, <3>1 DEF TypeOK
    <3>2. CASE ReserveAnswers(o) /\ next'[o] = next[o] + 1
      <4>1. next[o] <= Len(Cart[o])
        BY <1>1, <3>2 DEF ReserveAnswers, Progress
      <4>. QED BY <1>1, <3>2, <4>1, CartType
    <3>. QED BY <1>5, <3>1, <3>2
  <2>. QED BY <1>1, <1>2, <2>1, <2>2, <2>3, <2>4 DEF TypeOK
<1>7. Stocked'
  <2>1. ASSUME NEW q \in Order, read[q] # NoRow PROVE read'[q] \in Within(Item(q).product)'
    <3>1. next'[q] = next[q]
      <4>1. CASE q = o
        BY <1>1, <1>5, <2>1, <4>1 DEF ReserveAnswers, Progress
      <4>. QED BY <1>2, <4>1
    <3>. QED BY <1>2, <2>1, <3>1 DEF IInv, Stocked, Item, Within, Quantities
  <2>. QED BY <1>2, <2>1 DEF IInv, Stocked, Within, Quantities
<1>. QED BY <1>4, <1>6, <1>7 DEF IInv

-----------------------------------------------------------------------------
(* inventory-service: the steps of reserve().                              *)

\* They change one order's handler, and grant only its current item.
LEMMA HandlerProgress ==
    ASSUME IInv, NEW o \in Order, NEW more \in {{}, {next[o]}},
           UNCHANGED orderVars, granted' = [granted EXCEPT ![o] = @ \union more],
           \A q \in Order \ {o} : handler'[q] = handler[q] /\ read'[q] = read[q],
           handler[o] \in {"called", "read", "found"}, handler'[o] # "none",
           handler'[o] = "ok" => next[o] \in more,
           handler'[o] \in {"read", "found"} <=> read'[o] # NoRow
    PROVE  /\ \A q \in Order : Progress(q)'
           /\ \A q \in Order : granted'[q] \subseteq DOMAIN Cart[q]
<1>1. TypeOK /\ Progress(o) /\ UNCHANGED <<pc, next, saved, remover>>
  BY DEF IInv, orderVars
<1>2. next[o] <= Len(Cart[o]) /\ next[o] \in DOMAIN Cart[o]
  BY <1>1, ItemType DEF Progress
<1>3. /\ granted'[o] = granted[o] \union more
      /\ granted'[o] \subseteq DOMAIN Cart[o]
      /\ \A q \in Order \ {o} : granted'[q] = granted[q]
  BY <1>1, <1>2 DEF TypeOK
<1>4. Progress(o)'
  <2>1. pc[o] \in {"reserve", "failed"}
    BY <1>1 DEF Progress
  <2>2. saved[o] # "nothing" \/ remover[o] # "none" => granted'[o] = DOMAIN Cart[o]
    BY <1>1, <1>3 DEF Progress
  <2>. QED BY <1>1, <1>2, <1>3, <2>1, <2>2 DEF Progress
<1>5. \A q \in Order \ {o} : Progress(q)'
  BY <1>1, <1>3 DEF IInv, Progress
<1>6. \A q \in Order \ {o} : granted'[q] \subseteq DOMAIN Cart[q]
  BY <1>1, <1>3 DEF TypeOK
<1>. QED BY <1>3, <1>4, <1>5, <1>6
\* The answer of reserve(): its entity is forgotten.
LEMMA AnswerShape ==
    ASSUME TypeOK, NEW o \in Order, NEW a \in {"ok", "refused"}, answer(o, a)
    PROVE  /\ handler' \in [Order -> {"none", "called", "read", "found", "ok", "refused"}]
           /\ read' \in [Order -> Row \union {NoRow}] /\ found' \in [Order -> Row \union {NoRow}]
           /\ handler'[o] = a /\ read'[o] = NoRow
           /\ \A q \in Order \ {o} : handler'[q] = handler[q] /\ read'[q] = read[q]
BY DEF answer, TypeOK

\* reserve() fails, or is refused at once.
LEMMA ReserveEndsInv ==
    ASSUME IInv, NEW o \in Order, handler[o] \in {"called", "read", "found"},
           answer(o, "refused"), UNCHANGED <<inventoryVars, granted, orderVars>>
    PROVE  IInv'
<1>1. TypeOK
  BY DEF IInv
<1>2. /\ handler' \in [Order -> {"none", "called", "read", "found", "ok", "refused"}]
      /\ read' \in [Order -> Row \union {NoRow}] /\ found' \in [Order -> Row \union {NoRow}]
      /\ handler'[o] = "refused" /\ read'[o] = NoRow
      /\ \A q \in Order \ {o} : handler'[q] = handler[q] /\ read'[q] = read[q]
  BY <1>1, AnswerShape
<1>3. granted' = [granted EXCEPT ![o] = @ \union {}]
  BY <1>1 DEF TypeOK
<1>4. \A q \in Order : Progress(q)'
  BY <1>2, <1>3, HandlerProgress
<1>5. TypeOK'
  BY <1>1, <1>2 DEF TypeOK, inventoryVars, orderVars
<1>6. Stocked'
  BY <1>2 DEF IInv, Stocked, Item, Within, Quantities, inventoryVars, orderVars
<1>. QED BY <1>4, <1>5, <1>6 DEF IInv

\* The row is read, and the item added to what it shows as reserved: not more
\* than the quantity it has.
LEMMA ReserveReadsInv ==
    ASSUME IInv, NEW o \in Order, ReserveReads(o)
    PROVE  IInv'
<1>. DEFINE p == Item(o).product  inv == row[p]  n == Item(o).quantity
<1>1. TypeOK /\ handler[o] = "called" /\ UNCHANGED <<inventoryVars, granted, orderVars>>
  BY DEF IInv, ReserveReads
<1>2. p \in Product /\ n \in Nat
  BY <1>1, ItemType DEF IInv, Progress
<1>3. CASE inv = NoRow \/ ~available(inv, n)
  BY <1>1, <1>3, ReserveEndsInv DEF ReserveReads
<1>4. CASE inv # NoRow /\ available(inv, n)
  <2>. DEFINE e == [inv EXCEPT !.reserved = @ + n]
  <2>1. /\ handler' = [handler EXCEPT ![o] = "read"] /\ read' = [read EXCEPT ![o] = e]
        /\ UNCHANGED found
    BY <1>4 DEF ReserveReads
  <2>2. inv \in Within(p)
    BY <1>2, <1>4 DEF IInv, Stocked
  <2>3. inv.quantity \in Nat /\ inv.reserved \in Nat /\ inv \in Row
    BY <2>2 DEF Within, Row
  <2>4. inv.reserved + n \in Nat /\ inv.reserved + n <= inv.quantity
    BY <1>2, <1>4, <2>3 DEF available
  <2>5. e \in Row /\ e.quantity = inv.quantity /\ e.reserved = inv.reserved + n
    BY <2>3, <2>4 DEF Row
  <2>6. e \in Within(p) /\ e # NoRow
    <3>1. inv.quantity \in Quantities(p)
      BY <2>2 DEF Within
    <3>. QED BY <2>4, <2>5, <3>1, OrdersAssumption DEF Within
  <2>7. TypeOK'
    BY <1>1, <2>1, <2>5 DEF TypeOK, inventoryVars, orderVars
  <2>8. \A q \in Order : Progress(q)'
    <3>1. granted' = [granted EXCEPT ![o] = @ \union {}]
      BY <1>1 DEF TypeOK
    <3>2. /\ handler'[o] = "read" /\ read'[o] # NoRow
          /\ \A q \in Order \ {o} : handler'[q] = handler[q] /\ read'[q] = read[q]
      BY <1>1, <2>1, <2>6 DEF TypeOK
    <3>. QED BY <1>1, <3>1, <3>2, HandlerProgress
  <2>9. Stocked'
    BY <1>1, <2>1, <2>6 DEF IInv, TypeOK, Stocked, Item, Within, Quantities, inventoryVars, orderVars
  <2>. QED BY <2>7, <2>8, <2>9 DEF IInv
<1>. QED BY <1>3, <1>4

\* save() selects the row once more.
LEMMA ReserveSelectsInv ==
    ASSUME IInv, NEW o \in Order, ReserveSelects(o)
    PROVE  IInv'
<1>1. /\ TypeOK /\ handler[o] = "read" /\ handler' = [handler EXCEPT ![o] = "found"]
      /\ found' = [found EXCEPT ![o] = row[Item(o).product]]
      /\ UNCHANGED <<inventoryVars, read, granted, orderVars>>
  BY DEF IInv, ReserveSelects
<1>2. Item(o).product \in Product
  BY <1>1, ItemType DEF IInv, Progress
<1>3. TypeOK'
  BY <1>1, <1>2 DEF TypeOK, inventoryVars, orderVars
<1>4. \A q \in Order : Progress(q)'
  <2>1. granted' = [granted EXCEPT ![o] = @ \union {}]
    BY <1>1 DEF TypeOK
  <2>2. /\ handler'[o] = "found" /\ read'[o] # NoRow
        /\ \A q \in Order \ {o} : handler'[q] = handler[q] /\ read'[q] = read[q]
    BY <1>1 DEF TypeOK, IInv, Progress
  <2>. QED BY <1>1, <2>1, <2>2, HandlerProgress
<1>5. Stocked'
  BY <1>1 DEF IInv, Stocked, Item, Within, Quantities, inventoryVars, orderVars
<1>. QED BY <1>3, <1>4, <1>5 DEF IInv

\* save() writes it: the current item is granted.
LEMMA ReserveSavesInv ==
    ASSUME IInv, NEW o \in Order, ReserveSaves(o)
    PROVE  IInv'
<1>. DEFINE p == Item(o).product
<1>1. /\ TypeOK /\ handler[o] = "found"
      /\ row' = [row EXCEPT ![p] = written(read[o], found[o], @)]
      /\ granted' = [granted EXCEPT ![o] = @ \union {next[o]}]
      /\ answer(o, "ok")
      /\ UNCHANGED <<patch, patchFound, orderVars>>
  BY DEF IInv, ReserveSaves
<1>2. p \in Product /\ next[o] \in Nat
  BY <1>1, ItemType, CartType DEF IInv, Progress
<1>3. read[o] \in Within(p)
  BY <1>1 DEF IInv, Progress, Stocked
<1>4. \A k \in Product : row'[k] \in Within(k) \union {NoRow}
  <2>1. row'[p] \in Within(p) \union {NoRow}
    BY <1>1, <1>2, <1>3, WrittenWithin DEF IInv, Stocked, TypeOK
  <2>. QED BY <1>1, <2>1 DEF IInv, Stocked, TypeOK
<1>5. /\ handler' \in [Order -> {"none", "called", "read", "found", "ok", "refused"}]
      /\ read' \in [Order -> Row \union {NoRow}] /\ found' \in [Order -> Row \union {NoRow}]
      /\ handler'[o] = "ok" /\ read'[o] = NoRow
      /\ \A q \in Order \ {o} : handler'[q] = handler[q] /\ read'[q] = read[q]
  BY <1>1, AnswerShape
<1>6. /\ \A q \in Order : Progress(q)'
      /\ \A q \in Order : granted'[q] \subseteq DOMAIN Cart[q]
  BY <1>1, <1>5, HandlerProgress
<1>7. TypeOK'
  <2>1. row' \in [Product -> Row \union {NoRow}]
    BY <1>1, <1>4, WithinRow DEF TypeOK
  <2>2. granted' \in [Order -> SUBSET Nat]
    BY <1>1, <1>2 DEF TypeOK
  <2>. QED BY <1>1, <1>5, <1>6, <2>1, <2>2 DEF TypeOK, orderVars
<1>8. Stocked'
  BY <1>1, <1>4, <1>5 DEF IInv, Stocked, Item, Within, Quantities, orderVars
<1>. QED BY <1>6, <1>7, <1>8 DEF IInv

-----------------------------------------------------------------------------
(* inventory-service: PATCH and DELETE.                                    *)

\* A PATCH mixes the row it has read with the present one; both are within.
LEMMA PatchInv ==
    ASSUME IInv, NEW p \in Product,
           PatchReads(p) \/ PatchSelects(p) \/ PatchSaves(p) \/ RemoveRow(p)
    PROVE  IInv'
<1>1. TypeOK /\ UNCHANGED <<handlerVars, orderVars>>
  BY DEF IInv, PatchReads, PatchSelects, PatchSaves, RemoveRow
<1>2. \A o \in Order : Progress(o)'
  BY <1>1 DEF IInv, Progress, handlerVars, orderVars
<1>3. \A k \in Product : row'[k] \in Within(k) \union {NoRow}
  <2>1. CASE PatchReads(p) \/ PatchSelects(p)
    BY <2>1 DEF PatchReads, PatchSelects, IInv, Stocked
  <2>2. CASE PatchSaves(p)
    <3>1. patch[p] # NoRow => written(patch[p], patchFound[p], row[p]) \in Within(p) \union {NoRow}
      BY WrittenWithin DEF IInv, Stocked
    <3>2. patch[p] # NoRow
      BY <2>2 DEF IInv, Stocked, PatchSaves
    <3>. QED BY <1>1, <2>2, <3>1, <3>2 DEF PatchSaves, IInv, Stocked, TypeOK
  <2>3. CASE RemoveRow(p)
    BY <1>1, <2>3 DEF RemoveRow, IInv, Stocked, TypeOK
  <2>. QED BY <2>1, <2>2, <2>3
<1>4. \A k \in Product : patch'[k] \in Within(k) \union {NoRow}
  <2>1. CASE PatchReads(p)
    <3>1. PICK n \in Restocks : patch' = [patch EXCEPT ![p] = [row[p] EXCEPT !.quantity = n]]
      BY <2>1 DEF PatchReads
    <3>2. row[p] \in Within(p) /\ row[p] \in Row
      BY <2>1, WithinRow DEF PatchReads, IInv, Stocked
    <3>. DEFINE e == [row[p] EXCEPT !.quantity = n]
    <3>3. e \in Row /\ e.quantity = n /\ e.reserved = row[p].reserved
      BY <3>2, OrdersAssumption DEF Row
    <3>4. e \in Within(p)
      BY <3>2, <3>3 DEF Within, Quantities
    <3>. QED BY <1>1, <3>1, <3>4 DEF IInv, Stocked, TypeOK
  <2>2. CASE PatchSelects(p) \/ PatchSaves(p) \/ RemoveRow(p)
    BY <1>1, <2>2 DEF PatchSelects, PatchSaves, RemoveRow, IInv, Stocked, TypeOK
  <2>. QED BY <2>1, <2>2
<1>5. TypeOK'
  <2>1. /\ row' \in [Product -> Row \union {NoRow}]
        /\ patch' \in [Product -> Row \union {NoRow}]
    BY <1>1, <1>3, <1>4, WithinRow DEF PatchReads, PatchSelects, PatchSaves, RemoveRow, TypeOK
  <2>2. patchFound' \in [Product -> Row \union {NoRow, None}]
    <3>1. \/ UNCHANGED patchFound
          \/ \E f \in {row[p], None} : patchFound' = [patchFound EXCEPT ![p] = f]
      BY DEF PatchReads, PatchSelects, PatchSaves, RemoveRow
    <3>. QED BY <1>1, <3>1 DEF TypeOK
  <2>. QED BY <1>1, <2>1, <2>2 DEF TypeOK, handlerVars, orderVars
<1>6. Stocked'
  <2>1. \A k \in Product : patchFound'[k] # None => patch'[k] # NoRow
    BY <1>1, WithinRow DEF PatchReads, PatchSelects, PatchSaves, RemoveRow, IInv, Stocked, TypeOK
  <2>. QED BY <1>1, <1>3, <1>4, <2>1 DEF IInv, Stocked, Item, Within, Quantities, handlerVars,
              orderVars
<1>. QED BY <1>2, <1>5, <1>6 DEF IInv

\* Every step preserves the invariant.
LEMMA StepInv == IInv /\ [Next]_vars => IInv'
<1>. SUFFICES ASSUME IInv, [Next]_vars PROVE IInv'
  OBVIOUS
<1>1. ASSUME NEW o \in Order, CallerStep(o) PROVE IInv'
  BY <1>1, CallerInv
<1>2. ASSUME NEW o \in Order, HandlerStep(o) PROVE IInv'
  BY <1>2, ReserveReadsInv, ReserveSelectsInv, ReserveSavesInv, ReserveEndsInv
     DEF HandlerStep, ReserveFails
<1>3. ASSUME NEW p \in Product, PatchReads(p) \/ PatchSelects(p) \/ PatchSaves(p) \/ RemoveRow(p)
      PROVE  IInv'
  BY <1>3, PatchInv
<1>4. CASE UNCHANGED vars
  BY <1>4 DEF vars, inventoryVars, handlerVars, orderVars, IInv, TypeOK, Progress, Stocked, Item,
     Within, Quantities
<1>. QED BY <1>1, <1>2, <1>3, <1>4 DEF Next, CallerStep

-----------------------------------------------------------------------------
\* The invariant holds in every reachable state.
THEOREM Invariance == Spec => []IInv
BY InitInv, StepInv, PTL DEF Spec

\* Rows, requests and orders have the types declared.
THEOREM TypeCorrect == Spec => []TypeOK
<1>1. IInv => TypeOK
  BY DEF IInv
<1>. QED BY <1>1, Invariance, PTL

\* An order is written only after all its items have been reserved for it.
THEOREM OrdersAreBacked == Spec => []OrderIsBacked
<1>1. IInv => OrderIsBacked
  BY DEF IInv, Progress, OrderIsBacked
<1>. QED BY <1>1, Invariance, PTL

\* What a row shows as reserved was once in stock, whatever overwrites what.
THEOREM ReservationsWereInStock == Spec => []ReservedWithinStock
<1>1. IInv => ReservedWithinStock
  BY DEF IInv, Stocked, Within, Quantities, ReservedWithinStock
<1>. QED BY <1>1, Invariance, PTL

-----------------------------------------------------------------------------
(* Sums.  SumFunctionOnSet() is a fold, which takes the elements of a set in *)
(* an order of its own; over a finite set it is the sum in any order.      *)

\* Among finite sets there is one that contains no other.
LEMMA SmallestSet ==
    ASSUME NEW B, B # {}, \A U \in B : IsFiniteSet(U)
    PROVE  \E U \in B : \A V \in SUBSET U : V # U => V \notin B
<1>. DEFINE S == UNION B
<1>1. IsWellFoundedOn(StrictSubsetOrdering(S), FiniteSubsetsOf(S))
  BY FS_StrictSubsetOrderingWellFounded
<1>2. B \subseteq FiniteSubsetsOf(S)
  BY DEF FiniteSubsetsOf
<1>3. PICK U \in B : \A V \in B : <<V, U>> \notin StrictSubsetOrdering(S)
  BY <1>1, <1>2, WFMin
<1>4. \A V \in B : ~(V \subseteq U /\ V # U)
  BY <1>3 DEF StrictSubsetOrdering
<1>. QED BY <1>4

\* The element that SumFunctionOnSet() takes from a set.
some(s) == CHOOSE x \in s : TRUE

\* The partial sums by which SumFunctionOnSet() is defined.
Sums(f, S, sum) ==
    sum = [s \in SUBSET S |-> IF s = {} THEN 0 ELSE f[some(s)] + sum[s \ {some(s)}]]

\* It is an element.
LEMMA SomeElement == ASSUME NEW S, S # {} PROVE some(S) \in S
BY DEF some

\* The sum is one of them, if there are any.
LEMMA SumIsPartial ==
    ASSUME NEW f, NEW S, NEW g, Sums(f, S, g)
    PROVE  \E h : Sums(f, S, h) /\ SumFunctionOnSet(f, S) = h[S]
<1>. DEFINE it == CHOOSE h : h =
                    [s \in SUBSET S |-> IF s = {} THEN 0 ELSE f[some(s)] + h[s \ {some(s)}]]
<1>1. Sums(f, S, it)
  BY DEF Sums
<1>2. SumFunctionOnSet(f, S) = it[S]
  BY Zenon DEF SumFunctionOnSet, FoldFunctionOnSet, MapThenFoldSet, some
<1>. QED BY <1>1, <1>2

\* Partial sums depend on the summands only, not on the set they are formed for.
LEMMA PartialSumsAgree ==
    ASSUME NEW f, NEW g, NEW S, NEW T, NEW sf, NEW sg, Sums(f, S, sf), Sums(g, T, sg),
           NEW A, A \subseteq S, A \subseteq T, IsFiniteSet(A), \A x \in A : f[x] = g[x]
    PROVE  sf[A] = sg[A]
<1>. DEFINE B == {U \in SUBSET A : sf[U] # sg[U]}
<1>. SUFFICES ASSUME B # {} PROVE FALSE
  OBVIOUS
<1>1. \A U \in B : IsFiniteSet(U)
  BY FS_Subset
<1>2. PICK U \in B : \A V \in SUBSET U : V # U => V \notin B
  <2>. HIDE DEF B
  <2>. QED BY <1>1, SmallestSet
<1>3. /\ sf[U] = IF U = {} THEN 0 ELSE f[some(U)] + sf[U \ {some(U)}]
      /\ sg[U] = IF U = {} THEN 0 ELSE g[some(U)] + sg[U \ {some(U)}]
  <2>1. U \in SUBSET S /\ U \in SUBSET T
    OBVIOUS
  <2>. QED BY <2>1 DEF Sums
<1>4. U # {} /\ some(U) \in U
  BY <1>3, SomeElement
<1>5. U \ {some(U)} \notin B
  BY <1>2, <1>4
<1>. QED BY <1>3, <1>4, <1>5

\* A finite set has partial sums.
LEMMA SomePartialSums ==
    ASSUME NEW f, NEW S, IsFiniteSet(S)
    PROVE  \E g : Sums(f, S, g)
<1>. DEFINE B == {U \in SUBSET S : \A g : ~Sums(f, U, g)}
<1>. SUFFICES ASSUME B # {} PROVE FALSE
  OBVIOUS
<1>1. \A U \in B : IsFiniteSet(U)
  BY FS_Subset
<1>2. PICK U \in B : \A V \in SUBSET U : V # U => V \notin B
  <2>. HIDE DEF B
  <2>. QED BY <1>1, SmallestSet
<1>3. \A V \in SUBSET U : V # U => \E g : Sums(f, V, g)
  BY <1>2
<1>. DEFINE h == [s \in SUBSET U |-> IF s = {} THEN 0
                    ELSE f[some(s)] + SumFunctionOnSet(f, s \ {some(s)})]
<1>4. ASSUME NEW s \in SUBSET U, s # U
      PROVE  SumFunctionOnSet(f, s) = h[s]
  <2>1. PICK g : Sums(f, s, g) /\ SumFunctionOnSet(f, s) = g[s]
    BY <1>3, <1>4, SumIsPartial
  <2>2. CASE s = {}
    BY <2>1, <2>2 DEF Sums
  <2>3. CASE s # {}
    <3>. DEFINE t == s \ {some(s)}
    <3>1. t \in SUBSET s /\ t \in SUBSET U /\ t # U /\ IsFiniteSet(t)
      BY <2>3, SomeElement, FS_Subset
    <3>2. PICK gt : Sums(f, t, gt) /\ SumFunctionOnSet(f, t) = gt[t]
      BY <1>3, <3>1, SumIsPartial
    <3>3. g[t] = gt[t]
      BY <2>1, <3>1, <3>2, PartialSumsAgree
    <3>4. g[s] = f[some(s)] + g[t]
      BY <2>1, <2>3 DEF Sums
    <3>. QED BY <2>1, <2>3, <3>2, <3>3, <3>4
  <2>. QED BY <2>2, <2>3
<1>5. \A s \in SUBSET U : s # {} => s \ {some(s)} \in SUBSET U /\ s \ {some(s)} # U
  BY SomeElement
<1>6. Sums(f, U, h)
  <2>1. \A s \in SUBSET U : s # {} => SumFunctionOnSet(f, s \ {some(s)}) = h[s \ {some(s)}]
    BY <1>4, <1>5
  <2>. QED BY <2>1 DEF Sums
<1>. QED BY <1>2, <1>6

\* The sum over a finite set, by the element that is taken first.
LEMMA SumStep ==
    ASSUME NEW f, NEW S, IsFiniteSet(S)
    PROVE  SumFunctionOnSet(f, S) =
             IF S = {} THEN 0 ELSE f[some(S)] + SumFunctionOnSet(f, S \ {some(S)})
<1>. DEFINE T == S \ {some(S)}
<1>1. PICK g : Sums(f, S, g) /\ SumFunctionOnSet(f, S) = g[S]
  BY SomePartialSums, SumIsPartial
<1>2. IsFiniteSet(T) /\ T \subseteq S
  BY FS_Subset
<1>3. PICK gt : Sums(f, T, gt) /\ SumFunctionOnSet(f, T) = gt[T]
  BY <1>2, SomePartialSums, SumIsPartial
<1>4. g[T] = gt[T]
  BY <1>1, <1>2, <1>3, PartialSumsAgree
<1>5. g[S] = IF S = {} THEN 0 ELSE f[some(S)] + g[T]
  BY <1>1 DEF Sums
<1>. QED BY <1>1, <1>3, <1>4, <1>5

\* Sums of equal summands are equal.
LEMMA SumAgrees ==
    ASSUME NEW f, NEW g, NEW S, IsFiniteSet(S), \A x \in S : f[x] = g[x]
    PROVE  SumFunctionOnSet(f, S) = SumFunctionOnSet(g, S)
<1>1. PICK sf : Sums(f, S, sf) /\ SumFunctionOnSet(f, S) = sf[S]
  BY SomePartialSums, SumIsPartial
<1>2. PICK sg : Sums(g, S, sg) /\ SumFunctionOnSet(g, S) = sg[S]
  BY SomePartialSums, SumIsPartial
<1>. QED BY <1>1, <1>2, PartialSumsAgree

\* A sum of natural numbers is one.
LEMMA SumNat ==
    ASSUME NEW f, NEW S, IsFiniteSet(S), \A x \in S : f[x] \in Nat
    PROVE  SumFunctionOnSet(f, S) \in Nat
<1>. DEFINE B == {U \in SUBSET S : SumFunctionOnSet(f, U) \notin Nat}
<1>. SUFFICES ASSUME B # {} PROVE FALSE
  OBVIOUS
<1>1. \A U \in B : IsFiniteSet(U)
  BY FS_Subset
<1>2. PICK U \in B : \A V \in SUBSET U : V # U => V \notin B
  <2>. HIDE DEF B
  <2>. QED BY <1>1, SmallestSet
<1>3. SumFunctionOnSet(f, U) =
        IF U = {} THEN 0 ELSE f[some(U)] + SumFunctionOnSet(f, U \ {some(U)})
  BY <1>1, SumStep
<1>4. U # {} => SumFunctionOnSet(f, U \ {some(U)}) \in Nat /\ f[some(U)] \in Nat
  BY <1>2, SomeElement
<1>. QED BY <1>3, <1>4

\* Any element may be taken first.
LEMMA SumRemove ==
    ASSUME NEW f, NEW S, IsFiniteSet(S), \A x \in S : f[x] \in Nat, NEW y \in S
    PROVE  SumFunctionOnSet(f, S) = f[y] + SumFunctionOnSet(f, S \ {y})
<1>. DEFINE sum(U) == SumFunctionOnSet(f, U)
<1>. DEFINE B == {U \in SUBSET S : \E x \in U : sum(U) # f[x] + sum(U \ {x})}
<1>. SUFFICES ASSUME B # {} PROVE FALSE
  OBVIOUS
<1>1. \A U \in SUBSET S : IsFiniteSet(U) /\ sum(U) \in Nat
  BY FS_Subset, SumNat
<1>2. PICK U \in B : \A V \in SUBSET U : V # U => V \notin B
  <2>. HIDE DEF B
  <2>1. \A U \in B : IsFiniteSet(U)
    BY <1>1 DEF B
  <2>. QED BY <2>1, SmallestSet
<1>3. PICK x \in U : sum(U) # f[x] + sum(U \ {x})
  OBVIOUS
<1>. DEFINE z == some(U)
<1>4. z \in U /\ sum(U) = f[z] + sum(U \ {z})
  BY <1>1, <1>3, SumStep, SomeElement
<1>5. z # x
  BY <1>3, <1>4
<1>6. sum(U \ {z}) = f[x] + sum((U \ {z}) \ {x})
  <2>1. U \ {z} \notin B /\ x \in U \ {z}
    BY <1>2, <1>4, <1>5
  <2>. QED BY <2>1
<1>7. sum(U \ {x}) = f[z] + sum((U \ {x}) \ {z})
  <2>1. U \ {x} \notin B /\ z \in U \ {x}
    BY <1>2, <1>3, <1>4, <1>5
  <2>. QED BY <2>1
<1>8. sum((U \ {z}) \ {x}) = sum((U \ {x}) \ {z})
  <2>1. (U \ {z}) \ {x} = (U \ {x}) \ {z}
    OBVIOUS
  <2>. QED BY <2>1
<1>9. f[x] \in Nat /\ f[z] \in Nat /\ sum((U \ {x}) \ {z}) \in Nat
  BY <1>1, <1>3, <1>4
<1>10. f[z] + (f[x] + sum((U \ {x}) \ {z})) = f[x] + (f[z] + sum((U \ {x}) \ {z}))
  BY <1>9
<1>. QED BY <1>3, <1>4, <1>6, <1>7, <1>8, <1>10

-----------------------------------------------------------------------------
(* Nothing is invented.  ReservedIsGranted needs the copies of a row that    *)
(* are still to be written: a reserve() is ahead of what has been granted by *)
(* the item it works for, which has not been granted yet.                  *)

\* The current item is granted once, by the answer "ok".
Fresh(o) ==
    /\ granted[o] \subseteq 1..next[o]
    /\ \/ handler[o] \in {"called", "read", "found"}
       \/ pc[o] \in {"new", "customer", "product"}
       => next[o] \notin granted[o]

\* What each copy of a row shows as reserved.
Promised ==
    /\ \A p \in Product : row[p] # NoRow => row[p].reserved <= Granted(p)
    /\ \A p \in Product : patch[p] # NoRow => patch[p].reserved <= Granted(p)
    /\ \A o \in Order : read[o] # NoRow =>
         read[o].reserved <= Granted(Item(o).product) + Item(o).quantity

GrantInv == (\A o \in Order : Fresh(o)) /\ Promised

\* Quantities add up to numbers.
LEMMA GrantedNat ==
    ASSUME TypeOK, NEW p
    PROVE  /\ \A o \in Order : /\ IsFiniteSet(granted[o])
                               /\ \A i \in DOMAIN Cart[o] : Wanted(o, p)[i] \in Nat
                               /\ SumFunctionOnSet(Wanted(o, p), granted[o]) \in Nat
           /\ Granted(p) \in Nat
<1>1. ASSUME NEW o \in Order
      PROVE  /\ IsFiniteSet(granted[o])
             /\ \A i \in DOMAIN Cart[o] : Wanted(o, p)[i] \in Nat
             /\ SumFunctionOnSet(Wanted(o, p), granted[o]) \in Nat
  <2>1. /\ Len(Cart[o]) \in Nat /\ DOMAIN Cart[o] = 1..Len(Cart[o])
        /\ granted[o] \subseteq DOMAIN Cart[o]
    BY CartType
  <2>2. IsFiniteSet(granted[o])
    <3>1. IsFiniteSet(1..Len(Cart[o]))
      BY <2>1, FS_Interval
    <3>. QED BY <2>1, <3>1, FS_Subset
  <2>3. \A i \in DOMAIN Cart[o] : Cart[o][i] \in [product : Product, quantity : Nat]
    BY <2>1, OrdersAssumption, ElementOfSeq
  <2>4. \A i \in DOMAIN Cart[o] : Wanted(o, p)[i] \in Nat
    BY <2>3 DEF Wanted
  <2>. QED BY <2>1, <2>2, <2>4, SumNat
<1>. DEFINE F == [o \in Order |-> SumFunctionOnSet(Wanted(o, p), granted[o])]
<1>2. \A o \in Order : F[o] \in Nat
  BY <1>1
<1>3. SumFunctionOnSet(F, Order) \in Nat
  <2>. HIDE DEF F
  <2>. QED BY <1>2, SumNat, OrdersAssumption
<1>4. Granted(p) = SumFunctionOnSet(F, Order)
  BY DEF Granted, SumFunction
<1>. QED BY <1>1, <1>3, <1>4

\* One item more adds its quantity to what has been granted of its product.
LEMMA GrantedGrows ==
    ASSUME TypeOK, NEW o \in Order, NEW p, next[o] \in DOMAIN Cart[o], next[o] \notin granted[o],
           granted' = [granted EXCEPT ![o] = @ \union {next[o]}]
    PROVE  Granted(p)' = Granted(p) + Wanted(o, p)[next[o]]
<1>. DEFINE F == [q \in Order |-> SumFunctionOnSet(Wanted(q, p), granted[q])]
            G == [q \in Order |-> SumFunctionOnSet(Wanted(q, p), granted'[q])]
            n == Wanted(o, p)[next[o]]
<1>1. Granted(p) = SumFunctionOnSet(F, Order) /\ Granted(p)' = SumFunctionOnSet(G, Order)
  BY DEF Granted, SumFunction, Wanted
<1>2. /\ granted'[o] = granted[o] \union {next[o]}
      /\ \A q \in Order \ {o} : granted'[q] = granted[q]
  BY DEF TypeOK
<1>3. n \in Nat /\ \A q \in Order : F[q] \in Nat
  <2>1. \A q \in Order : F[q] \in Nat
    <3>. SUFFICES ASSUME NEW q \in Order PROVE SumFunctionOnSet(Wanted(q, p), granted[q]) \in Nat
      OBVIOUS
    <3>. QED BY GrantedNat
  <2>2. \A i \in DOMAIN Cart[o] : Wanted(o, p)[i] \in Nat
    BY GrantedNat
  <2>. QED BY <2>1, <2>2
<1>4. G[o] = F[o] + n
  <2>. DEFINE S == granted'[o]
  <2>1. S = granted[o] \union {next[o]} /\ S \ {next[o]} = granted[o] /\ next[o] \in S
    BY <1>2
  <2>2. IsFiniteSet(S)
    BY <2>1, GrantedNat, FS_AddElement
  <2>3. \A i \in S : Wanted(o, p)[i] \in Nat
    BY <2>1, GrantedNat, CartType
  <2>4. SumFunctionOnSet(Wanted(o, p), S) =
          n + SumFunctionOnSet(Wanted(o, p), S \ {next[o]})
    <3>. HIDE DEF S
    <3>. QED BY <2>1, <2>2, <2>3, SumRemove
  <2>5. G[o] = n + F[o]
    BY <2>1, <2>4
  <2>. QED BY <1>3, <2>5
<1>5. \A q \in Order \ {o} : G[q] = F[q]
  BY <1>2
<1>6. \A q \in Order : G[q] \in Nat
  <2>. HIDE DEF F, G, n
  <2>1. G[o] \in Nat
    BY <1>3, <1>4
  <2>. QED BY <2>1, <1>3, <1>5
<1>. HIDE DEF F, G, n
<1>7. IsFiniteSet(Order) /\ IsFiniteSet(Order \ {o})
  BY OrdersAssumption, FS_Subset
<1>8. SumFunctionOnSet(F, Order) = F[o] + SumFunctionOnSet(F, Order \ {o})
  BY <1>3, <1>7, SumRemove
<1>9. SumFunctionOnSet(G, Order) = G[o] + SumFunctionOnSet(G, Order \ {o})
  BY <1>6, <1>7, SumRemove
<1>10. SumFunctionOnSet(G, Order \ {o}) = SumFunctionOnSet(F, Order \ {o})
  BY <1>5, <1>7, SumAgrees
<1>11. SumFunctionOnSet(F, Order \ {o}) \in Nat
  BY <1>3, <1>7, SumNat
<1>12. Granted(p)' = Granted(p) + n
  BY <1>1, <1>3, <1>4, <1>8, <1>9, <1>10, <1>11
<1>. QED BY <1>12 DEF n

\* Nothing granted, nothing promised.
LEMMA GrantInit == Init => GrantInv
<1>. SUFFICES ASSUME Init PROVE GrantInv
  OBVIOUS
<1>1. TypeOK /\ \A p \in Product : row[p].reserved = 0
  BY InitInv DEF IInv, Init
<1>2. \A p \in Product : row[p].reserved <= Granted(p)
  <2>. TAKE p \in Product
  <2>1. Granted(p) \in Nat
    BY <1>1, GrantedNat
  <2>. QED BY <1>1, <2>1
<1>3. \A o \in Order : Fresh(o)
  BY DEF Init, Fresh
<1>4. Promised
  BY <1>2 DEF Promised, Init
<1>. QED BY <1>3, <1>4 DEF GrantInv

\* What is granted stays granted when no reserve() is saved.
LEMMA GrantedSame ==
    ASSUME UNCHANGED granted, NEW p
    PROVE  Granted(p)' = Granted(p)
BY DEF Granted, Wanted

\* create() goes on to an item that has not been granted, and leaves no
\* reserve() at work for the one before.
LEMMA CallerGrant ==
    ASSUME IInv, GrantInv, NEW o \in Order, CallerStep(o)
    PROVE  GrantInv'
<1>1. TypeOK /\ Progress(o) /\ Fresh(o)
  BY DEF IInv, GrantInv
<1>2. /\ UNCHANGED <<row, patch, patchFound, read, found, granted>>
      /\ \A q \in Order \ {o} : /\ pc'[q] = pc[q] /\ next'[q] = next[q]
                                /\ handler'[q] = handler[q] /\ saved'[q] = saved[q]
                                /\ remover'[q] = remover[q]
  BY <1>1, CallerShape
<1>3. CASE ReserveAnswers(o)
  <2>1. /\ handler[o] = "ok" /\ handler'[o] = "none" /\ next'[o] = next[o] + 1
    BY <1>1, <1>3 DEF ReserveAnswers, TypeOK
  <2>2. read[o] = NoRow
    BY <1>1, <2>1 DEF Progress
  <2>3. granted[o] \subseteq 1..next[o] /\ next[o] \in Nat
    BY <1>1, CartType DEF Fresh
  <2>4. granted[o] \subseteq 1..(next[o] + 1) /\ next[o] + 1 \notin granted[o]
    BY <2>3
  <2>5. Fresh(o)'
    BY <1>2, <2>1, <2>4 DEF Fresh
  <2>. QED BY <1>2, <2>2, <2>5, GrantedSame DEF GrantInv, Promised, Fresh, Item
<1>4. CASE ~ReserveAnswers(o)
  <2>1. next'[o] = next[o]
    BY <1>1, <1>4 DEF CallerStep, Create, CreateStep, CustomerAnswers, ProductAnswers,
       ReserveRefused, HttpFails, SaveOrder, SaveItems, SaveFails, Return, RemoveItems,
       RemoveOrder, TypeOK
  <2>2. /\ pc'[o] \in {"new", "customer", "product"} =>
             pc[o] \in {"new", "customer", "product"}
        /\ handler'[o] \in {"called", "read", "found"} =>
             handler[o] \in {"called", "read", "found"} \/ pc[o] = "product"
    BY <1>1, <1>4 DEF CallerStep, Create, CreateStep, CustomerAnswers, ProductAnswers,
       ReserveRefused, HttpFails, SaveOrder, SaveItems, SaveFails, Return, RemoveItems,
       RemoveOrder, goto, handlerVars, TypeOK
  <2>3. Fresh(o)'
    BY <1>1, <1>2, <2>1, <2>2 DEF Fresh
  <2>4. \A q \in Order : Fresh(q)'
    BY <1>2, <2>3 DEF GrantInv, Fresh
  <2>5. \A q \in Order : Item(q)' = Item(q)
    BY <1>2, <2>1 DEF Item
  <2>6. Promised'
    BY <1>2, <2>5, GrantedSame DEF GrantInv, Promised
  <2>. QED BY <2>4, <2>6 DEF GrantInv
<1>. QED BY <1>3, <1>4

-----------------------------------------------------------------------------
\* A reserve() that ends without saving takes its entity with it.
LEMMA ReserveEndsGrant ==
    ASSUME IInv, GrantInv, NEW o \in Order, handler[o] \in {"called", "read", "found"},
           answer(o, "refused"), UNCHANGED <<inventoryVars, granted, orderVars>>
    PROVE  GrantInv'
<1>1. TypeOK
  BY DEF IInv
<1>2. /\ handler'[o] = "refused" /\ read'[o] = NoRow
      /\ \A q \in Order \ {o} : handler'[q] = handler[q] /\ read'[q] = read[q]
  BY <1>1, AnswerShape
<1>3. \A q \in Order : Fresh(q)'
  BY <1>2 DEF GrantInv, Fresh, orderVars
<1>4. Promised'
  BY <1>2, GrantedSame DEF GrantInv, Promised, Item, inventoryVars, orderVars
<1>. QED BY <1>3, <1>4 DEF GrantInv

\* The entity is ahead of the row by the current item.
LEMMA ReserveReadsGrant ==
    ASSUME IInv, GrantInv, NEW o \in Order, ReserveReads(o)
    PROVE  GrantInv'
<1>. DEFINE p == Item(o).product  inv == row[p]  n == Item(o).quantity
<1>1. TypeOK /\ handler[o] = "called" /\ UNCHANGED <<inventoryVars, granted, orderVars>>
  BY DEF IInv, ReserveReads
<1>2. p \in Product /\ n \in Nat
  BY <1>1, ItemType DEF IInv, Progress
<1>3. CASE inv = NoRow \/ ~available(inv, n)
  BY <1>1, <1>3, ReserveEndsGrant DEF ReserveReads
<1>4. CASE inv # NoRow /\ available(inv, n)
  <2>. DEFINE e == [inv EXCEPT !.reserved = @ + n]
  <2>1. /\ handler' = [handler EXCEPT ![o] = "read"] /\ read' = [read EXCEPT ![o] = e]
        /\ UNCHANGED found
    BY <1>4 DEF ReserveReads
  <2>2. inv \in Row /\ inv.reserved \in Nat /\ e.reserved = inv.reserved + n
    <3>1. inv \in Row
      BY <1>1, <1>2, <1>4 DEF TypeOK
    <3>. QED BY <3>1 DEF Row
  <2>3. inv.reserved <= Granted(p) /\ Granted(p) \in Nat
    BY <1>1, <1>2, <1>4, GrantedNat DEF GrantInv, Promised
  <2>4. e.reserved <= Granted(p) + n
    BY <1>2, <2>2, <2>3
  <2>5. \A q \in Order : Fresh(q)'
    BY <1>1, <2>1 DEF GrantInv, Fresh, orderVars, TypeOK
  <2>6. \A q \in Order : read'[q] # NoRow => read'[q].reserved <= Granted(Item(q).product) + Item(q).quantity
    BY <1>1, <2>1, <2>4 DEF GrantInv, Promised, TypeOK
  <2>7. Promised'
    BY <1>1, <2>6, GrantedSame DEF GrantInv, Promised, Item, inventoryVars, orderVars
  <2>. QED BY <2>5, <2>7 DEF GrantInv
<1>. QED BY <1>3, <1>4

\* The second select changes no copy that is still to be saved.
LEMMA ReserveSelectsGrant ==
    ASSUME IInv, GrantInv, NEW o \in Order, ReserveSelects(o)
    PROVE  GrantInv'
<1>1. /\ TypeOK /\ handler[o] = "read" /\ handler' = [handler EXCEPT ![o] = "found"]
      /\ UNCHANGED <<row, patch, read, granted, pc, next>>
  BY DEF IInv, ReserveSelects, inventoryVars, orderVars
<1>2. \A q \in Order : Fresh(q)'
  BY <1>1 DEF GrantInv, Fresh, TypeOK
<1>3. Promised'
  BY <1>1, GrantedSame DEF GrantInv, Promised, Item
<1>. QED BY <1>2, <1>3 DEF GrantInv

\* What save() writes shows a count that one of the two copies has shown.
LEMMA WrittenReserved ==
    ASSUME NEW entity \in Row, NEW selected, NEW current \in Row \union {NoRow},
           NEW r, r = written(entity, selected, current), r # NoRow
    PROVE  r.reserved = entity.reserved \/ (current # NoRow /\ r.reserved = current.reserved)
BY DEF written, Row

\* save() pays for what the entity is ahead: the item is granted with it.
LEMMA ReserveSavesGrant ==
    ASSUME IInv, GrantInv, NEW o \in Order, ReserveSaves(o)
    PROVE  GrantInv'
<1>. DEFINE n == Item(o).quantity
<1>. PICK p : p = Item(o).product
  OBVIOUS
<1>1. /\ TypeOK /\ Progress(o) /\ Fresh(o) /\ handler[o] = "found"
      /\ row' = [row EXCEPT ![p] = written(read[o], found[o], @)]
      /\ granted' = [granted EXCEPT ![o] = @ \union {next[o]}]
      /\ answer(o, "ok")
      /\ UNCHANGED <<patch, patchFound, pc, next>>
  BY DEF IInv, GrantInv, ReserveSaves, orderVars
<1>2. /\ p \in Product /\ n \in Nat /\ next[o] \in DOMAIN Cart[o]
      /\ next[o] \notin granted[o] /\ read[o] \in Row /\ read[o] # NoRow
  BY <1>1, ItemType DEF Progress, Fresh, TypeOK
<1>3. /\ handler'[o] = "ok" /\ read'[o] = NoRow
      /\ \A q \in Order \ {o} : handler'[q] = handler[q] /\ read'[q] = read[q]
  BY <1>1, AnswerShape
<1>4. ASSUME NEW k
      PROVE  /\ Granted(k) \in Nat /\ Granted(k)' \in Nat /\ Granted(k) <= Granted(k)'
             /\ k = p => Granted(k)' = Granted(k) + n
  <2>1. Granted(k)' = Granted(k) + Wanted(o, k)[next[o]]
    BY <1>1, <1>2, GrantedGrows
  <2>2. Granted(k) \in Nat /\ Wanted(o, k)[next[o]] \in Nat
    BY <1>1, <1>2, GrantedNat
  <2>3. k = p => Wanted(o, k)[next[o]] = n
    BY <1>2 DEF Wanted, Item
  <2>. QED BY <2>1, <2>2, <2>3
<1>5. \A q \in Order : Fresh(q)'
  <2>1. Fresh(o)'
    <3>1. granted'[o] = granted[o] \union {next[o]}
      BY <1>1 DEF TypeOK
    <3>2. next[o] \in 1..next[o]
      BY <1>1, CartType
    <3>3. pc[o] \notin {"new", "customer", "product"}
      BY <1>1 DEF Progress
    <3>. QED BY <1>1, <1>3, <3>1, <3>2, <3>3 DEF Fresh
  <2>2. \A q \in Order \ {o} : granted'[q] = granted[q]
    BY <1>1 DEF TypeOK
  <2>. QED BY <1>1, <1>3, <2>1, <2>2 DEF GrantInv, Fresh
<1>6. ASSUME NEW k \in Product, row'[k] # NoRow
      PROVE  row'[k].reserved <= Granted(k)'
  <2>1. CASE k = p
    <3>1. row'[p] = written(read[o], found[o], row[p]) /\ row[p] \in Row \union {NoRow}
      BY <1>1, <1>2 DEF TypeOK
    <3>2. \/ row'[p].reserved = read[o].reserved
          \/ row[p] # NoRow /\ row'[p].reserved = row[p].reserved
      BY <1>2, <1>6, <2>1, <3>1, WrittenReserved
    <3>3. read[o].reserved <= Granted(p) + n
      BY <1>2 DEF GrantInv, Promised
    <3>4. row[p] # NoRow => row[p].reserved <= Granted(p) /\ row[p].reserved \in Nat
      BY <1>2, <3>1 DEF GrantInv, Promised, Row
    <3>5. Granted(p)' = Granted(p) + n /\ Granted(p) \in Nat
      BY <1>4
    <3>. QED BY <1>2, <2>1, <3>2, <3>3, <3>4, <3>5
  <2>2. CASE k # p
    <3>1. row'[k] = row[k] /\ row[k] \in Row
      BY <1>1, <1>6, <2>2 DEF TypeOK
    <3>2. row[k].reserved <= Granted(k) /\ row[k].reserved \in Nat
      BY <1>6, <3>1 DEF GrantInv, Promised, Row
    <3>3. Granted(k) \in Nat /\ Granted(k)' \in Nat /\ Granted(k) <= Granted(k)'
      BY <1>4
    <3>. QED BY <3>1, <3>2, <3>3
  <2>. QED BY <2>1, <2>2
<1>7. ASSUME NEW k \in Product, patch[k] # NoRow
      PROVE  patch[k].reserved <= Granted(k)'
  <2>1. patch[k].reserved <= Granted(k) /\ patch[k].reserved \in Nat
    BY <1>1, <1>7 DEF GrantInv, Promised, Row, TypeOK
  <2>2. Granted(k) \in Nat /\ Granted(k)' \in Nat /\ Granted(k) <= Granted(k)'
    BY <1>4
  <2>. QED BY <2>1, <2>2
<1>8. ASSUME NEW q \in Order, read'[q] # NoRow
      PROVE  read'[q].reserved <= Granted(Item(q).product)' + Item(q).quantity
  <2>. PICK k : k = Item(q).product
    OBVIOUS
  <2>1. q # o /\ read'[q] = read[q] /\ read[q] \in Row
    BY <1>1, <1>3, <1>8 DEF TypeOK
  <2>2. Item(q).quantity \in Nat
    BY <1>1, <1>8, <2>1, ItemType DEF IInv, Progress
  <2>3. read[q].reserved \in Nat /\ read[q].reserved <= Granted(k) + Item(q).quantity
    BY <1>8, <2>1 DEF GrantInv, Promised, Row
  <2>4. Granted(k) \in Nat /\ Granted(k)' \in Nat /\ Granted(k) <= Granted(k)'
    BY <1>4
  <2>5. Granted(Item(q).product)' = Granted(k)'
    BY <1>1 DEF Item
  <2>. QED BY <2>1, <2>2, <2>3, <2>4, <2>5
<1>9. Promised'
  BY <1>1, <1>6, <1>7, <1>8 DEF Promised, Item
<1>. QED BY <1>5, <1>9 DEF GrantInv

\* A PATCH brings back a count that was paid for already.
LEMMA PatchGrant ==
    ASSUME IInv, GrantInv, NEW p \in Product,
           PatchReads(p) \/ PatchSelects(p) \/ PatchSaves(p) \/ RemoveRow(p)
    PROVE  GrantInv'
<1>1. TypeOK /\ UNCHANGED <<pc, next, handler, read, granted>>
  BY DEF IInv, PatchReads, PatchSelects, PatchSaves, RemoveRow, handlerVars, orderVars
<1>2. \A q \in Order : Fresh(q)'
  BY <1>1 DEF GrantInv, Fresh
<1>3. \A k \in Product : row'[k] # NoRow => row'[k].reserved <= Granted(k)
  <2>1. CASE PatchReads(p) \/ PatchSelects(p)
    BY <2>1 DEF PatchReads, PatchSelects, GrantInv, Promised
  <2>2. CASE PatchSaves(p)
    <3>1. patch[p] # NoRow
      BY <2>2 DEF IInv, Stocked, PatchSaves
    <3>2. patch[p] \in Row /\ row[p] \in Row \union {NoRow}
      BY <1>1, <3>1 DEF TypeOK
    <3>3. /\ row'[p] = row[p] \/ row'[p] = written(patch[p], patchFound[p], row[p])
          /\ \A k \in Product \ {p} : row'[k] = row[k]
      BY <1>1, <2>2 DEF PatchSaves, TypeOK
    <3>4. row'[p] # NoRow => \/ row'[p].reserved = patch[p].reserved
                             \/ row[p] # NoRow /\ row'[p].reserved = row[p].reserved
      BY <3>2, <3>3, WrittenReserved
    <3>. QED BY <3>1, <3>3, <3>4 DEF GrantInv, Promised
  <2>3. CASE RemoveRow(p)
    BY <1>1, <2>3 DEF RemoveRow, GrantInv, Promised, TypeOK
  <2>. QED BY <2>1, <2>2, <2>3
<1>4. \A k \in Product : patch'[k] # NoRow => patch'[k].reserved <= Granted(k)
  <2>1. CASE PatchReads(p)
    <3>1. PICK n \in Restocks : patch' = [patch EXCEPT ![p] = [row[p] EXCEPT !.quantity = n]]
      BY <2>1 DEF PatchReads
    <3>2. row[p] \in Row /\ row[p] # NoRow
      BY <1>1, <2>1 DEF PatchReads, TypeOK
    <3>3. [row[p] EXCEPT !.quantity = n].reserved = row[p].reserved
      BY <3>2 DEF Row
    <3>. QED BY <1>1, <3>1, <3>2, <3>3 DEF GrantInv, Promised, TypeOK
  <2>2. CASE PatchSelects(p) \/ PatchSaves(p) \/ RemoveRow(p)
    BY <1>1, <2>2 DEF PatchSelects, PatchSaves, RemoveRow, GrantInv, Promised, TypeOK
  <2>. QED BY <2>1, <2>2
<1>5. Promised'
  BY <1>1, <1>3, <1>4, GrantedSame DEF GrantInv, Promised, Item
<1>. QED BY <1>2, <1>5 DEF GrantInv

\* No step shows more than it pays for.
LEMMA NextGrant == IInv /\ GrantInv /\ [Next]_vars => GrantInv'
<1>. SUFFICES ASSUME IInv, GrantInv, [Next]_vars PROVE GrantInv'
  OBVIOUS
<1>1. CASE UNCHANGED vars
  BY <1>1, GrantedSame
     DEF GrantInv, Fresh, Promised, Item, vars, inventoryVars, handlerVars, orderVars
<1>2. ASSUME NEW o \in Order, CallerStep(o) PROVE GrantInv'
  BY <1>2, CallerGrant
<1>3. ASSUME NEW o \in Order, HandlerStep(o) PROVE GrantInv'
  <2>1. CASE ReserveFails(o)
    BY <2>1, ReserveEndsGrant DEF ReserveFails
  <2>. QED BY <1>3, <2>1, ReserveReadsGrant, ReserveSelectsGrant, ReserveSavesGrant
           DEF HandlerStep
<1>4. ASSUME NEW p \in Product,
             PatchReads(p) \/ PatchSelects(p) \/ PatchSaves(p) \/ RemoveRow(p)
      PROVE  GrantInv'
  BY <1>4, PatchGrant
<1>. QED BY <1>1, <1>2, <1>3, <1>4 DEF Next, CallerStep

\* Whatever is lost, nothing is invented (inventory.service.ts, reserve() and
\* update()): with any orders, timeouts, failures, restocking and removal, a row
\* never shows more reserved than reserve() has promised to orders.
THEOREM NothingIsInvented == Spec => []ReservedIsGranted
<1>1. Init => IInv /\ GrantInv
  BY InitInv, GrantInit
<1>2. IInv /\ GrantInv /\ [Next]_vars => (IInv /\ GrantInv)'
  BY StepInv, NextGrant
<1>3. GrantInv => ReservedIsGranted
  BY DEF GrantInv, Promised, ReservedIsGranted
<1>. QED BY <1>1, <1>2, <1>3, PTL DEF Spec
=============================================================================
