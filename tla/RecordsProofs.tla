---------------------------- MODULE RecordsProofs -----------------------------
(***************************************************************************)
(* What holds of one row for any number of requests, columns and values.   *)
(***************************************************************************)
EXTENDS Records, TLAPS

-----------------------------------------------------------------------------
(* Types.  Every change of the row goes through store(), every other change *)
(* of a request through now().                                             *)

\* A new row has a value in every column.
LEMMA FirstType == First \in Row
BY RecordsAssumption DEF First, Row

\* A request that has ended is one.
LEMMA IdleType == Idle \in Requests
BY DEF Idle, Requests

\* A request that goes on stays one.
LEMMA NowType ==
    ASSUME TypeOK, NEW r, NEW next \in Requests, now(r, next)
    PROVE  req' \in [Request -> Requests]
BY DEF TypeOK, now, Requests

\* What the other requests learn of a change are columns.
LEMMA ChangedType ==
    ASSUME NEW before, NEW after
    PROVE  changed(before, after) \subseteq Column
BY DEF changed

\* So is one whose change is made.
LEMMA MadeType ==
    ASSUME TypeOK, NEW r \in Request
    PROVE  made(r) \in Requests
<1>1. req[r] \in Requests
  BY DEF TypeOK, Requests
<1>2. [req[r] EXCEPT !.at = "log"] \in Requests
  BY <1>1 DEF Requests
<1>. QED BY <1>2, IdleType DEF made

\* A statement keeps the types of the row and of all requests.
LEMMA StoreType ==
    ASSUME TypeOK, NEW r \in Request, NEW new \in Row \union {NoRow},
           NEW next \in Requests, store(r, new, next)
    PROVE  /\ row' \in Row \union {NoRow}
           /\ req' \in [Request -> Requests]
           /\ failed' \in BOOLEAN
<1>1. PICK n \in {next, Idle} :
        /\ req' = [q \in Request |->
             IF q = r THEN n
             ELSE IF at(q, "idle") THEN req[q]
             ELSE [req[q] EXCEPT !.others = @ \union changed(row, new)]]
        /\ failed' = (failed \/ n # next)
  BY DEF store
<1>2. n \in Requests
  BY IdleType
<1>3. ASSUME NEW q \in Request
      PROVE  [req[q] EXCEPT !.others = @ \union changed(row, new)] \in Requests
  <2>1. req[q] \in Requests /\ changed(row, new) \subseteq Column
    BY ChangedType DEF TypeOK, Requests
  <2>. QED BY <2>1 DEF Requests
<1>4. \A q \in Request : req[q] \in Requests
  BY DEF TypeOK, Requests
<1>. QED BY <1>1, <1>2, <1>3, <1>4 DEF store, TypeOK

\* What save() makes of a row is a row, or none.
LEMMA WrittenType ==
    ASSUME NEW entity \in Row, NEW selected, NEW current \in Row \union {NoRow}
    PROVE  /\ written(entity, selected, current) \in Row \union {NoRow}
           /\ current # NoRow => written(entity, selected, current) \in Row
BY DEF written, Row

\* findOne() and Object.assign() make an entity of the row.
LEMMA AssignType ==
    ASSUME TypeOK, NEW r \in Request, NEW base \in Row, assign(r, base)
    PROVE  /\ req' \in [Request -> Requests]
           /\ \E next \in Requests :
                /\ now(r, next)
                /\ next.at = "select" /\ next.op = "update" /\ next.entity \in Row
                /\ next.others = {}
                /\ \A c \in Column \ next.asked : next.entity[c] = base[c]
<1>0. PICK asked \in SUBSET Column : \E given \in [asked -> Value] :
        now(r, [Idle EXCEPT !.at = "select", !.op = "update", !.asked = asked,
                            !.entity = [c \in Column |-> IF c \in asked THEN given[c]
                                                                     ELSE base[c]],
                            !.hadItems = items])
  BY RecordsAssumption DEF assign
<1>1. PICK given \in [asked -> Value] :
        now(r, [Idle EXCEPT !.at = "select", !.op = "update", !.asked = asked,
                            !.entity = [c \in Column |-> IF c \in asked THEN given[c]
                                                                     ELSE base[c]],
                            !.hadItems = items])
  BY <1>0
<1>. DEFINE entity == [c \in Column |-> IF c \in asked THEN given[c] ELSE base[c]]
            begun == [Idle EXCEPT !.at = "select", !.op = "update", !.asked = asked,
                                 !.entity = entity, !.hadItems = items]
<1>2. entity \in Row /\ \A c \in Column \ asked : entity[c] = base[c]
  BY DEF Row
<1>3. /\ begun \in Requests /\ begun.at = "select" /\ begun.op = "update"
      /\ begun.entity = entity /\ begun.asked = asked /\ begun.others = {}
  <2>. HIDE DEF entity
  <2>. QED BY <1>2 DEF Requests, Idle, TypeOK
<1>4. now(r, begun)
  BY <1>1
<1>. HIDE DEF begun
<1>. QED BY <1>2, <1>3, <1>4, NowType

\* A request that has begun, moved on or ended is a request.
LEMMA MoveType ==
    ASSUME TypeOK, NEW r \in Request
    PROVE  /\ \A where \in {"insert", "save items", "delete", "log"} :
                [req[r] EXCEPT !.at = where] \in Requests
           /\ \A where \in {"check", "insert"} :
                [Idle EXCEPT !.at = where, !.op = "create", !.entity = First] \in Requests
           /\ \A where \in {"delete", "delete items"} :
                [Idle EXCEPT !.at = where, !.op = "delete"] \in Requests
           /\ [req[r] EXCEPT !.at = "write", !.seen = row] \in Requests
<1>1. req[r] \in Requests /\ row \in Row \union {NoRow}
  BY DEF TypeOK
<1>2. /\ \A where \in {"insert", "save items", "delete", "log"} :
           [req[r] EXCEPT !.at = where] \in Requests
      /\ [req[r] EXCEPT !.at = "write", !.seen = row] \in Requests
  BY <1>1 DEF Requests
<1>3. /\ \A where \in {"check", "insert"} :
           [Idle EXCEPT !.at = where, !.op = "create", !.entity = First] \in Requests
      /\ \A where \in {"delete", "delete items"} :
           [Idle EXCEPT !.at = where, !.op = "delete"] \in Requests
  BY FirstType DEF Requests, Idle
<1>. QED BY <1>2, <1>3

\* The steps of a request that leave the row alone.
Quietly(r) ==
    \/ Create(r) \/ Update(r) \/ FindThenRemove(r) \/ Remove(r)
    \/ OrderAnswers(r) \/ OrderUnknown(r) \/ SaveItems(r) \/ Select(r)
    \/ DeleteItems(r) \/ Log(r) \/ LogFails(r) \/ Fail(r)

\* Whatever the service, a step is one of these.
LEMMA Steps ==
    ASSUME Next
    PROVE  \/ \E r \in Request : Quietly(r) \/ Insert(r) \/ Write(r) \/ Delete(r)
           \/ Kill \/ OrderLives
BY DEF Next, Begin, Products, Customers, Inventory, Items, Orders, Payments, Quietly

\* What a request is about can be told from where it is.
Purposeful(k) ==
    /\ k.at \in {"check", "insert", "save items"} => k.op = "create"
    /\ k.at \in {"select", "write"} => k.op = "update" /\ k.entity \in Row
    /\ k.at \in {"delete items", "delete"} => k.op = "delete"
    /\ k.at = "log" => k.op # "none"

Purpose == \A r \in Request : Purposeful(req[r])

\* Those that leave the row alone keep the types.
LEMMA QuietType ==
    ASSUME TypeOK, Purpose, NEW r \in Request, Quietly(r)
    PROVE  TypeOK'
<1>1. CASE Create(r)
  BY <1>1, MoveType, NowType DEF Create, TypeOK
<1>2. CASE Update(r)
  BY <1>2, AssignType DEF Update, TypeOK
<1>3. CASE FindThenRemove(r) \/ Remove(r)
  BY <1>3, MoveType, NowType DEF FindThenRemove, Remove, TypeOK
<1>4. CASE OrderAnswers(r) \/ OrderUnknown(r)
  BY <1>4, MoveType, NowType, IdleType DEF OrderAnswers, OrderUnknown, TypeOK
<1>5. CASE SaveItems(r)
  BY <1>5, MadeType, NowType, IdleType DEF SaveItems, TypeOK
<1>6. CASE Select(r) \/ DeleteItems(r)
  BY <1>6, MoveType, NowType, IdleType DEF Select, DeleteItems, TypeOK
<1>7. CASE Log(r)
  <2>1. at(r, "log") => req[r].op \in {"create", "update", "delete"}
    BY DEF TypeOK, Requests, Purpose, Purposeful, at
  <2>. QED BY <1>7, <2>1, NowType, IdleType DEF Log, TypeOK
<1>8. CASE LogFails(r) \/ Fail(r)
  BY <1>8, NowType, IdleType DEF LogFails, Fail, TypeOK
<1>. QED BY <1>1, <1>2, <1>3, <1>4, <1>5, <1>6, <1>7, <1>8 DEF Quietly

\* So do those that write it, and all others.
LEMMA TypeStep == TypeOK /\ Purpose /\ [Next]_vars => TypeOK'
<1>. SUFFICES ASSUME TypeOK, Purpose, [Next]_vars PROVE TypeOK'
  OBVIOUS
<1>1. ASSUME NEW r \in Request, Insert(r) PROVE TypeOK'
  <2>1. /\ First \in Row \union {NoRow}
        /\ [req[r] EXCEPT !.at = "save items"] \in Requests /\ made(r) \in Requests
    BY FirstType, MoveType, MadeType
  <2>. QED BY <1>1, <2>1, StoreType DEF Insert, TypeOK
<1>2. ASSUME NEW r \in Request, Write(r) PROVE TypeOK'
  <2>1. CASE now(r, Idle) /\ UNCHANGED <<row, failed>>
    BY <1>2, <2>1, NowType, IdleType DEF Write, TypeOK
  <2>2. CASE store(r, written(req[r].entity, req[r].seen, row), made(r))
    <3>1. req[r].entity \in Row /\ row \in Row \union {NoRow}
      BY <1>2 DEF Write, at, Purpose, Purposeful, TypeOK
    <3>2. written(req[r].entity, req[r].seen, row) \in Row \union {NoRow}
      BY <3>1, WrittenType
    <3>. QED BY <1>2, <2>2, <3>2, StoreType, MadeType DEF Write, TypeOK
  <2>. QED BY <1>2, <2>1, <2>2 DEF Write
<1>3. ASSUME NEW r \in Request, Delete(r) PROVE TypeOK'
  BY <1>3, StoreType, MadeType DEF Delete, TypeOK
<1>4. CASE Kill
  BY <1>4, IdleType DEF Kill, TypeOK
<1>5. CASE OrderLives \/ UNCHANGED vars
  BY <1>5 DEF OrderLives, vars, TypeOK
<1>. QED BY <1>1, <1>2, <1>3, <1>4, <1>5, Steps, QuietType

-----------------------------------------------------------------------------
(* What a step does to requests.                                           *)

\* now() changes one request.
LEMMA NowEffect ==
    ASSUME TypeOK, NEW r \in Request, NEW next, now(r, next)
    PROVE  req'[r] = next /\ \A q \in Request \ {r} : req'[q] = req[q]
BY DEF TypeOK, now

\* store() changes one request, and others only learn of the change.
LEMMA StoreEffect ==
    ASSUME TypeOK, NEW r \in Request, NEW new, NEW next, store(r, new, next)
    PROVE  /\ row' = new
           /\ req'[r] \in {next, Idle}
           /\ failed' = (failed \/ req'[r] # next)
           /\ \A q \in Request \ {r} :
                /\ req'[q].at = req[q].at /\ req'[q].op = req[q].op
                /\ req'[q].asked = req[q].asked /\ req'[q].entity = req[q].entity
                /\ req[q].at # "idle" =>
                     req'[q].others = req[q].others \union changed(row, new)
<1>1. PICK n \in {next, Idle} :
        /\ req' = [q \in Request |->
             IF q = r THEN n
             ELSE IF at(q, "idle") THEN req[q]
             ELSE [req[q] EXCEPT !.others = @ \union changed(row, new)]]
        /\ failed' = (failed \/ n # next)
  BY DEF store
<1>2. req'[r] = n
  BY <1>1
<1>3. ASSUME NEW q \in Request \ {r}
      PROVE  /\ req'[q].at = req[q].at /\ req'[q].op = req[q].op
             /\ req'[q].asked = req[q].asked /\ req'[q].entity = req[q].entity
             /\ req[q].at # "idle" =>
                  req'[q].others = req[q].others \union changed(row, new)
  <2>1. req[q] \in Requests
    BY DEF TypeOK
  <2>2. req'[q] = IF at(q, "idle") THEN req[q]
                  ELSE [req[q] EXCEPT !.others = @ \union changed(row, new)]
    BY <1>1
  <2>3. CASE req[q].at = "idle"
    BY <2>2, <2>3 DEF at
  <2>4. CASE req[q].at # "idle"
    BY <2>1, <2>2, <2>4 DEF at, Requests
  <2>. QED BY <2>3, <2>4
<1>. QED BY <1>1, <1>2, <1>3 DEF store

\* Where a request is after its change has been made.
LEMMA MadeEffect ==
    ASSUME TypeOK, NEW r \in Request
    PROVE  /\ service \in Journalled => made(r).at = "log" /\ made(r).op = req[r].op
           /\ service \notin Journalled => made(r) = Idle
<1>1. req[r] \in Requests
  BY DEF TypeOK
<1>. QED BY <1>1 DEF made, Requests

-----------------------------------------------------------------------------
(* The invariant.                                                          *)

\* There is one creation, and before it there is no row.
OneCreation ==
    /\ \A p, q \in Request :
         req[p].at \in {"check", "insert"} /\ req[q].at \in {"check", "insert"} => p = q
    /\ born => \A r \in Request : req[r].at \notin {"check", "insert"}
    /\ row # NoRow => born
    /\ \A r \in Request : req[r].at \in {"select", "write"} => born

\* An update that is under way knows the row, or has been told what changed.
Agrees(k) ==
    k.at \in {"select", "write"} /\ row # NoRow =>
        \A c \in Column \ (k.asked \union k.others) : k.entity[c] = row[c]

Remembered == \A r \in Request : Agrees(req[r])

\* What has been done is in the journal or about to be.
Told(op) == op \in journal \/ \E r \in Request : req[r].op = op /\ req[r].at = "log"

Accounted ==
    service \in Journalled /\ ~failed /\ born =>
        /\ Told("create") \/ \E r \in Request : req[r].at = "save items"
        /\ row = NoRow => Told("delete")
        /\ row \notin {NoRow, First} => Told("update")

\* An order lacks its items only while it is created or removed.
Complete ==
    service = "order" /\ ~failed /\ row # NoRow =>
        \/ items \/ Told("delete")
        \/ \E r \in Request : req[r].at \in {"save items", "delete"}

IInv == TypeOK /\ Purpose /\ OneCreation /\ ItemsHaveTheirOrder /\ Remembered /\ Accounted /\ Complete

\* It holds before the row exists.
LEMMA InitInv == Init => IInv
<1>. SUFFICES ASSUME Init PROVE IInv
  OBVIOUS
<1>1. \A r \in Request : req[r].at = "idle"
  BY DEF Init, Idle
<1>2. TypeOK
  BY IdleType DEF Init, TypeOK
<1>3. Purpose /\ OneCreation /\ ItemsHaveTheirOrder /\ Remembered
  BY <1>1 DEF Init, Purpose, Purposeful, OneCreation, ItemsHaveTheirOrder, Remembered, Agrees
<1>4. Accounted /\ Complete
  BY DEF Init, Accounted, Complete
<1>. QED BY <1>2, <1>3, <1>4 DEF IInv

\* A request that ends before its change is made has changed nothing, or the
\* failure is noted.
LEMMA Ends ==
    ASSUME IInv, TypeOK', NEW r \in Request, now(r, Idle),
           UNCHANGED <<service, row, born, items, theOrder, journal>>,
           \/ UNCHANGED failed /\ req[r].at \in {"check", "select", "write"}
           \/ failed'
    PROVE  IInv'
<1>1. req'[r] = Idle /\ \A q \in Request \ {r} : req'[q] = req[q]
  BY NowEffect DEF IInv
<1>2. Purpose'
  <2>1. Purposeful(Idle)
    BY DEF Purposeful, Idle
  <2>2. \A q \in Request : Purposeful(req'[q])
    BY <1>1, <2>1 DEF IInv, Purpose
  <2>. QED BY <2>2, Zenon DEF Purpose, Purposeful, Row
<1>3. OneCreation' /\ ItemsHaveTheirOrder'
  BY <1>1 DEF IInv, OneCreation, ItemsHaveTheirOrder, Idle
<1>4. Remembered'
  BY <1>1 DEF IInv, Remembered, Agrees, Idle
<1>5. Accounted'
  BY <1>1 DEF IInv, Accounted, Told, Idle
<1>6. Complete'
  BY <1>1 DEF IInv, Complete, Told, Idle
<1>. QED BY <1>2, <1>3, <1>4, <1>5, <1>6 DEF IInv

\* A request begins: the row is not there yet, or it is read, or removed.
LEMMA BeginInv ==
    ASSUME IInv, TypeOK', NEW r \in Request,
           Create(r) \/ Update(r) \/ FindThenRemove(r) \/ Remove(r)
    PROVE  IInv'
<1>1. PICK k :
        /\ now(r, k)
        /\ \/ /\ k.at \in {"check", "insert"} /\ k.op = "create" /\ ~born
              /\ \A q \in Request : req[q].op # "create"
              /\ service = "payment" => k.at = "check"
           \/ /\ k.at = "select" /\ k.op = "update" /\ k.entity \in Row /\ born
              /\ \A c \in Column \ k.asked : k.entity[c] = row[c]
           \/ k.at \in {"delete", "delete items"} /\ k.op = "delete"
  <2>1. CASE Create(r)
    <3>. DEFINE k == [Idle EXCEPT !.at = IF service = "payment" THEN "check" ELSE "insert",
                                  !.op = "create", !.entity = First]
    <3>1. /\ k.at = IF service = "payment" THEN "check" ELSE "insert"
          /\ k.op = "create"
      BY DEF Idle
    <3>2. now(r, k) /\ ~born /\ \A q \in Request : req[q].op # "create"
      BY <2>1 DEF Create
    <3>. HIDE DEF k
    <3>. QED BY <3>1, <3>2
  <2>2. CASE Update(r)
    <3>1. row \in Row /\ born
      BY <2>2 DEF Update, IInv, TypeOK, OneCreation
    <3>2. PICK k \in Requests :
            /\ now(r, k)
            /\ k.at = "select" /\ k.op = "update" /\ k.entity \in Row
            /\ \A c \in Column \ k.asked : k.entity[c] = row[c]
      BY <2>2, <3>1, AssignType DEF Update, IInv
    <3>. QED BY <3>1, <3>2
  <2>3. CASE FindThenRemove(r) \/ Remove(r)
    <3>1. PICK where \in {"delete", "delete items"} :
            now(r, [Idle EXCEPT !.at = where, !.op = "delete"])
      BY <2>3 DEF FindThenRemove, Remove
    <3>. DEFINE k == [Idle EXCEPT !.at = where, !.op = "delete"]
    <3>2. k.at = where /\ k.op = "delete"
      BY DEF Idle
    <3>. HIDE DEF k
    <3>. QED BY <3>1, <3>2 DEF k
  <2>. QED BY <2>1, <2>2, <2>3
<1>2. req'[r] = k /\ \A q \in Request \ {r} : req'[q] = req[q]
  BY <1>1, NowEffect DEF IInv
<1>3. /\ UNCHANGED <<service, row, born, items, theOrder, journal, failed>>
      /\ req[r].at = "idle"
  BY DEF Create, Update, FindThenRemove, Remove, at
<1>4. Purpose'
  <2>1. Purposeful(k)
    BY <1>1 DEF Purposeful
  <2>2. \A q \in Request : Purposeful(req'[q])
    BY <1>2, <2>1 DEF IInv, Purpose
  <2>. QED BY <2>2, Zenon DEF Purpose, Purposeful, Row
<1>5. OneCreation'
  <2>. DEFINE creates(j) == j.at \in {"check", "insert"}
              edits(j) == j.at \in {"select", "write"}
  <2>1. /\ \A q \in Request : creates(req[q]) => req[q].op = "create"
        /\ row # NoRow => born
        /\ born => \A q \in Request : ~creates(req[q])
        /\ \A q \in Request : edits(req[q]) => born
        /\ \A p, q \in Request : creates(req[p]) /\ creates(req[q]) => p = q
    BY DEF IInv, Purpose, Purposeful, OneCreation
  <2>2. /\ creates(k) => ~born /\ \A q \in Request : ~creates(req[q])
        /\ edits(k) => born
    BY <1>1, <2>1
  <2>. HIDE DEF creates, edits
  <2>3. \A p, q \in Request : creates(req'[p]) /\ creates(req'[q]) => p = q
    BY <1>2, <2>1, <2>2
  <2>4. /\ born => \A q \in Request : ~creates(req'[q])
        /\ \A q \in Request : edits(req'[q]) => born
    BY <1>2, <2>1, <2>2
  <2>. QED BY <1>3, <2>1, <2>3, <2>4 DEF OneCreation, creates, edits
<1>6. ItemsHaveTheirOrder'
  <2>1. service = "payment" => k.at # "insert"
    BY <1>1
  <2>2. (\E q \in Request : req'[q].at = "insert") /\ service = "payment" =>
            \E q \in Request : req[q].at = "insert"
    BY <1>2, <2>1
  <2>. QED BY <1>3, <2>2 DEF IInv, ItemsHaveTheirOrder
<1>7. Remembered'
  BY <1>1, <1>2, <1>3 DEF IInv, Remembered, Agrees
<1>8. Accounted'
  BY <1>1, <1>2, <1>3 DEF IInv, Accounted, Told
<1>9. Complete'
  BY <1>1, <1>2, <1>3 DEF IInv, Complete, Told
<1>. QED BY <1>4, <1>5, <1>6, <1>7, <1>8, <1>9 DEF IInv


\* A request goes on: only its place changes, and what save() has selected.
GoesTo(r, where) ==
    /\ req'[r].at = where /\ req'[r].op = req[r].op
    /\ req'[r].asked = req[r].asked /\ req'[r].others = req[r].others
    /\ req'[r].entity = req[r].entity
    /\ \A q \in Request \ {r} : req'[q] = req[q]

LEMMA GoesToIf ==
    ASSUME TypeOK, NEW r \in Request, NEW where,
           now(r, [req[r] EXCEPT !.at = where]) \/ now(r, [req[r] EXCEPT !.at = where, !.seen = row])
    PROVE  GoesTo(r, where)
<1>1. req[r] \in Requests
  BY DEF TypeOK
<1>. DEFINE k == [req[r] EXCEPT !.at = where]
            m == [req[r] EXCEPT !.at = where, !.seen = row]
<1>2. /\ k.at = where /\ k.op = req[r].op /\ k.entity = req[r].entity
      /\ k.asked = req[r].asked /\ k.others = req[r].others
      /\ m.at = where /\ m.op = req[r].op /\ m.entity = req[r].entity
      /\ m.asked = req[r].asked /\ m.others = req[r].others
  BY <1>1 DEF Requests
<1>3. now(r, k) \/ now(r, m)
  OBVIOUS
<1>. HIDE DEF k, m
<1>. QED BY <1>2, <1>3, NowEffect DEF GoesTo

\* order-service has answered for the order.
LEMMA AnswerInv ==
    ASSUME IInv, TypeOK', NEW r \in Request, OrderAnswers(r)
    PROVE  IInv'
<1>1. /\ GoesTo(r, "insert") /\ req[r].at = "check" /\ theOrder = "there"
      /\ UNCHANGED <<service, row, born, items, theOrder, journal, failed>>
  BY GoesToIf DEF IInv, OrderAnswers, at
<1>2. Purpose'
  <2>1. \A q \in Request : Purposeful(req'[q])
    BY <1>1 DEF IInv, Purpose, Purposeful, GoesTo
  <2>. QED BY <2>1, Zenon DEF Purpose, Purposeful, Row
<1>3. OneCreation' /\ ItemsHaveTheirOrder'
  BY <1>1 DEF IInv, OneCreation, ItemsHaveTheirOrder, GoesTo
<1>4. Remembered'
  BY <1>1 DEF IInv, Remembered, Agrees, GoesTo
<1>5. Accounted' /\ Complete'
  BY <1>1 DEF IInv, Accounted, Complete, Told, GoesTo
<1>. QED BY <1>2, <1>3, <1>4, <1>5 DEF IInv

\* The items of the order are saved, unless it is gone.
LEMMA SaveItemsInv ==
    ASSUME IInv, TypeOK', NEW r \in Request, SaveItems(r)
    PROVE  IInv'
<1>. DEFINE k == IF row # NoRow THEN made(r) ELSE Idle
<1>1. /\ now(r, k) /\ req[r].at = "save items" /\ req[r].op = "create"
      /\ items' = (row # NoRow) /\ failed' = (failed \/ row = NoRow)
      /\ UNCHANGED <<service, row, born, theOrder, journal>>
  BY DEF SaveItems, at, IInv, Purpose, Purposeful
<1>2. /\ k.at \in {"log", "idle"}
      /\ k.at = "log" => k.op = "create"
      /\ service \in Journalled /\ row # NoRow => k.at = "log" /\ k.op = "create"
  <2>1. Idle.at = "idle"
    BY DEF Idle
  <2>2. \/ made(r) = Idle /\ service \notin Journalled
        \/ made(r).at = "log" /\ made(r).op = "create"
    BY <1>1, MadeEffect DEF IInv
  <2>. QED BY <2>1, <2>2
<1>. HIDE DEF k
<1>3. req'[r] = k /\ \A q \in Request \ {r} : req'[q] = req[q]
  BY <1>1, NowEffect DEF IInv
<1>4. Purpose'
  <2>1. \A q \in Request : Purposeful(req'[q])
    BY <1>2, <1>3 DEF IInv, Purpose, Purposeful
  <2>. QED BY <2>1, Zenon DEF Purpose, Purposeful, Row
<1>5. OneCreation' /\ ItemsHaveTheirOrder'
  BY <1>1, <1>2, <1>3 DEF IInv, OneCreation, ItemsHaveTheirOrder
<1>6. Remembered'
  BY <1>1, <1>2, <1>3 DEF IInv, Remembered, Agrees
<1>7. Accounted' /\ Complete'
  BY <1>1, <1>2, <1>3 DEF IInv, Accounted, Complete, Told, Journalled
<1>. QED BY <1>4, <1>5, <1>6, <1>7 DEF IInv

\* save() has selected the row.
LEMMA SelectInv ==
    ASSUME IInv, TypeOK', NEW r \in Request, Select(r)
    PROVE  IInv'
<1>1. req[r].at = "select" /\ UNCHANGED <<service, row, born, items, theOrder, journal, failed>>
  BY DEF Select, at
<1>2. CASE now(r, Idle)
  BY <1>1, <1>2, Ends
<1>3. CASE now(r, [req[r] EXCEPT !.at = "write", !.seen = row])
  <2>1. GoesTo(r, "write")
    BY <1>3, GoesToIf DEF IInv
  <2>2. Purpose'
    <3>1. \A q \in Request : Purposeful(req'[q])
      BY <1>1, <2>1 DEF IInv, Purpose, Purposeful, GoesTo
    <3>. QED BY <3>1, Zenon DEF Purpose, Purposeful, Row
  <2>3. OneCreation' /\ ItemsHaveTheirOrder' /\ Remembered'
    BY <1>1, <2>1 DEF IInv, OneCreation, ItemsHaveTheirOrder, Remembered, Agrees, GoesTo
  <2>4. Accounted' /\ Complete'
    BY <1>1, <2>1 DEF IInv, Accounted, Complete, Told, GoesTo
  <2>. QED BY <2>2, <2>3, <2>4 DEF IInv
<1>. QED BY <1>2, <1>3 DEF Select

\* The items of an order go first.
LEMMA DeleteItemsInv ==
    ASSUME IInv, TypeOK', NEW r \in Request, DeleteItems(r)
    PROVE  IInv'
<1>1. /\ GoesTo(r, "delete") /\ req[r].at = "delete items" /\ items' = FALSE
      /\ UNCHANGED <<service, row, born, theOrder, journal, failed>>
  BY GoesToIf DEF IInv, DeleteItems, at
<1>2. Purpose'
  <2>1. \A q \in Request : Purposeful(req'[q])
    BY <1>1 DEF IInv, Purpose, Purposeful, GoesTo
  <2>. QED BY <2>1, Zenon DEF Purpose, Purposeful, Row
<1>3. OneCreation' /\ ItemsHaveTheirOrder' /\ Remembered'
  BY <1>1 DEF IInv, OneCreation, ItemsHaveTheirOrder, Remembered, Agrees, GoesTo
<1>4. Accounted' /\ Complete'
  BY <1>1 DEF IInv, Accounted, Complete, Told, GoesTo
<1>. QED BY <1>2, <1>3, <1>4 DEF IInv

\* What a request has done is written in the journal before it is forgotten.
LEMMA LogInv ==
    ASSUME IInv, TypeOK', NEW r \in Request, Log(r)
    PROVE  IInv'
<1>1. /\ now(r, Idle) /\ req[r].at = "log" /\ journal' = journal \union {req[r].op}
      /\ UNCHANGED <<service, row, born, items, theOrder, failed>>
  BY DEF Log, at
<1>2. req'[r] = Idle /\ \A q \in Request \ {r} : req'[q] = req[q]
  BY <1>1, NowEffect DEF IInv
<1>3. Purpose'
  <2>1. Purposeful(Idle)
    BY DEF Purposeful, Idle
  <2>2. \A q \in Request : Purposeful(req'[q])
    BY <1>2, <2>1 DEF IInv, Purpose
  <2>. QED BY <2>2, Zenon DEF Purpose, Purposeful, Row
<1>4. OneCreation' /\ ItemsHaveTheirOrder'
  BY <1>1, <1>2 DEF IInv, OneCreation, ItemsHaveTheirOrder, Idle
<1>5. Remembered'
  BY <1>1, <1>2 DEF IInv, Remembered, Agrees, Idle
<1>6. \A op : Told(op) => Told(op)'
  BY <1>1, <1>2 DEF Told
<1>7. Accounted' /\ Complete'
  BY <1>1, <1>2, <1>6 DEF IInv, Accounted, Complete
<1>. QED BY <1>3, <1>4, <1>5, <1>7 DEF IInv

\* A statement of r is over: whoever else is under way has been told, and r is at
\* next, or its answer is lost.
Stored(r, next) ==
    /\ req'[r] \in {next, Idle}
    /\ failed' = (failed \/ req'[r] # next)
    /\ \A q \in Request \ {r} :
         /\ req'[q].at = req[q].at /\ req'[q].op = req[q].op
         /\ req'[q].asked = req[q].asked /\ req'[q].entity = req[q].entity
         /\ req[q].at # "idle" => req'[q].others = req[q].others \union changed(row, row')

\* Nobody under way is left with a column it does not know to have changed.
LEMMA StoredRemembered ==
    ASSUME IInv, TypeOK', NEW r \in Request, NEW next, Stored(r, next),
           next.at \notin {"select", "write"}
    PROVE  Remembered'
<1>1. req'[r].at \notin {"select", "write"}
  BY DEF Stored, Idle
<1>2. ASSUME NEW q \in Request \ {r}, req'[q].at \in {"select", "write"}, row' # NoRow,
             NEW c \in Column \ (req'[q].asked \union req'[q].others)
      PROVE  req'[q].entity[c] = row'[c]
  <2>1. /\ req[q].at \in {"select", "write"} /\ req'[q].entity = req[q].entity
        /\ c \in Column \ (req[q].asked \union req[q].others)
        /\ c \notin changed(row, row')
    BY <1>2 DEF Stored
  <2>2. row # NoRow /\ row'[c] = row[c]
    BY <1>2, <2>1 DEF changed
  <2>. QED BY <2>1, <2>2 DEF IInv, Remembered, Agrees
<1>3. \A q \in Request : Agrees(req[q])'
  BY <1>1, <1>2 DEF Agrees
<1>. QED BY <1>3 DEF Remembered

\* Requests remain purposeful.
LEMMA StoredPurpose ==
    ASSUME IInv, NEW r \in Request, NEW next, Stored(r, next), Purposeful(next)
    PROVE  Purpose'
<1>1. Purposeful(Idle)
  BY DEF Purposeful, Idle
<1>2. Purposeful(req'[r])
  BY <1>1 DEF Stored
<1>3. ASSUME NEW q \in Request \ {r} PROVE Purposeful(req'[q])
  <2>1. Purposeful(req[q])
    BY DEF IInv, Purpose
  <2>. QED BY <2>1 DEF Stored, Purposeful
<1>4. \A q \in Request : Purposeful(req'[q])
  BY <1>2, <1>3
<1>. QED BY <1>4, Zenon DEF Purpose, Purposeful, Row

\* The row is created, and the creation with it past.
LEMMA InsertInv ==
    ASSUME IInv, TypeOK', NEW r \in Request, Insert(r)
    PROVE  IInv'
<1>. DEFINE k == IF service = "order" THEN [req[r] EXCEPT !.at = "save items"] ELSE made(r)
<1>1. /\ req[r].at = "insert" /\ req[r].op = "create" /\ store(r, First, k)
      /\ born' = TRUE /\ UNCHANGED <<service, items, theOrder, journal>>
  BY DEF Insert, at, IInv, Purpose, Purposeful
<1>2. /\ ~born /\ row = NoRow
      /\ \A q \in Request : q # r => req[q].at \notin {"check", "insert"}
      /\ \A q \in Request : req[q].at \notin {"select", "write"}
  BY <1>1 DEF IInv, OneCreation
<1>3. /\ k.at \in {"save items", "log", "idle"}
      /\ k.at # "idle" => k.op = "create"
      /\ service \in Journalled => k.at # "idle"
      /\ service = "order" => k.at = "save items"
  <2>1. req[r] \in Requests
    BY DEF IInv, TypeOK
  <2>2. CASE service = "order"
    BY <1>1, <2>1, <2>2 DEF Requests
  <2>3. CASE service # "order"
    <3>1. Idle.at = "idle"
      BY DEF Idle
    <3>. QED BY <1>1, <2>3, <3>1, MadeEffect DEF IInv
  <2>. QED BY <2>2, <2>3
<1>. HIDE DEF k
<1>4. Stored(r, k) /\ row' = First
  BY <1>1, StoreEffect DEF IInv, Stored
<1>5. Idle.at = "idle" /\ Idle.op = "none"
  BY DEF Idle
<1>6. Purpose'
  BY <1>3, <1>4, StoredPurpose DEF Purposeful
<1>7. OneCreation' /\ ItemsHaveTheirOrder'
  BY <1>1, <1>2, <1>3, <1>4, <1>5 DEF IInv, OneCreation, ItemsHaveTheirOrder, Stored
<1>8. Remembered'
  BY <1>2, <1>3, <1>4, StoredRemembered
<1>9. Accounted' /\ Complete'
  <2>1. First # NoRow
    BY FirstType, RecordsAssumption DEF Row
  <2>. QED BY <1>1, <1>3, <1>4, <1>5, <2>1 DEF Accounted, Complete, Told, Stored, First, Journalled
<1>. QED BY <1>6, <1>7, <1>8, <1>9 DEF IInv

\* What has been told stays told when another request's statement is over.
LEMMA StoredTold ==
    ASSUME NEW r \in Request, NEW next, Stored(r, next), UNCHANGED journal,
           req[r].at # "log", NEW op, Told(op)
    PROVE  Told(op)'
BY DEF Told, Stored

\* Where a request is whose change is made.
LEMMA MadeAt ==
    ASSUME IInv, NEW r \in Request
    PROVE  /\ made(r).at \in {"log", "idle"}
           /\ made(r).at = "log" => made(r).op = req[r].op
           /\ service \in Journalled => made(r).at = "log"
<1>1. Idle.at = "idle"
  BY DEF Idle
<1>. QED BY <1>1, MadeEffect DEF IInv

\* An update never makes the row disappear, and inserts it only when its removal
\* has been told.
LEMMA WriteInv ==
    ASSUME IInv, TypeOK', NEW r \in Request, Write(r)
    PROVE  IInv'
<1>1. /\ req[r].at = "write" /\ req[r].op = "update" /\ req[r].entity \in Row /\ born
      /\ UNCHANGED <<service, born, items, theOrder, journal>>
  BY DEF Write, at, IInv, Purpose, Purposeful, OneCreation
<1>2. CASE now(r, Idle) /\ UNCHANGED <<row, failed>>
  BY <1>1, <1>2, Ends
<1>3. CASE store(r, written(req[r].entity, req[r].seen, row), made(r))
  <2>1. Stored(r, made(r)) /\ row' = written(req[r].entity, req[r].seen, row)
    BY <1>3, StoreEffect DEF IInv, Stored
  <2>2. row' = NoRow => row = NoRow
    <3>1. row # NoRow => written(req[r].entity, req[r].seen, row) \in Row
      BY <1>1, WrittenType DEF IInv, TypeOK
    <3>2. NoRow \notin Row
      BY RecordsAssumption DEF Row
    <3>. QED BY <2>1, <3>1, <3>2
  <2>3. Idle.at = "idle" /\ Idle.op = "none"
    BY DEF Idle
  <2>4. Purpose'
    BY <1>1, <2>1, MadeAt, StoredPurpose DEF Purposeful
  <2>5. OneCreation' /\ ItemsHaveTheirOrder'
    BY <1>1, <2>1, <2>2, <2>3, MadeAt DEF IInv, OneCreation, ItemsHaveTheirOrder, Stored
  <2>6. Remembered'
    BY <2>1, MadeAt, StoredRemembered
  <2>7. \A op : Told(op) => Told(op)'
    BY <1>1, <2>1, StoredTold
  <2>8. (\E q \in Request : req[q].at = "save items") => \E q \in Request : req'[q].at = "save items"
    BY <1>1, <2>1 DEF Stored
  <2>9. service \in Journalled /\ ~failed' => Told("update")' /\ ~failed
    BY <1>1, <2>1, MadeAt DEF Stored, Told
  <2>10. Accounted'
    BY <1>1, <2>2, <2>7, <2>8, <2>9 DEF IInv, Accounted
  <2>11. Complete'
    <3>1. CASE row = NoRow
      BY <1>1, <2>7, <2>9, <3>1 DEF IInv, Accounted, Complete, Journalled
    <3>2. CASE row # NoRow
      BY <1>1, <2>1, <2>7, <2>9, <3>2 DEF IInv, Complete, Journalled, Stored
    <3>. QED BY <3>1, <3>2
  <2>. QED BY <2>4, <2>5, <2>6, <2>10, <2>11 DEF IInv
<1>. QED BY <1>2, <1>3 DEF Write

\* A removal is told as soon as it is made.
LEMMA DeleteInv ==
    ASSUME IInv, TypeOK', NEW r \in Request, Delete(r)
    PROVE  IInv'
<1>1. /\ req[r].at = "delete" /\ req[r].op = "delete" /\ items' = FALSE
      /\ UNCHANGED <<service, born, theOrder, journal>>
  BY DEF Delete, at, IInv, Purpose, Purposeful
<1>2. Stored(r, made(r)) /\ row' = NoRow
  BY StoreEffect DEF Delete, IInv, Stored
<1>3. Idle.at = "idle" /\ Idle.op = "none"
  BY DEF Idle
<1>4. Purpose'
  BY <1>1, <1>2, MadeAt, StoredPurpose DEF Purposeful
<1>5. OneCreation' /\ ItemsHaveTheirOrder'
  BY <1>1, <1>2, <1>3, MadeAt DEF IInv, OneCreation, ItemsHaveTheirOrder, Stored
<1>6. Remembered'
  BY <1>2, MadeAt, StoredRemembered
<1>7. \A op : Told(op) => Told(op)'
  BY <1>1, <1>2, StoredTold
<1>8. (\E q \in Request : req[q].at = "save items") => \E q \in Request : req'[q].at = "save items"
  BY <1>1, <1>2 DEF Stored
<1>9. service \in Journalled /\ ~failed' => Told("delete")' /\ ~failed
  BY <1>1, <1>2, MadeAt DEF Stored, Told
<1>10. Accounted' /\ Complete'
  BY <1>1, <1>2, <1>7, <1>8, <1>9 DEF IInv, Accounted, Complete
<1>. QED BY <1>4, <1>5, <1>6, <1>10 DEF IInv

\* Failures, a killed process and the other service.
LEMMA OutsideInv ==
    ASSUME IInv, TypeOK', Kill \/ OrderLives \/ UNCHANGED vars
    PROVE  IInv'
<1>1. CASE Kill
  <2>1. \A q \in Request : req'[q] = Idle
    BY <1>1 DEF Kill
  <2>2. /\ failed' /\ Idle.at = "idle"
        /\ UNCHANGED <<service, row, born, items, theOrder, journal>>
    BY <1>1 DEF Kill, Idle
  <2>3. Purpose'
    <3>1. \A q \in Request : Purposeful(req'[q])
      BY <2>1, <2>2 DEF Purposeful
    <3>. QED BY <3>1, Zenon DEF Purpose, Purposeful, Row
  <2>4. OneCreation' /\ ItemsHaveTheirOrder' /\ Remembered' /\ Accounted' /\ Complete'
    BY <2>1, <2>2 DEF IInv, OneCreation, ItemsHaveTheirOrder, Remembered, Agrees, Accounted, Complete
  <2>. QED BY <2>3, <2>4 DEF IInv
<1>2. CASE OrderLives \/ UNCHANGED vars
  <2>1. /\ UNCHANGED <<service, row, born, items, req, journal, failed>>
        /\ theOrder # "none" => theOrder' # "none"
    BY <1>2 DEF OrderLives, vars
  <2>2. Purpose'
    BY <2>1, Zenon DEF IInv, Purpose, Purposeful, Row
  <2>3. OneCreation' /\ ItemsHaveTheirOrder' /\ Remembered'
    BY <2>1 DEF IInv, OneCreation, ItemsHaveTheirOrder, Remembered, Agrees
  <2>4. Accounted' /\ Complete'
    BY <2>1 DEF IInv, Accounted, Complete, Told, First
  <2>. QED BY <2>2, <2>3, <2>4 DEF IInv
<1>. QED BY <1>1, <1>2

\* Every step preserves the invariant.
LEMMA StepInv == IInv /\ [Next]_vars => IInv'
<1>. SUFFICES ASSUME IInv, [Next]_vars PROVE IInv'
  OBVIOUS
<1>1. TypeOK'
  BY TypeStep DEF IInv
<1>2. ASSUME NEW r \in Request, Quietly(r) PROVE IInv'
  <2>1. CASE OrderUnknown(r) \/ LogFails(r) \/ Fail(r)
    BY <1>1, <2>1, Ends DEF OrderUnknown, LogFails, Fail, at
  <2>. QED BY <1>1, <1>2, <2>1, BeginInv, AnswerInv, SaveItemsInv, SelectInv,
              DeleteItemsInv, LogInv DEF Quietly
<1>. QED BY <1>1, <1>2, Steps, InsertInv, WriteInv, DeleteInv, OutsideInv

-----------------------------------------------------------------------------
(* The theorems.                                                           *)

\* The invariant holds in every reachable state.
THEOREM Invariance == Spec => []IInv
BY InitInv, StepInv, PTL DEF Spec

\* Rows, requests and the journal have the types declared.
THEOREM TypeCorrect == Spec => []TypeOK
<1>1. IInv => TypeOK
  BY DEF IInv
<1>. QED BY <1>1, Invariance, PTL

\* The changes of products and orders are in the journal unless something fails.
THEOREM ChangesAreAudited == Spec => []NothingUnaudited
<1>1. IInv => NothingUnaudited
  BY DEF IInv, Accounted, Told, NothingUnaudited, Quiet, at
<1>. QED BY <1>1, Invariance, PTL

\* No item outlives its order, whatever fails and in whatever order an order's
\* creation, updates and removals meet.
THEOREM ItemsFollowOrders == Spec => []ItemsHaveTheirOrder
<1>1. IInv => ItemsHaveTheirOrder
  BY DEF IInv
<1>. QED BY <1>1, Invariance, PTL

\* An order keeps its items unless something fails.
THEOREM OrdersHaveItems == Spec => []OrderHasItems
<1>1. IInv => OrderHasItems
  BY DEF IInv, Complete, Told, OrderHasItems, Quiet, at
<1>. QED BY <1>1, Invariance, PTL

\* Once no update is left that had read it, a removed row never comes back.
THEOREM RemovalIsFinal == Spec => RemovedStaysRemoved
<1>1. ASSUME IInv, [Next]_vars, Gone PROVE Gone'
  <2>1. /\ born /\ row = NoRow
        /\ \A r \in Request : req[r].at \notin {"select", "write", "check", "insert"}
    BY <1>1 DEF Gone, at, IInv, OneCreation
  <2>2. Idle.at = "idle"
    BY DEF Idle
  <2>3. ASSUME NEW r \in Request, Quietly(r) PROVE Gone'
    <3>1. \/ now(r, Idle)
          \/ \E where \in {"delete", "delete items"} :
               now(r, [Idle EXCEPT !.at = where, !.op = "delete"])
          \/ now(r, [req[r] EXCEPT !.at = "delete"])
      BY <2>1, <2>3 DEF Quietly, Create, Update, FindThenRemove, Remove, OrderAnswers,
         OrderUnknown, SaveItems, Select, DeleteItems, Log, LogFails, Fail, at
    <3>2. req'[r].at \in {"idle", "delete", "delete items"}
      <4>1. \A where : [Idle EXCEPT !.at = where, !.op = "delete"].at = where
        BY DEF Idle
      <4>2. [req[r] EXCEPT !.at = "delete"].at = "delete"
        <5>1. req[r] \in Requests
          BY <1>1 DEF IInv, TypeOK
        <5>. QED BY <5>1 DEF Requests
      <4>. QED BY <1>1, <2>2, <3>1, <4>1, <4>2, NowEffect DEF IInv
    <3>3. \A q \in Request \ {r} : req'[q] = req[q]
      BY <1>1, <3>1, NowEffect DEF IInv
    <3>4. UNCHANGED <<row, born>>
      BY <2>3 DEF Quietly, Create, Update, FindThenRemove, Remove, OrderAnswers,
         OrderUnknown, SaveItems, Select, DeleteItems, Log, LogFails, Fail
    <3>. QED BY <2>1, <3>2, <3>3, <3>4 DEF Gone, at
  <2>4. ASSUME NEW r \in Request, Insert(r) \/ Write(r) PROVE FALSE
    BY <2>1, <2>4 DEF Insert, Write, at
  <2>5. ASSUME NEW r \in Request, Delete(r) PROVE Gone'
    <3>1. Stored(r, made(r)) /\ row' = NoRow /\ born' = born
      BY <1>1, <2>5, StoreEffect DEF Delete, IInv, Stored
    <3>. QED BY <1>1, <2>1, <2>2, <3>1, MadeAt DEF Gone, at, Stored
  <2>6. CASE Kill \/ OrderLives \/ UNCHANGED vars
    BY <2>1, <2>2, <2>6 DEF Kill, OrderLives, vars, Gone, at
  <2>. QED BY <1>1, <2>3, <2>4, <2>5, <2>6, Steps
<1>. QED BY <1>1, Invariance, PTL DEF Spec, RemovedStaysRemoved

\* A column is overwritten only by a client who asked for it, or while another
\* request was changing it.
THEOREM OverwritesAreConcurrent == Spec => OverwritesOnlyConcurrent
<1>. DEFINE Concurrent == \A c \in Column :
              row # NoRow /\ row' # NoRow /\ row'[c] # row[c] =>
                 \E r \in Request : at(r, "write") /\ req'[r] # req[r]
                                    /\ c \in req[r].asked \union req[r].others
<1>1. ASSUME IInv, [Next]_vars PROVE Concurrent
  <2>1. CASE row' \in {row, NoRow}
    BY <2>1
  <2>2. ASSUME NEW r \in Request, Insert(r) PROVE Concurrent
    BY <1>1, <2>2 DEF Insert, at, IInv, OneCreation
  <2>3. ASSUME NEW r \in Request, Write(r), row # NoRow, row' # NoRow PROVE Concurrent
    <3>1. CASE UNCHANGED row
      BY <3>1
    <3>2. CASE store(r, written(req[r].entity, req[r].seen, row), made(r))
      <4>1. Stored(r, made(r)) /\ row' = written(req[r].entity, req[r].seen, row)
        BY <1>1, <3>2, StoreEffect DEF IInv, Stored
      <4>2. req'[r] # req[r] /\ at(r, "write")
        BY <1>1, <2>3, <4>1, MadeAt DEF Write, at, Stored, Idle
      <4>3. \A c \in Column : row'[c] # row[c] => row'[c] = req[r].entity[c]
        <5>1. req[r].entity \in Row /\ row \in Row
          BY <1>1, <2>3 DEF Write, at, IInv, Purpose, Purposeful, TypeOK
        <5>2. CASE req[r].seen = NoRow
          BY <4>1, <5>2 DEF written
        <5>3. CASE req[r].seen # NoRow
          BY <2>3, <4>1, <5>1, <5>3 DEF written, Row
        <5>. QED BY <5>2, <5>3
      <4>. QED BY <1>1, <2>3, <4>2, <4>3 DEF at, IInv, Remembered, Agrees
    <3>. QED BY <2>3, <3>1, <3>2 DEF Write
  <2>4. ASSUME NEW r \in Request, Delete(r) PROVE row' = NoRow
    BY <2>4 DEF Delete, store
  <2>5. ASSUME NEW r \in Request, Quietly(r) PROVE UNCHANGED row
    BY <2>5 DEF Quietly, Create, Update, FindThenRemove, Remove, OrderAnswers,
       OrderUnknown, SaveItems, Select, DeleteItems, Log, LogFails, Fail
  <2>6. CASE Kill \/ OrderLives \/ UNCHANGED vars
    BY <2>1, <2>6 DEF Kill, OrderLives, vars
  <2>. QED BY <1>1, <2>1, <2>2, <2>3, <2>4, <2>5, <2>6, Steps
<1>. QED BY <1>1, Invariance, PTL DEF Spec, OverwritesOnlyConcurrent
=============================================================================
