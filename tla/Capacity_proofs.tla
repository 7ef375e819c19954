-------------------------- MODULE Capacity_proofs --------------------------
(***************************************************************************)
(* The safety of Capacity for any number of orders, any channels,          *)
(* quantities and totals.                                                  *)
(***************************************************************************)
EXTENDS Capacity, FiniteSetTheorems, TLAPS

Steps == {"idle", "check", "lock", "recount", "insert", "done"}
EditSteps == {"add", "list", "form", "write", "gone"}
Editor == [step: EditSteps, total: Nat \cup {Nobody}]
WithTickets == {"PAID", "REFUND_REQUESTED", "REFUND_APPROVED"}

RowType ==
  /\ totalQuantity \in Nat \cup {Nobody}
  /\ rowLock \in Orders \cup {Nobody}
  /\ shelf \in Nat \cup {Nobody}
OrderType ==
  /\ status \in [Orders -> OrderStatuses]
  /\ rejected \subseteq Orders
RequestType ==
  /\ channel \in Mixes
  /\ quantity \in [Orders -> Quantities]
CallType == pc \in [Orders -> Steps] /\ seen \in [Orders -> Nat]
EditType == edit \in [Editors -> Editor]

TicketInv ==
  /\ tickets \in [Orders -> Nat]
  /\ \A o \in Orders :
       tickets[o] = IF status[o] \in WithTickets THEN quantity[o] ELSE 0

\* The editors stand on the same row: before, with and after it.
EditInv ==
  /\ \A e \in Editors : There <=> Offered(e)
  /\ \A e \in Editors : edit[e].step \in {"add", "form", "write"}
                          => edit[e].total \in Nat
  /\ \A d, e \in Editors : edit[d].step = "add" => edit[e].step = "add"

\* A request has begun when the type was there, and has its row at its end;
\* counter and free orders are paid from the start, and keep the type.
PcInv ==
  \A o \in Orders :
    /\ pc[o] # "idle" => \A e \in Editors : edit[e].step # "add"
    /\ status[o] # "NONE" => pc[o] = "done"
    /\ pc[o] \in {"lock", "recount"} => channel[o] = "WEB"
    /\ channel[o] \in {"POS", "COMP"} =>
         /\ status[o] \notin {"PENDING", "CANCELLED"}
         /\ ~There => status[o] = "NONE"

\* FOR UPDATE is held from the lock to the end of the transaction.
LockInv ==
  /\ \A o \in Orders : rowLock = o =>
       There /\ channel[o] = "WEB" /\ pc[o] \in {"recount", "insert"}
  /\ \A o \in Orders :
       channel[o] = "WEB" /\ pc[o] \in {"recount", "insert"} /\ There
         => rowLock = o

\* What a web order inserts fits into what it has read: nobody has inserted
\* since the recount, and whoever gave units back does not take them again.
Room(o) == SoldOf(Orders \ rejected) + quantity[o] <= seen[o]
FitInv ==
  \A o \in Orders :
    channel[o] = "WEB" /\ pc[o] = "insert" /\ There => Room(o)

IInv ==
  /\ RowType /\ OrderType /\ RequestType /\ CallType /\ EditType
  /\ TicketInv /\ EditInv /\ PcInv /\ LockInv /\ FitInv

-----------------------------------------------------------------------------
(***************************************************************************)
(* Sums of quantities, as numbers of units.                                *)
(***************************************************************************)
LEMMA UnitsFinite ==
  ASSUME NEW O \in SUBSET Orders, NEW n \in [Orders -> Nat]
  PROVE  IsFiniteSet(Units(O, n)) /\ Cardinality(Units(O, n)) \in Nat
<1> DEFINE T == {{o} \X (1..n[o]) : o \in O}
           f == [o \in O |-> {o} \X (1..n[o])]
<1>1. IsFiniteSet(O)
  BY CapacityAssumption, FS_Subset
<1>2. f \in Surjection(O, T)
  BY DEF Surjection
<1>3. IsFiniteSet(T)
  <2> HIDE DEF f, T
  <2> QED
    BY <1>1, <1>2, FS_Surjection
<1>4. \A o \in O : IsFiniteSet({o} \X (1..n[o]))
  <2> SUFFICES ASSUME NEW o \in O PROVE IsFiniteSet({o} \X (1..n[o]))
    OBVIOUS
  <2>1. IsFiniteSet({o})
    BY FS_Singleton
  <2>2. IsFiniteSet(1..n[o])
    BY FS_Interval
  <2> QED
    BY <2>1, <2>2, FS_Product
<1>5. \A S \in T : IsFiniteSet(S)
  BY <1>4
<1> HIDE DEF T
<1>6. IsFiniteSet(UNION T)
  BY <1>3, <1>5, FS_UNION
<1>7. IsFiniteSet(Units(O, n))
  BY <1>6 DEF T, Units
<1> QED
  BY <1>7, FS_CardinalityType

LEMMA UnitsGrow ==
  ASSUME NEW P \in SUBSET Orders, NEW O \in SUBSET P, NEW n \in [Orders -> Nat]
  PROVE  Cardinality(Units(O, n)) <= Cardinality(Units(P, n))
<1>1. Units(O, n) \subseteq Units(P, n)
  BY DEF Units
<1> QED
  BY <1>1, UnitsFinite, FS_Subset

LEMMA UnitsAdd ==
  ASSUME NEW O \in SUBSET Orders, NEW o \in Orders, NEW n \in [Orders -> Nat]
  PROVE  Cardinality(Units(O \cup {o}, n)) <= Cardinality(Units(O, n)) + n[o]
<1> DEFINE S == Units(O, n)
           R == {o} \X (1..n[o])
<1>1. Units(O \cup {o}, n) = S \cup R
  BY DEF Units
<1>2. IsFiniteSet(R) /\ Cardinality(R) = n[o]
  <2>1. IsFiniteSet({o}) /\ Cardinality({o}) = 1
    BY FS_Singleton
  <2>2. IsFiniteSet(1..n[o]) /\ Cardinality(1..n[o]) = n[o]
    BY FS_Interval
  <2>3. IsFiniteSet(R) /\ Cardinality(R) = 1 * n[o]
    BY <2>1, <2>2, FS_Product
  <2> QED
    BY <2>3
<1>3. IsFiniteSet(S) /\ Cardinality(S) \in Nat
  BY UnitsFinite
<1> HIDE DEF S, R
<1>4. Cardinality(S \cup R) =
        Cardinality(S) + Cardinality(R) - Cardinality(S \cap R)
  BY <1>2, <1>3, FS_Union
<1>5. Cardinality(S \cap R) \in Nat
  BY <1>3, FS_Intersection, FS_CardinalityType
<1>6. n[o] \in Nat
  OBVIOUS
<1>7. Cardinality(S \cup R) <= Cardinality(S) + n[o]
  BY <1>2, <1>3, <1>4, <1>5, <1>6
<1> QED
  BY <1>1, <1>7 DEF S

LEMMA QuantityIsNat == RequestType => quantity \in [Orders -> Nat]
BY CapacityAssumption DEF RequestType

LEMMA SoldIsNat ==
  ASSUME RequestType, NEW O \in SUBSET Orders
  PROVE  SoldOf(O) \in Nat /\ SoldOf(O) <= Sold
<1> DEFINE L == {o \in O : status[o] \in Reserving}
           M == {o \in Orders : status[o] \in Reserving}
<1>1. L \in SUBSET M /\ M \in SUBSET Orders /\ L \in SUBSET Orders
  OBVIOUS
<1> HIDE DEF L, M
<1>2. /\ Cardinality(Units(L, quantity)) \in Nat
      /\ Cardinality(Units(L, quantity)) <= Cardinality(Units(M, quantity))
  BY <1>1, QuantityIsNat, UnitsFinite, UnitsGrow
<1> QED
  BY <1>2 DEF L, M, SoldOf, Sold

\* What counts as sold does not grow by a step that adds no live order.
LEMMA SoldKept ==
  ASSUME RequestType, UNCHANGED quantity,
         \A o \in Orders \ rejected' : status'[o] \in Reserving
           => o \notin rejected /\ status[o] \in Reserving
  PROVE  /\ SoldOf(Orders \ rejected)' <= SoldOf(Orders \ rejected)
         /\ SoldOf(Orders \ rejected)' \in Nat
<1> DEFINE L == {o \in Orders \ rejected' : status'[o] \in Reserving}
           M == {o \in Orders \ rejected : status[o] \in Reserving}
<1>1. L \in SUBSET M /\ M \in SUBSET Orders /\ L \in SUBSET Orders
  OBVIOUS
<1> HIDE DEF L, M
<1>2. /\ Cardinality(Units(L, quantity)) \in Nat
      /\ Cardinality(Units(L, quantity)) <= Cardinality(Units(M, quantity))
  BY <1>1, QuantityIsNat, UnitsFinite, UnitsGrow
<1> QED
  BY <1>2 DEF L, M, SoldOf

\* It grows by the quantity of the order that a step inserts.
LEMMA SoldAdded ==
  ASSUME RequestType, UNCHANGED <<quantity, rejected>>, NEW o \in Orders,
         \A p \in Orders : p # o => status'[p] = status[p]
  PROVE  SoldOf(Orders \ rejected)'
           <= SoldOf(Orders \ rejected) + quantity[o]
<1> DEFINE L == {p \in Orders \ rejected' : status'[p] \in Reserving}
           M == {p \in Orders \ rejected : status[p] \in Reserving}
<1>1. L \in SUBSET (M \cup {o}) /\ M \in SUBSET Orders /\ L \in SUBSET Orders
      /\ M \cup {o} \in SUBSET Orders
  OBVIOUS
<1> HIDE DEF L, M
<1>2. /\ Cardinality(Units(L, quantity)) \in Nat
      /\ Cardinality(Units(M \cup {o}, quantity)) \in Nat
      /\ Cardinality(Units(M, quantity)) \in Nat
      /\ Cardinality(Units(L, quantity))
           <= Cardinality(Units(M \cup {o}, quantity))
      /\ Cardinality(Units(M \cup {o}, quantity))
           <= Cardinality(Units(M, quantity)) + quantity[o]
  BY <1>1, QuantityIsNat, UnitsFinite, UnitsGrow, UnitsAdd
<1>3. quantity[o] \in Nat
  BY QuantityIsNat
<1> QED
  BY <1>2, <1>3 DEF L, M, SoldOf

-----------------------------------------------------------------------------
(***************************************************************************)
(* What a step leaves alone.                                               *)
(***************************************************************************)
LEMMA OrdersKept ==
  ASSUME UNCHANGED <<status, tickets, rejected, channel, quantity>>
  PROVE  /\ OrderType => OrderType'
         /\ RequestType => RequestType'
         /\ TicketInv => TicketInv'
BY DEF OrderType, RequestType, TicketInv

LEMMA PagesKept ==
  ASSUME UNCHANGED <<totalQuantity, edit>>
  PROVE  /\ EditType => EditType'
         /\ EditInv => EditInv'
         /\ There' = There
BY DEF EditType, EditInv, There, Offered, Listed, Filling

LEMMA FitKept ==
  ASSUME RequestType, CallType, FitInv, UNCHANGED <<channel, quantity>>,
         seen' \in [Orders -> Nat],
         \A o \in Orders : channel[o] = "WEB" /\ pc'[o] = "insert" /\ There' =>
           pc[o] = "insert" /\ There /\ seen'[o] = seen[o],
         \A o \in Orders \ rejected' : status'[o] \in Reserving
           => o \notin rejected /\ status[o] \in Reserving
  PROVE  FitInv'
<1>1. /\ SoldOf(Orders \ rejected)' <= SoldOf(Orders \ rejected)
      /\ SoldOf(Orders \ rejected)' \in Nat
  BY SoldKept
<1>2. SoldOf(Orders \ rejected) \in Nat /\ quantity \in [Orders -> Nat]
  BY SoldIsNat, QuantityIsNat
<1> SUFFICES ASSUME NEW o \in Orders, channel'[o] = "WEB", pc'[o] = "insert",
                    There'
             PROVE  SoldOf(Orders \ rejected)' + quantity'[o] <= seen'[o]
  BY DEF FitInv, Room, SoldOf
<1>3. SoldOf(Orders \ rejected) + quantity[o] <= seen[o] /\ seen'[o] = seen[o]
  BY DEF FitInv, Room
<1>4. seen[o] \in Nat /\ quantity[o] \in Nat /\ quantity'[o] = quantity[o]
  BY <1>2 DEF CallType
<1> QED
  BY <1>1, <1>2, <1>3, <1>4

-----------------------------------------------------------------------------
(***************************************************************************)
(* The requests.                                                           *)
(***************************************************************************)
LEMMA InitInv == Init => IInv
<1> SUFFICES ASSUME Init PROVE IInv
  OBVIOUS
<1>1. RowType /\ OrderType /\ RequestType /\ CallType
  BY DEF Init, RowType, OrderType, RequestType, CallType, OrderStatuses, Steps
<1>2. EditType /\ EditInv
  BY CapacityAssumption
  DEF Init, EditType, EditInv, Editor, EditSteps, There, Offered, Listed,
      Filling
<1>3. TicketInv
  BY DEF Init, TicketInv, WithTickets
<1>4. PcInv /\ LockInv /\ FitInv
  BY CapacityAssumption DEF Init, PcInv, LockInv, FitInv
<1> QED
  BY <1>1, <1>2, <1>3, <1>4 DEF IInv

LEMMA LoadCounterStep == IInv /\ LoadCounter => IInv'
<1> SUFFICES ASSUME IInv, LoadCounter PROVE IInv'
  OBVIOUS
<1> USE DEF IInv
<1>1. UNCHANGED <<totalQuantity, status, tickets, rejected, channel, quantity,
                  rowLock, pc, seen, edit>>
  BY DEF LoadCounter, orders, request
<1>2. RowType'
  <2>1. Sold \in Nat
    BY SoldIsNat DEF Sold
  <2>2. totalQuantity \in Nat
    BY DEF RowType, LoadCounter, There
  <2>3. shelf' \in Nat
    BY <2>1, <2>2 DEF LoadCounter
  <2> QED
    BY <1>1, <2>3 DEF RowType
<1>3. OrderType' /\ RequestType' /\ TicketInv' /\ EditType' /\ EditInv'
      /\ There' = There /\ CallType'
  BY <1>1, OrdersKept, PagesKept DEF CallType
<1>4. PcInv' /\ LockInv'
  BY <1>1, <1>3 DEF PcInv, LockInv
<1>5. FitInv'
  BY <1>1, <1>3, FitKept DEF CallType
<1> QED
  BY <1>2, <1>3, <1>4, <1>5

LEMMA ReadTypeStep ==
  ASSUME IInv, NEW o \in Orders, ReadType(o)
  PROVE  IInv'
<1> USE DEF IInv
<1>1. /\ UNCHANGED <<totalQuantity, status, tickets, rejected, channel,
                     quantity, rowLock, edit, shelf>>
      /\ pc[o] = "idle" /\ There
      /\ seen' = [seen EXCEPT ![o] = totalQuantity]
      /\ pc' = [pc EXCEPT ![o] =
                  IF channel[o] = "COMP" THEN "insert" ELSE "check"]
  BY DEF ReadType, orders, request, pages, Goto
<1>2. RowType' /\ CallType'
  <2>1. totalQuantity \in Nat
    BY <1>1 DEF RowType, There
  <2> QED
    BY <1>1, <2>1 DEF RowType, CallType, Steps
<1>3. OrderType' /\ RequestType' /\ TicketInv' /\ EditType' /\ EditInv'
      /\ There' = There
  BY <1>1, OrdersKept, PagesKept
<1>4. \A p \in Orders :
        /\ p # o => pc'[p] = pc[p] /\ seen'[p] = seen[p]
        /\ p = o => /\ pc'[p] \notin {"lock", "recount", "done"}
                    /\ pc'[p] = "insert" => channel[p] = "COMP"
  BY <1>1 DEF CallType
<1>5. PcInv'
  <2>1. \A e \in Editors : edit[e].step # "add"
    BY <1>1 DEF EditInv, Offered, Listed, Filling
  <2>2. status[o] = "NONE"
    BY <1>1 DEF PcInv
  <2> QED
    BY <1>1, <1>3, <1>4, <2>1, <2>2 DEF PcInv
<1>6. LockInv'
  BY <1>1, <1>3, <1>4 DEF LockInv
<1>7. FitInv'
  BY <1>1, <1>2, <1>3, <1>4, FitKept DEF CallType
<1> QED
  BY <1>2, <1>3, <1>5, <1>6, <1>7

LEMMA CheckAvailabilityStep ==
  ASSUME IInv, NEW o \in Orders, CheckAvailability(o)
  PROVE  IInv'
<1> USE DEF IInv
<1>1. /\ UNCHANGED <<totalQuantity, status, tickets, rejected, channel,
                     quantity, rowLock, seen, edit, shelf>>
      /\ pc[o] = "check"
      /\ pc' = [pc EXCEPT ![o] =
                  IF ~Enough(o) THEN "done"
                  ELSE IF channel[o] = "WEB" THEN "lock" ELSE "insert"]
  BY DEF CheckAvailability, orders, request, pages, Goto
<1>2. RowType' /\ CallType'
  BY <1>1 DEF RowType, CallType, Steps
<1>3. OrderType' /\ RequestType' /\ TicketInv' /\ EditType' /\ EditInv'
      /\ There' = There
  BY <1>1, OrdersKept, PagesKept
<1>4. \A p \in Orders :
        /\ p # o => pc'[p] = pc[p]
        /\ p = o => /\ pc'[p] \notin {"idle", "recount"}
                    /\ pc'[p] = "lock" => channel[p] = "WEB"
                    /\ pc'[p] = "insert" => channel[p] # "WEB"
  BY <1>1 DEF CallType
<1>5. PcInv'
  BY <1>1, <1>3, <1>4 DEF PcInv
<1>6. LockInv'
  BY <1>1, <1>3, <1>4 DEF LockInv
<1>7. FitInv'
  BY <1>1, <1>2, <1>3, <1>4, FitKept DEF CallType
<1> QED
  BY <1>2, <1>3, <1>5, <1>6, <1>7

LEMMA LockTypeStep ==
  ASSUME IInv, NEW o \in Orders, LockType(o)
  PROVE  IInv'
<1> USE DEF IInv
<1>1. /\ UNCHANGED <<totalQuantity, status, tickets, rejected, channel,
                     quantity, seen, edit, shelf>>
      /\ pc[o] = "lock" /\ rowLock = Nobody
      /\ rowLock' = IF There THEN o ELSE Nobody
      /\ pc' = [pc EXCEPT ![o] = "recount"]
  BY DEF LockType, orders, request, pages, Goto
<1>2. RowType' /\ CallType'
  BY <1>1 DEF RowType, CallType, Steps
<1>3. OrderType' /\ RequestType' /\ TicketInv' /\ EditType' /\ EditInv'
      /\ There' = There
  BY <1>1, OrdersKept, PagesKept
<1>4. \A p \in Orders : pc'[p] = IF p = o THEN "recount" ELSE pc[p]
  BY <1>1 DEF CallType
<1>5. PcInv'
  BY <1>1, <1>3, <1>4 DEF PcInv
<1>6. LockInv'
  BY <1>1, <1>3, <1>4, CapacityAssumption DEF LockInv, PcInv
<1>7. FitInv'
  BY <1>1, <1>2, <1>3, <1>4, FitKept DEF CallType
<1> QED
  BY <1>2, <1>3, <1>5, <1>6, <1>7

LEMMA RecountEnoughStep ==
  ASSUME IInv, NEW o \in Orders, RecountEnough(o)
  PROVE  IInv'
<1> USE DEF IInv
<1>1. /\ UNCHANGED <<totalQuantity, status, tickets, rejected, channel,
                     quantity, rowLock, seen, edit, shelf>>
      /\ pc[o] = "recount" /\ Enough(o)
      /\ pc' = [pc EXCEPT ![o] = "insert"]
  BY DEF RecountEnough, orders, request, pages, Goto
<1>2. RowType' /\ CallType'
  BY <1>1 DEF RowType, CallType, Steps
<1>3. OrderType' /\ RequestType' /\ TicketInv' /\ EditType' /\ EditInv'
      /\ There' = There
  BY <1>1, OrdersKept, PagesKept
<1>4. \A p \in Orders : pc'[p] = IF p = o THEN "insert" ELSE pc[p]
  BY <1>1 DEF CallType
<1>5. PcInv'
  BY <1>1, <1>3, <1>4 DEF PcInv
<1>6. LockInv'
  BY <1>1, <1>3, <1>4 DEF LockInv, PcInv
<1>7. FitInv'
  <2>1. Room(o)
    <3>1. /\ SoldOf(Orders \ rejected) \in Nat
          /\ SoldOf(Orders \ rejected) <= Sold
      BY SoldIsNat
    <3>2. Sold \in Nat
      BY SoldIsNat DEF Sold
    <3>3. quantity[o] \in Nat /\ seen[o] \in Nat
      BY QuantityIsNat DEF CallType
    <3>4. seen[o] >= Sold + quantity[o]
      BY <1>1 DEF Enough
    <3> QED
      BY <3>1, <3>2, <3>3, <3>4 DEF Room
  <2>2. \A p \in Orders : Room(p)' <=> Room(p)
    BY <1>1 DEF Room, SoldOf
  <2> QED
    BY <1>1, <1>3, <1>4, <2>1, <2>2 DEF FitInv
<1> QED
  BY <1>2, <1>3, <1>5, <1>6, <1>7

\* A request ends without its row.
LEMMA EndsStep ==
  ASSUME IInv, NEW o \in Orders,
         RecountSoldOut(o) \/ TypeGone(o) \/ Rollback(o)
  PROVE  IInv'
<1> USE DEF IInv
<1>1. /\ UNCHANGED <<totalQuantity, status, tickets, rejected, channel,
                     quantity, seen, edit, shelf>>
      /\ pc[o] \in {"lock", "recount", "insert"}
      /\ pc' = [pc EXCEPT ![o] = "done"]
  BY DEF RecountSoldOut, TypeGone, Rollback, orders, request, pages, Goto
<1>2. rowLock' = IF rowLock = o THEN Nobody ELSE rowLock
  BY DEF RecountSoldOut, TypeGone, Rollback, LockInv
<1>3. RowType' /\ CallType'
  BY <1>1, <1>2 DEF RowType, CallType, Steps
<1>4. OrderType' /\ RequestType' /\ TicketInv' /\ EditType' /\ EditInv'
      /\ There' = There
  BY <1>1, OrdersKept, PagesKept
<1>5. \A p \in Orders : pc'[p] = IF p = o THEN "done" ELSE pc[p]
  BY <1>1 DEF CallType
<1>6. PcInv'
  BY <1>1, <1>4, <1>5 DEF PcInv
<1>7. LockInv'
  BY <1>1, <1>2, <1>4, <1>5, CapacityAssumption DEF LockInv
<1>8. FitInv'
  BY <1>1, <1>3, <1>4, <1>5, FitKept DEF CallType
<1> QED
  BY <1>3, <1>4, <1>6, <1>7, <1>8

\* The row is inserted: no web order is between its recount and its insert
\* but the one that inserts.
LEMMA InsertStep ==
  ASSUME IInv, NEW o \in Orders, InsertPending(o) \/ InsertPaid(o)
  PROVE  IInv'
<1> USE DEF IInv
<1>1. PICK new \in {"PENDING", "PAID"} :
        /\ status' = [status EXCEPT ![o] = new]
        /\ tickets' = IF new = "PAID"
                      THEN [tickets EXCEPT ![o] = quantity[o]] ELSE tickets
        /\ channel[o] \in IF new = "PAID" THEN {"POS", "COMP"}
                                          ELSE {"WEB", "QR"}
  BY DEF InsertPending, InsertPaid
<1>2. /\ UNCHANGED <<totalQuantity, rejected, channel, quantity, seen, edit,
                     shelf>>
      /\ pc[o] = "insert" /\ There
      /\ pc' = [pc EXCEPT ![o] = "done"]
      /\ rowLock \in {Nobody, o} /\ rowLock' = Nobody
  BY DEF InsertPending, InsertPaid, request, pages, Goto
<1>3. status[o] = "NONE" /\ \A p \in Orders : rowLock # p \/ p = o
  BY <1>2, CapacityAssumption DEF PcInv
<1>4. /\ \A p \in Orders : pc'[p] = IF p = o THEN "done" ELSE pc[p]
      /\ \A p \in Orders : status'[p] = IF p = o THEN new ELSE status[p]
  BY <1>1, <1>2 DEF CallType, OrderType
<1>5. RowType' /\ OrderType' /\ RequestType' /\ CallType'
  BY <1>1, <1>2
  DEF RowType, OrderType, RequestType, CallType, Steps, OrderStatuses
<1>6. EditType' /\ EditInv' /\ There' = There
  BY <1>2, PagesKept
<1>7. TicketInv'
  <2>1. quantity[o] \in Nat
    BY QuantityIsNat
  <2>2. CASE new = "PAID"
    BY <1>1, <1>2, <1>4, <2>1, <2>2 DEF TicketInv, WithTickets
  <2>3. CASE new = "PENDING"
    BY <1>1, <1>2, <1>3, <1>4, <2>3 DEF TicketInv, WithTickets
  <2> QED
    BY <2>2, <2>3
<1>8. PcInv'
  BY <1>1, <1>2, <1>4, <1>6 DEF PcInv
<1>9. LockInv' /\ FitInv'
  BY <1>2, <1>3, <1>4, <1>6, CapacityAssumption DEF LockInv, FitInv
<1> QED
  BY <1>5, <1>6, <1>7, <1>8, <1>9

-----------------------------------------------------------------------------
(***************************************************************************)
(* The life of an order.  A rejected request makes an order count again,   *)
(* which is then one of `rejected'.                                        *)
(***************************************************************************)
LEMMA StatusStep ==
  ASSUME IInv, NEW o \in Orders, NEW new \in OrderStatuses,
         status' = [status EXCEPT ![o] = new],
         status[o] # "NONE", new \notin {"NONE", "PENDING"},
         new = "CANCELLED" => status[o] = "PENDING",
         rejected \subseteq rejected', rejected' \subseteq Orders,
         new \in Reserving => status[o] \in Reserving \/ o \in rejected',
         TicketInv',
         UNCHANGED <<totalQuantity, channel, quantity, rowLock, pc, seen, edit,
                     shelf>>
  PROVE  IInv'
<1> USE DEF IInv
<1>1. \A p \in Orders : status'[p] = IF p = o THEN new ELSE status[p]
  BY DEF OrderType
<1>2. RowType' /\ OrderType' /\ RequestType' /\ CallType'
  BY DEF RowType, OrderType, RequestType, CallType
<1>3. EditType' /\ EditInv' /\ There' = There
  BY PagesKept
<1>4. PcInv'
  BY <1>1, <1>3 DEF PcInv
<1>5. LockInv'
  BY <1>3 DEF LockInv
<1>6. FitInv'
  BY <1>1, <1>3, FitKept DEF CallType
<1> QED
  BY <1>2, <1>3, <1>4, <1>5, <1>6

LEMMA LifeStep ==
  ASSUME IInv, NEW o \in Orders, Life(o)
  PROVE  IInv'
<1>1. UNCHANGED <<totalQuantity, channel, quantity, rowLock, pc, seen, edit,
                  shelf>>
  BY DEF Life, request, pages
<1> USE DEF IInv, SetStatus, OrderStatuses, Reserving, WithTickets
<1>2. /\ quantity \in [Orders -> Nat]
      /\ tickets \in [Orders -> Nat] /\ rejected \subseteq Orders
      /\ status \in [Orders -> OrderStatuses]
  BY QuantityIsNat DEF TicketInv, OrderType
<1>3. CASE FulfillOrder(o)
  <2>1. TicketInv'
    BY <1>1, <1>2, <1>3 DEF FulfillOrder, TicketInv
  <2> QED
    BY <1>1, <1>2, <1>3, <2>1, StatusStep DEF FulfillOrder
<1>4. CASE ExpirePending(o)
  <2>1. TicketInv'
    BY <1>1, <1>2, <1>4 DEF ExpirePending, TicketInv
  <2> QED
    BY <1>1, <1>2, <1>4, <2>1, StatusStep DEF ExpirePending
<1>5. CASE RequestRefund(o)
  <2>1. TicketInv'
    BY <1>1, <1>2, <1>5 DEF RequestRefund, TicketInv
  <2> QED
    BY <1>1, <1>2, <1>5, <2>1, StatusStep DEF RequestRefund
<1>6. CASE ApproveRefund(o)
  <2>1. TicketInv'
    BY <1>1, <1>2, <1>6 DEF ApproveRefund, TicketInv
  <2> QED
    BY <1>1, <1>2, <1>6, <2>1, StatusStep DEF ApproveRefund
<1>7. CASE RejectRefund(o)
  <2>1. TicketInv'
    BY <1>1, <1>2, <1>7 DEF RejectRefund, TicketInv
  <2> QED
    BY <1>1, <1>2, <1>7, <2>1, StatusStep DEF RejectRefund
<1>8. CASE MarkRefunded(o)
  <2>1. TicketInv'
    BY <1>1, <1>2, <1>8 DEF MarkRefunded, TicketInv
  <2> QED
    BY <1>1, <1>2, <1>8, <2>1, StatusStep DEF MarkRefunded
<1> QED
  BY <1>3, <1>4, <1>5, <1>6, <1>7, <1>8 DEF Life

-----------------------------------------------------------------------------
(***************************************************************************)
(* The organizer's editors.                                                *)
(***************************************************************************)
LEMMA EditorStep ==
  ASSUME IInv,
         UNCHANGED <<status, tickets, rejected, channel, quantity, rowLock, pc,
                     seen, shelf>>,
         totalQuantity' \in Nat \cup {Nobody}, EditType', EditInv',
         There' => There \/ \A o \in Orders : pc[o] = "idle",
         ~There' => /\ rowLock = Nobody
                    /\ \A o \in Orders : channel[o] \in {"POS", "COMP"}
                         => status[o] = "NONE",
         \A o \in Orders : pc[o] # "idle"
           => \A e \in Editors : edit'[e].step # "add"
  PROVE  IInv'
<1> USE DEF IInv
<1>1. RowType' /\ CallType'
  BY DEF RowType, CallType
<1>2. OrderType' /\ RequestType' /\ TicketInv'
  BY OrdersKept
<1>3. PcInv'
  BY DEF PcInv
<1>4. LockInv'
  BY CapacityAssumption DEF LockInv
<1>5. FitInv'
  BY FitKept DEF CallType
<1> QED
  BY <1>1, <1>2, <1>3, <1>4, <1>5

LEMMA CreateTypeStep == IInv /\ CreateType => IInv'
<1> SUFFICES ASSUME IInv, CreateType PROVE IInv'
  OBVIOUS
<1>1. /\ UNCHANGED <<status, tickets, rejected, channel, quantity, rowLock, pc,
                     seen, shelf>>
      /\ edit["page"].step = "add" /\ totalQuantity' = edit["page"].total
      /\ edit' = [e \in Editors |-> [step |-> "list", total |-> Nobody]]
  BY DEF CreateType, EveryPage, orders, request
<1>2. totalQuantity' \in Nat /\ There'
  BY <1>1, CapacityAssumption DEF IInv, EditInv, Editors, There
<1>3. EditType'
  BY <1>1 DEF EditType, Editor, EditSteps
<1>4. EditInv'
  BY <1>1, <1>2 DEF EditInv, Offered, Listed, Filling
<1>5. \A o \in Orders : pc[o] = "idle"
  BY <1>1 DEF IInv, PcInv, Editors
<1> QED
  BY <1>1, <1>2, <1>3, <1>4, <1>5, EditorStep

LEMMA DeleteTypeStep == IInv /\ DeleteType => IInv'
<1> SUFFICES ASSUME IInv, DeleteType PROVE IInv'
  OBVIOUS
<1>1. /\ UNCHANGED <<status, tickets, rejected, channel, quantity, rowLock, pc,
                     seen, shelf>>
      /\ rowLock = Nobody /\ totalQuantity' = Nobody
      /\ edit' = [e \in Editors |-> [step |-> "gone", total |-> Nobody]]
      /\ \A o \in Orders : status[o] \in {"NONE", "PENDING", "CANCELLED"}
  BY DEF DeleteType, EveryPage, orders, request
<1>2. ~There'
  BY <1>1 DEF There
<1>3. EditType'
  BY <1>1 DEF EditType, Editor, EditSteps
<1>4. EditInv'
  BY <1>1, <1>2 DEF EditInv, Offered, Listed, Filling
<1>5. \A o \in Orders : channel[o] \in {"POS", "COMP"} => status[o] = "NONE"
  BY <1>1 DEF IInv, PcInv
<1> QED
  BY <1>1, <1>2, <1>3, <1>4, <1>5, EditorStep

\* One editor goes on, on a row that is there.
LEMMA EditStep ==
  ASSUME IInv, NEW e \in Editors,
         \/ CancelEdit(e) \/ CheckTotal(e) \/ WriteTotal(e)
         \/ \E n \in Totals : StartEdit(e, n)
  PROVE  IInv'
<1>1. PICK step \in {"list", "form", "write"}, n \in Nat \cup {Nobody} :
        /\ edit' = [edit EXCEPT ![e] = [step |-> step, total |-> n]]
        /\ step # "list" => n \in Nat
        /\ Offered(e)
        /\ \/ UNCHANGED totalQuantity
           \/ totalQuantity' = edit[e].total /\ edit[e].step = "write"
  BY CapacityAssumption
  DEF CancelEdit, CheckTotal, WriteTotal, StartEdit, Page, Filling, Listed,
      Offered, IInv, EditInv
<1>2. UNCHANGED <<status, tickets, rejected, channel, quantity, rowLock, pc,
                  seen, shelf>>
  BY DEF CancelEdit, CheckTotal, WriteTotal, StartEdit, orders, request
<1> DEFINE row == [step |-> step, total |-> n]
<1>3. row \in Editor /\ row.step = step /\ row.total = n
  BY DEF Editor, EditSteps
<1> HIDE DEF row
<1>4. /\ EditType'
      /\ \A d \in Editors : edit'[d] = IF d = e THEN row ELSE edit[d]
  BY <1>1, <1>3 DEF row, IInv, EditType
<1>5. There /\ There' /\ totalQuantity' \in Nat \cup {Nobody}
  <2>1. There
    BY <1>1 DEF IInv, EditInv
  <2>2. edit[e].step = "write" => edit[e].total \in Nat
    BY DEF IInv, EditInv
  <2> QED
    BY <1>1, <2>1, <2>2, CapacityAssumption DEF IInv, RowType, There
<1>6. EditInv'
  BY <1>1, <1>3, <1>4, <1>5 DEF IInv, EditInv, Offered, Listed, Filling
<1>7. \A o \in Orders : pc[o] # "idle"
        => \A d \in Editors : edit'[d].step # "add"
  BY <1>3, <1>4 DEF IInv, PcInv
<1> QED
  BY <1>2, <1>4, <1>5, <1>6, <1>7, EditorStep

-----------------------------------------------------------------------------
(***************************************************************************)
(* The invariant, and what it says.                                        *)
(***************************************************************************)
LEMMA NextInv == IInv /\ [Next]_vars => IInv'
<1> SUFFICES ASSUME IInv, [Next]_vars PROVE IInv'
  OBVIOUS
<1>1. ASSUME NEW o \in Orders, Buy(o) PROVE IInv'
  BY <1>1, ReadTypeStep, CheckAvailabilityStep, LockTypeStep,
     RecountEnoughStep, EndsStep, InsertStep
  DEF Buy
<1>2. ASSUME NEW o \in Orders, Rollback(o) PROVE IInv'
  BY <1>2, EndsStep
<1>3. ASSUME NEW o \in Orders, Life(o) PROVE IInv'
  BY <1>3, LifeStep
<1>4. CASE LoadCounter \/ CreateType \/ DeleteType
  BY <1>4, LoadCounterStep, CreateTypeStep, DeleteTypeStep
<1>5. ASSUME NEW e \in Editors,
             \/ CancelEdit(e) \/ CheckTotal(e) \/ WriteTotal(e)
             \/ \E n \in Totals : StartEdit(e, n)
      PROVE  IInv'
  BY <1>5, EditStep
<1>6. CASE UNCHANGED vars
  <2>1. UNCHANGED <<totalQuantity, status, channel, quantity, tickets, rejected,
                    rowLock, pc, seen, edit, shelf>>
    BY <1>6 DEF vars
  <2>2. There' = There /\ EditType' /\ EditInv'
    BY <2>1, PagesKept DEF IInv
  <2> QED
    BY <2>1, <2>2, EditorStep
    DEF IInv, RowType, PcInv, LockInv, There
<1> QED
  BY <1>1, <1>2, <1>3, <1>4, <1>5, <1>6 DEF Next

LEMMA SpecInv == Spec => []IInv
BY InitInv, NextInv, PTL DEF Spec

\* An order has tickets for the gate from its payment to its refund, a type
\* that is deleted took no counter or free order along, and the two editors
\* offer the row exactly while it is there.
THEOREM StockWellFormed == Spec => []CapacityTypeOK
<1>1. IInv => CapacityTypeOK
  BY DEF IInv, CapacityTypeOK, RowType, OrderType, RequestType, CallType,
         TicketInv, EditInv, PcInv, Steps, WithTickets
<1> QED
  BY <1>1, SpecInv, PTL

\* However many orders of any channel interleave, a createOrder commits within
\* the capacity it has read: SELECT ... FOR UPDATE keeps every other insert
\* out between its recount and its own.
THEOREM WebOrdersFit == Spec => WebStaysWithinCapacity
<1>1. IInv /\ [Next]_vars =>
        [\A o \in Orders :
           channel[o] = "WEB" /\ status[o] = "NONE" /\ status'[o] = "PENDING"
             => SoldOf(Orders \ rejected)' <= seen[o]]_vars
  <2> SUFFICES ASSUME IInv, Next, NEW o \in Orders, channel[o] = "WEB",
                      status[o] = "NONE", status'[o] = "PENDING"
               PROVE  SoldOf(Orders \ rejected)' <= seen[o]
    OBVIOUS
  <2>1. InsertPending(o)
    <3>1. status # status' /\ status \in [Orders -> OrderStatuses]
      BY DEF IInv, OrderType
    <3>2. PICK p \in Orders : InsertPending(p) \/ InsertPaid(p) \/ Life(p)
      BY <3>1
      DEF Next, Buy, LoadCounter, CreateType, DeleteType, CancelEdit,
          CheckTotal, WriteTotal, StartEdit, Rollback, ReadType,
          CheckAvailability, LockType, RecountEnough, RecountSoldOut, TypeGone,
          orders
    <3>3. p = o
      BY <3>1, <3>2
      DEF InsertPending, InsertPaid, Life, FulfillOrder, ExpirePending,
          RequestRefund, ApproveRefund, RejectRefund, MarkRefunded, SetStatus
    <3>4. ~InsertPaid(o)
      BY <3>1 DEF InsertPaid
    <3>5. ~Life(o)
      BY DEF Life, FulfillOrder, ExpirePending, RequestRefund, ApproveRefund,
             RejectRefund, MarkRefunded, SetStatus
    <3> QED
      BY <3>2, <3>3, <3>4, <3>5
  <2>2. /\ status' = [status EXCEPT ![o] = "PENDING"]
        /\ UNCHANGED <<quantity, rejected>>
        /\ pc[o] = "insert" /\ There
    BY <2>1 DEF InsertPending, request
  <2>3. SoldOf(Orders \ rejected) + quantity[o] <= seen[o]
    BY <2>2 DEF IInv, FitInv, Room
  <2>4. /\ SoldOf(Orders \ rejected) \in Nat /\ quantity[o] \in Nat
        /\ seen[o] \in Nat
    BY SoldIsNat, QuantityIsNat DEF IInv, CallType
  <2>5. SoldOf(Orders \ rejected)' <= SoldOf(Orders \ rejected) + quantity[o]
    BY <2>2, SoldAdded DEF IInv, OrderType
  <2>6. SoldOf(Orders \ rejected)' \in Nat
    <3> DEFINE L == {p \in Orders \ rejected' : status'[p] \in Reserving}
    <3>1. L \in SUBSET Orders
      OBVIOUS
    <3> HIDE DEF L
    <3>2. Cardinality(Units(L, quantity)) \in Nat
      BY <3>1, QuantityIsNat, UnitsFinite DEF IInv
    <3> QED
      BY <2>2, <3>2 DEF L, SoldOf
  <2> QED
    BY <2>3, <2>4, <2>5, <2>6
<1> QED
  BY <1>1, SpecInv, PTL DEF Spec, WebStaysWithinCapacity
=============================================================================
