------------------------------ MODULE Capacity ------------------------------
(***************************************************************************)
(* The last units of one ticket type: createOrder (WEB), qrCheckout (QR),  *)
(* posOrder (POS) and compOrder (COMP) sell from the same totalQuantity,   *)
(* the organizer adds, edits and deletes the type, the cashier sells what  *)
(* the page of the counter still shows, and expired, refunded and rejected *)
(* orders give units back or take them again.                              *)
(*                                                                         *)
(* There is no counter: what is sold is the sum of quantities over orders  *)
(* PENDING or PAID.  Only createOrder counts under SELECT ... FOR UPDATE;  *)
(* that lock also holds up every insert of an order item of the type (its  *)
(* foreign key takes FOR KEY SHARE) and every update of the type.  Reads   *)
(* never wait.  An insert and its COMMIT are one step.                     *)
(***************************************************************************)
EXTENDS Integers, FiniteSets

CONSTANTS
  Orders,      \* order ids; each also names the request that makes the order
  Mixes,       \* which channel each request may come through: functions
  Quantities,  \* quantities a buyer may ask for
  Totals,      \* totalQuantity values the organizer may set
  InitialTotal,
  Nobody

AllChannels == {"WEB", "QR", "POS", "COMP"}

ASSUME CapacityAssumption ==
  /\ IsFiniteSet(Orders)
  /\ Mixes \subseteq [Orders -> AllChannels]
  /\ Quantities \subseteq Nat \ {0}
  /\ Totals \subseteq Nat
  /\ InitialTotal \in Nat
  /\ Nobody \notin Orders \cup Nat

VARIABLES
  totalQuantity,  \* TicketType.totalQuantity, Nobody without the row
  status,         \* Order.status; "NONE" before the row exists
  channel,        \* the channel of an order's request
  quantity,       \* OrderItem.quantity, as requested
  tickets,        \* tickets of the order that open the gate
  rejected,       \* orders with a REJECTED refund request
  rowLock,        \* createOrder transaction holding FOR UPDATE on the type
  pc,             \* next step of each request
  seen,           \* totalQuantity as the request read it
  edit,           \* the organizer's two editors of the row: [step, total]
  shelf           \* what the page of the counter shows as remaining

vars == <<totalQuantity, status, channel, quantity, tickets, rejected,
          rowLock, pc, seen, edit, shelf>>
orders == <<status, tickets, rejected>>
request == <<channel, quantity>>
pages == <<edit, shelf>>

\* The page of the ticket types, and the card of the occurrence on the page
\* of its show.
Editors == {"page", "card"}

Reserving == {"PENDING", "PAID"}

\* The units of the orders O, n[o] of each: what the sums of the code count.
Units(O, n) == UNION {{o} \X (1..n[o]) : o \in O}
SoldOf(O) ==
  Cardinality(Units({o \in O : status[o] \in Reserving}, quantity))
Sold == SoldOf(Orders)
GateTickets == Cardinality(Units(Orders, tickets))

Goto(o, label) == pc' = [pc EXCEPT ![o] = label]

Init ==
  /\ totalQuantity = Nobody
  /\ status = [o \in Orders |-> "NONE"]
  /\ channel \in Mixes
  /\ quantity \in [Orders -> Quantities]
  /\ tickets = [o \in Orders |-> 0]
  /\ rejected = {}
  /\ rowLock = Nobody
  /\ pc = [o \in Orders |-> "idle"]
  /\ seen = [o \in Orders |-> 0]
  /\ edit = [e \in Editors |-> [step |-> "add", total |-> InitialTotal]]
  /\ shelf = Nobody

(***************************************************************************)
(* Placing an order.  WEB, QR and POS read the ticket type, then the sold  *)
(* sum; COMP reads the type and checks no capacity.                        *)
(***************************************************************************)
There == totalQuantity # Nobody

\* The page of the counter is loaded when it is opened, and not after a sale.
LoadCounter ==
  /\ There
  /\ \E o \in Orders : channel[o] = "POS" /\ pc[o] = "idle"
  /\ shelf' = IF Sold < totalQuantity THEN totalQuantity - Sold ELSE 0
  /\ UNCHANGED <<totalQuantity, orders, request, rowLock, pc, seen, edit>>

\* The cashier chooses at most what the page shows as remaining.
OnShelf(o) == shelf # Nobody /\ quantity[o] <= shelf

ReadType(o) ==
  /\ pc[o] = "idle"
  /\ There
  /\ channel[o] = "POS" => OnShelf(o)
  /\ seen' = [seen EXCEPT ![o] = totalQuantity]
  /\ Goto(o, IF channel[o] = "COMP" THEN "insert" ELSE "check")
  /\ UNCHANGED <<totalQuantity, orders, request, rowLock, pages>>

Enough(o) == seen[o] >= Sold + quantity[o]

CheckAvailability(o) ==
  /\ pc[o] = "check"
  /\ Goto(o, IF ~Enough(o) THEN "done"
             ELSE IF channel[o] = "WEB" THEN "lock" ELSE "insert")
  /\ UNCHANGED <<totalQuantity, orders, request, rowLock, seen, pages>>

\* (mutant: a plain SELECT in place of FOR UPDATE)
SelectWithoutLock(o) ==
  /\ pc[o] = "lock"
  /\ Goto(o, "recount")
  /\ UNCHANGED <<totalQuantity, orders, request, rowLock, seen, pages>>

\* assertCapacityAtomic 1): SELECT ... FOR UPDATE (of a deleted type: no row)
LockType(o) ==
  /\ pc[o] = "lock"
  /\ rowLock = Nobody
  /\ rowLock' = IF There THEN o ELSE Nobody
  /\ Goto(o, "recount")
  /\ UNCHANGED <<totalQuantity, orders, request, seen, pages>>

\* assertCapacityAtomic 2): the sum again, under the lock
RecountEnough(o) ==
  /\ pc[o] = "recount"
  /\ Enough(o)
  /\ Goto(o, "insert")
  /\ UNCHANGED <<totalQuantity, orders, request, rowLock, seen, pages>>

\* (mutant: the refusal does not end the transaction)
RefuseInTransaction(o) ==
  /\ pc[o] = "recount"
  /\ ~Enough(o)
  /\ Goto(o, "done")
  /\ UNCHANGED <<totalQuantity, orders, request, rowLock, seen, pages>>

\* TICKET_INSUFFICIENT: the transaction rolls back.
RecountSoldOut(o) ==
  /\ pc[o] = "recount"
  /\ ~Enough(o)
  /\ rowLock' = IF rowLock = o THEN Nobody ELSE rowLock
  /\ Goto(o, "done")
  /\ UNCHANGED <<totalQuantity, orders, request, seen, pages>>

\* The insert of an order item waits for another transaction's FOR UPDATE.
InsertPending(o) ==
  /\ pc[o] = "insert"
  /\ channel[o] \in {"WEB", "QR"}
  /\ There
  /\ rowLock \in {Nobody, o}
  /\ status' = [status EXCEPT ![o] = "PENDING"]
  /\ rowLock' = Nobody
  /\ Goto(o, "done")
  /\ UNCHANGED <<totalQuantity, tickets, rejected, request, seen, pages>>

InsertPaid(o) ==
  /\ pc[o] = "insert"
  /\ channel[o] \in {"POS", "COMP"}
  /\ There
  /\ rowLock = Nobody
  /\ status' = [status EXCEPT ![o] = "PAID"]
  /\ tickets' = [tickets EXCEPT ![o] = quantity[o]]
  /\ Goto(o, "done")
  /\ UNCHANGED <<totalQuantity, rejected, request, rowLock, seen, pages>>

\* The foreign key refuses an item of a deleted type.
TypeGone(o) ==
  /\ pc[o] = "insert"
  /\ ~There
  /\ Goto(o, "done")
  /\ UNCHANGED <<totalQuantity, orders, request, rowLock, seen, pages>>

\* The transaction fails: 15 s are over, or the connection is lost.
Rollback(o) ==
  /\ pc[o] \in {"lock", "recount", "insert"}
  /\ rowLock' = IF rowLock = o THEN Nobody ELSE rowLock
  /\ Goto(o, "done")
  /\ UNCHANGED <<totalQuantity, orders, request, seen, pages>>

(***************************************************************************)
(* The life of an order: the transactions of fulfillOrder, the expiry cron *)
(* and the refund service (their races are the modules SeatCheckout and    *)
(* Refunds).  An order waiting for its refund no longer counts as sold,    *)
(* and keeps its tickets.                                                  *)
(***************************************************************************)
SetStatus(o, from, to) ==
  /\ status[o] = from
  /\ status' = [status EXCEPT ![o] = to]

FulfillOrder(o) ==
  /\ SetStatus(o, "PENDING", "PAID")
  /\ tickets' = [tickets EXCEPT ![o] = quantity[o]]
  /\ UNCHANGED rejected

ExpirePending(o) ==
  /\ SetStatus(o, "PENDING", "CANCELLED")
  /\ UNCHANGED <<tickets, rejected>>

\* qrCheckout leaves userId null, and only the order's user may ask.
RequestRefund(o) ==
  /\ channel[o] # "QR"
  /\ SetStatus(o, "PAID", "REFUND_REQUESTED")
  /\ UNCHANGED <<tickets, rejected>>

ApproveRefund(o) ==
  /\ SetStatus(o, "REFUND_REQUESTED", "REFUND_APPROVED")
  /\ UNCHANGED <<tickets, rejected>>

RejectRefund(o) ==
  /\ SetStatus(o, "REFUND_REQUESTED", "PAID")
  /\ rejected' = rejected \cup {o}
  /\ UNCHANGED tickets

\* (mutant: the tickets stay valid)
RefundMoneyOnly(o) ==
  /\ SetStatus(o, "REFUND_APPROVED", "REFUNDED")
  /\ UNCHANGED <<tickets, rejected>>

MarkRefunded(o) ==
  /\ SetStatus(o, "REFUND_APPROVED", "REFUNDED")
  /\ tickets' = [tickets EXCEPT ![o] = 0]
  /\ UNCHANGED rejected

Life(o) ==
  /\ \/ FulfillOrder(o) \/ ExpirePending(o) \/ RequestRefund(o)
     \/ ApproveRefund(o) \/ RejectRefund(o) \/ MarkRefunded(o)
  /\ UNCHANGED <<totalQuantity, request, rowLock, pc, seen, pages>>

(***************************************************************************)
(* The organizer's editors, in two tabs: both may be open on the row.      *)
(***************************************************************************)
Page(e, step, n) == edit' = [edit EXCEPT ![e] = [step |-> step, total |-> n]]
EveryPage(step) ==
  edit' = [e \in Editors |-> [step |-> step, total |-> Nobody]]
Listed(e) == edit[e].step = "list"
Filling(e) == edit[e].step = "form"
Offered(e) == Listed(e) \/ Filling(e) \/ edit[e].step = "write"

CreateType ==
  /\ edit["page"].step = "add"
  /\ totalQuantity' = edit["page"].total
  /\ EveryPage("list")
  /\ UNCHANGED <<orders, request, rowLock, pc, seen, shelf>>

\* The form of the row is opened and filled in.  (A save which leaves the
\* total as it is changes nothing here.)
StartEdit(e, n) ==
  /\ Listed(e)
  /\ n # totalQuantity
  /\ Page(e, "form", n)
  /\ UNCHANGED <<totalQuantity, orders, request, rowLock, pc, seen, shelf>>

CancelEdit(e) ==
  /\ Filling(e)
  /\ Page(e, "list", Nobody)
  /\ UNCHANGED <<totalQuantity, orders, request, rowLock, pc, seen, shelf>>

\* update: the guard reads the sold sum (below it: CAPACITY_BELOW_SOLD and
\* the form stays open), the write comes later and waits for a FOR UPDATE.
CheckTotal(e) ==
  /\ Filling(e)
  /\ edit[e].total >= Sold
  /\ Page(e, "write", edit[e].total)
  /\ UNCHANGED <<totalQuantity, orders, request, rowLock, pc, seen, shelf>>

WriteTotal(e) ==
  /\ edit[e].step = "write"
  /\ rowLock = Nobody
  /\ totalQuantity' = edit[e].total
  /\ Page(e, "list", Nobody)
  /\ UNCHANGED <<orders, request, rowLock, pc, seen, shelf>>

\* A ticket restricts the deletion of its type; the items of orders without
\* tickets only lose it, and an order that is still PENDING can be paid.
\* Whatever an open editor sends then is refused.
DeleteType ==
  /\ \E e \in Editors : Offered(e)
  /\ \A o \in Orders : status[o] \in {"NONE", "PENDING", "CANCELLED"}
  /\ rowLock = Nobody
  /\ totalQuantity' = Nobody
  /\ EveryPage("gone")
  /\ UNCHANGED <<orders, request, rowLock, pc, seen, shelf>>

Buy(o) ==
  \/ ReadType(o) \/ CheckAvailability(o) \/ LockType(o) \/ RecountEnough(o)
  \/ RecountSoldOut(o) \/ InsertPending(o) \/ InsertPaid(o) \/ TypeGone(o)

Next ==
  \/ \E o \in Orders : Buy(o) \/ Rollback(o) \/ Life(o)
  \/ LoadCounter
  \/ CreateType \/ DeleteType
  \/ \E e \in Editors : \/ CancelEdit(e) \/ CheckTotal(e) \/ WriteTotal(e)
                        \/ \E n \in Totals : StartEdit(e, n)

Spec == Init /\ [][Next]_vars

\* The server goes on with every request it has begun; strongly, because
\* PostgreSQL hands a released row lock to whoever waits for it.
FairSpec ==
  /\ Spec
  /\ \A o \in Orders : SF_vars(pc[o] # "idle" /\ Buy(o))

-----------------------------------------------------------------------------
(***************************************************************************)
(* Properties.                                                             *)
(***************************************************************************)
OrderStatuses == {"NONE", "PENDING", "PAID", "CANCELLED", "REFUND_REQUESTED",
                  "REFUND_APPROVED", "REFUNDED"}

\* Well-formed state; an order has tickets for the gate from its payment to
\* its refund, the time a refund request waits included.
CapacityTypeOK ==
  /\ totalQuantity \in Nat \cup {Nobody}
  /\ ~There => \A o \in Orders : channel[o] \in {"POS", "COMP"} =>
                  status[o] = "NONE"
  /\ status \in [Orders -> OrderStatuses]
  /\ channel \in Mixes
  /\ quantity \in [Orders -> Quantities]
  /\ \A o \in Orders :
       tickets[o] = IF status[o] \in {"PAID", "REFUND_REQUESTED",
                                      "REFUND_APPROVED"}
                    THEN quantity[o] ELSE 0
  /\ rejected \subseteq Orders
  /\ rowLock \in Orders \cup {Nobody}
  /\ pc \in [Orders -> {"idle", "check", "lock", "recount", "insert", "done"}]
  /\ seen \in [Orders -> Nat]
  /\ \A e \in Editors : There <=> Offered(e)
  /\ shelf \in Nat \cup {Nobody}

\* However the four channels interleave, the order a createOrder commits fits
\* into the capacity it has read, all other live orders counted except those
\* whose refund was rejected after their units had gone back on sale.  (The
\* FOR UPDATE lock also keeps the unlocked channels out between the recount
\* and the insert.)
WebStaysWithinCapacity ==
  [][\A o \in Orders :
       channel[o] = "WEB" /\ status[o] = "NONE" /\ status'[o] = "PENDING" =>
         SoldOf(Orders \ rejected)' <= seen[o]]_vars

\* Every buyer who has begun gets an answer: no refusal, failure or slow
\* channel leaves the ticket type locked.
EveryBuyerAnswered ==
  \A o \in Orders : pc[o] # "idle" ~> pc[o] = "done"

\* Protection against oversell: at no time do more tickets open the gate than
\* the ticket type has units.
NoOversell == There => GateTickets <= totalQuantity

=============================================================================
