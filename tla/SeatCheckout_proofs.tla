------------------------ MODULE SeatCheckout_proofs ------------------------
(***************************************************************************)
(* The safety of SeatCheckout for any number of orders, seats, webhook     *)
(* requests, sessions and failures, and its implementation of SeatSale.    *)
(***************************************************************************)
EXTENDS SeatCheckout, TLAPS

\* A webhook handler at work serves a paid session of an existing order.
HandlerInv ==
  \A h \in Handlers :
    /\ pc[h] \in {"idle", "check", "read", "pay", "sell", "mark"}
    /\ pc[h] # "idle" => event[h] \in completed
    /\ pc[h] = "sell" => orderLock[session[event[h]]] = h
    /\ pc[h] = "mark" => status[session[event[h]]] \notin {"NONE", "PENDING"}
    /\ pc[h] \in {"pay", "sell"} /\ termin = "ON_SALE"
         /\ status[session[event[h]]] = "PENDING"
         => held[h] = Items(session[event[h]])

SessionInv ==
  /\ \A e \in Sessions : session[e] \in Orders => status[session[e]] # "NONE"
  /\ \A e \in completed : session[e] \in Orders
  /\ processed \subseteq completed

\* createOrder has locked the seats it has claimed, and has no row before it
\* commits.
CreatorInv ==
  \A o \in Orders :
    /\ pc[o] \in {"idle", "claim", "done"}
    /\ pc[o] # "done" => status[o] = "NONE"
    /\ pc[o] = "claim" =>
         /\ claimed[o] <= Len(cart[o])
         /\ \A i \in 1..claimed[o] : seatLock[cart[o][i]] = o

\* Who may hold a seat's lock, and what that says about the committed row.
SeatLockInv ==
  \A s \in Seats :
    /\ seatLock[s] \notin Handlers
    /\ seatLock[s] \in Orders =>
         /\ pc[seatLock[s]] = "claim"
         /\ s \in Items(seatLock[s])
         /\ seat[s] = Available
    /\ seatLock[s] = Cron =>
         /\ pc[Cron] = "orders"
         /\ seat[s].st = "HELD"
         /\ seat[s].order \in expiring
    /\ seatLock[s] = Organizer => pc[Organizer] \in {"paid", "pending"}

OrderLockInv ==
  \A o \in Orders :
    /\ orderLock[o] \notin Orders \cup {Cron}
    /\ orderLock[o] \in Handlers =>
         /\ pc[orderLock[o]] = "sell"
         /\ session[event[orderLock[o]]] = o
         /\ status[o] = "PENDING"
    /\ orderLock[o] = Organizer =>
         pc[Organizer] = "pending" /\ status[o] = "PAID"

\* The expiry holds the lock of every held seat it is about to release.
CronInv ==
  /\ pc[Cron] \in {"idle", "seats", "orders"}
  /\ \A o \in expiring : status[o] # "NONE"
  /\ pc[Cron] = "orders" =>
       \A s \in HeldSeatsOf(expiring) : seatLock[s] = Cron

\* The cancellation takes back only tickets that exist.
RevokeInv ==
  /\ \A o \in Orders, s \in Seats : revoked[o][s] <= tickets[o][s]
  /\ pc[Organizer] \in {"idle", "tickets", "seats", "paid", "pending"}

\* Tickets come with the payment.
TicketInv ==
  \A o \in Orders, s \in Seats :
    status[o] \in {"NONE", "PENDING"} => tickets[o][s] = 0

\* The inductive invariant: what is committed agrees (SeatLedger), and what
\* each open transaction still has to write is covered by the locks it holds.
IInv ==
  /\ TypeOK
  /\ HandlerInv
  /\ SessionInv
  /\ CreatorInv
  /\ SeatLockInv
  /\ OrderLockInv
  /\ CronInv
  /\ RevokeInv
  /\ TicketInv
  /\ SeatLedger
  /\ FulfilledOnce
  /\ ProcessedIsSettled

-----------------------------------------------------------------------------
(***************************************************************************)
(* Facts about carts and seat rows.                                        *)
(***************************************************************************)
LEMMA CartSeats ==
  ASSUME TypeOK, NEW o \in Orders
  PROVE  /\ Len(cart[o]) \in Nat
         /\ \A i \in 1..Len(cart[o]) : cart[o][i] \in Seats
<1>1. CASE cart[o] = <<>>
  BY <1>1
<1>2. CASE cart[o] \in Carts
  <2>1. cart[o] \in Seq(Seats)
    BY <1>2, CartsAssumption
  <2> QED
    BY <2>1
<1> QED
  BY <1>1, <1>2 DEF TypeOK

\* A seat row is determined by its status and its order.
LEMMA SeatRow ==
  ASSUME TypeOK, NEW s \in Seats
  PROVE  /\ seat[s] = Available <=> seat[s].st = "AVAILABLE"
         /\ \A o \in Orders :
              /\ seat[s] = Held(o) <=> seat[s].st = "HELD" /\ seat[s].order = o
              /\ seat[s] = Sold(o) <=> seat[s].st = "SOLD" /\ seat[s].order = o
BY DEF TypeOK, Available, Held, Sold

\* Most statements change no committed row: what is said of the tables stays.
LEMMA LedgerFrame ==
  ASSUME TicketInv, SeatLedger, FulfilledOnce, UNCHANGED <<tables, cart>>
  PROVE  TicketInv' /\ SeatLedger' /\ FulfilledOnce'
<1>1. TicketInv'
  BY DEF TicketInv, tables
<1>2. SeatLedger'
  BY DEF SeatLedger, tables, Items
<1>3. FulfilledOnce'
  BY DEF FulfilledOnce, tables
<1> QED
  BY <1>1, <1>2, <1>3

-----------------------------------------------------------------------------
(***************************************************************************)
(* createOrder.                                                            *)
(***************************************************************************)
LEMMA ReadTerminStep ==
  ASSUME IInv, NEW o \in Orders, ReadTermin(o)
  PROVE  IInv'
<1>1. TypeOK'
  BY DEF IInv, TypeOK, ReadTermin, Goto, Txs, tables, locks, stripe, locals
<1>2. HandlerInv'
  BY ActorsAssumption
  DEF IInv, HandlerInv, Items, ReadTermin, Goto, Txs, tables, locks, stripe,
      locals
<1>3. SessionInv'
  BY DEF IInv, SessionInv, ReadTermin, tables, stripe
<1>4. CreatorInv'
  BY DEF IInv, CreatorInv, TypeOK, ReadTermin, Goto, tables, locks
<1>5. SeatLockInv'
  BY DEF IInv, SeatLockInv, Items, ReadTermin, Goto, tables, locks, locals
<1>6. OrderLockInv'
  BY DEF IInv, OrderLockInv, ReadTermin, Goto, tables, locks, stripe, locals
<1>7. CronInv'
  BY ActorsAssumption
  DEF IInv, CronInv, HeldSeatsOf, ReadTermin, Goto, Txs, tables, locks, locals
<1>8. RevokeInv'
  BY ActorsAssumption
  DEF IInv, RevokeInv, ReadTermin, Goto, Txs, tables, locals
<1>9. TicketInv'
  BY DEF IInv, TicketInv, ReadTermin, tables
<1>10. SeatLedger'
  BY DEF IInv, SeatLedger, Items, ReadTermin, Goto, tables
<1>11. FulfilledOnce'
  BY DEF IInv, FulfilledOnce, ReadTermin, tables
<1>12. ProcessedIsSettled'
  BY DEF IInv, ProcessedIsSettled, ReadTermin, tables, stripe
<1> QED
  BY <1>1, <1>2, <1>3, <1>4, <1>5, <1>6, <1>7, <1>8, <1>9, <1>10, <1>11, <1>12 DEF IInv

LEMMA ClaimSeatStep ==
  ASSUME IInv, NEW o \in Orders, ClaimSeat(o)
  PROVE  IInv'
<1>1. TypeOK'
  BY DEF IInv, TypeOK, ClaimSeat, LockSeats, NextSeat, SeatsFree, Goto, Txs,
      tables, locks, stripe, locals
<1>2. HandlerInv'
  BY DEF IInv, HandlerInv, Items, ClaimSeat, LockSeats, NextSeat, SeatsFree,
      tables, locks, stripe, locals
<1>3. SessionInv'
  BY DEF IInv, SessionInv, ClaimSeat, LockSeats, NextSeat, SeatsFree, tables,
      stripe
<1>4. CreatorInv'
  <2>1. \A p \in Orders :
           Len(cart[p]) \in Nat /\ \A i \in 1..Len(cart[p]) : cart[p][i] \in Seats
    BY CartSeats DEF IInv
  <2> SUFFICES ASSUME NEW p \in Orders
               PROVE  CreatorInv!(p)'
    BY DEF CreatorInv
  <2>2. /\ pc'[p] \in {"idle", "claim", "done"}
        /\ pc'[p] # "done" => status'[p] = "NONE"
        /\ pc'[p] = "claim" => claimed'[p] <= Len(cart'[p])
    BY <2>1 DEF IInv, TypeOK, CreatorInv, ClaimSeat, tables
  <2>3. ASSUME pc'[p] = "claim", NEW i \in 1..claimed'[p]
        PROVE  seatLock'[cart'[p][i]] = p
    <3>1. CASE p = o /\ i = claimed[o] + 1
      BY <2>1, <3>1 DEF IInv, TypeOK, ClaimSeat, LockSeats, NextSeat
    <3>2. CASE ~(p = o /\ i = claimed[o] + 1)
      <4>1. i \in 1..claimed[p] /\ claimed[p] <= Len(cart[p]) /\ cart[p][i] \in Seats
        BY <2>1, <2>3, <3>2 DEF IInv, TypeOK, CreatorInv, ClaimSeat
      <4>2. seatLock[cart[p][i]] = p
        BY <4>1, <2>3 DEF IInv, CreatorInv, ClaimSeat
      <4> QED
        BY <4>1, <4>2, ActorsAssumption
        DEF ClaimSeat, LockSeats, SeatsFree, Txs
    <3> QED
      BY <3>1, <3>2
  <2> QED
    BY <2>2, <2>3
<1>5. SeatLockInv'
  BY ActorsAssumption
  DEF IInv, SeatLockInv, TypeOK, Items, ClaimSeat, LockSeats, NextSeat,
      SeatsFree, Goto, Txs, tables, locals
<1>6. OrderLockInv'
  BY DEF IInv, OrderLockInv, ClaimSeat, LockSeats, NextSeat, SeatsFree,
      tables, locks, stripe, locals
<1>7. CronInv'
  BY DEF IInv, CronInv, HeldSeatsOf, Available, ClaimSeat, LockSeats,
      NextSeat, SeatsFree, Goto, tables, locals
<1>8. RevokeInv'
  BY DEF IInv, RevokeInv, ClaimSeat, LockSeats, NextSeat, SeatsFree, tables,
      locals
<1>9. TicketInv' /\ SeatLedger' /\ FulfilledOnce'
  BY LedgerFrame DEF IInv, ClaimSeat
<1>10. ProcessedIsSettled'
  BY DEF IInv, ProcessedIsSettled, ClaimSeat, LockSeats, NextSeat, SeatsFree,
      tables, stripe
<1> QED
  BY <1>1, <1>2, <1>3, <1>4, <1>5, <1>6, <1>7, <1>8, <1>9, <1>10 DEF IInv

LEMMA SeatTakenStep ==
  ASSUME IInv, NEW o \in Orders, SeatTaken(o)
  PROVE  IInv'
<1>1. TypeOK'
  BY DEF IInv, TypeOK, SeatTaken, Unlock, Goto, tables, stripe, locals
<1>2. HandlerInv'
  BY DEF IInv, HandlerInv, SessionInv, Items, SeatTaken, Unlock, Goto, tables,
      stripe, locals
<1>3. SessionInv'
  BY DEF IInv, SessionInv, SeatTaken, Unlock, tables, stripe
<1>4. CreatorInv'
  <2>1. \A p \in Orders : \A i \in 1..Len(cart[p]) : cart[p][i] \in Seats
    BY CartSeats DEF IInv
  <2> QED
    BY <2>1, ActorsAssumption
    DEF IInv, TypeOK, CreatorInv, SeatTaken, Unlock, locals, tables, Goto, Txs
<1>5. SeatLockInv'
  BY ActorsAssumption
  DEF IInv, SeatLockInv, Items, SeatTaken, Unlock, Goto, Txs, tables, locals
<1>6. OrderLockInv'
  BY DEF IInv, OrderLockInv, SeatTaken, Unlock, Goto, tables, stripe, locals
<1>7. CronInv'
  BY DEF IInv, CronInv, HeldSeatsOf, SeatTaken, Unlock, Goto, tables, locals
<1>8. RevokeInv'
  BY DEF IInv, RevokeInv, SeatTaken, Unlock, Goto, tables, locals
<1>9. TicketInv' /\ SeatLedger' /\ FulfilledOnce'
  BY LedgerFrame DEF IInv, SeatTaken, locals
<1>10. ProcessedIsSettled'
  BY DEF IInv, ProcessedIsSettled, SeatTaken, Unlock, tables, stripe
<1> QED
  BY <1>1, <1>2, <1>3, <1>4, <1>5, <1>6, <1>7, <1>8, <1>9, <1>10 DEF IInv

LEMMA CommitOrderStep ==
  ASSUME IInv, NEW o \in Orders, CommitOrder(o)
  PROVE  IInv'
<1>1. TypeOK'
  BY ActorsAssumption
  DEF IInv, TypeOK, Statuses, Held, Sold, CommitOrder, Unlock, Goto, Txs,
      tables, stripe, locals
<1>2. HandlerInv'
  BY DEF IInv, HandlerInv, TypeOK, SessionInv, CreatorInv, Items, HeldSeatsOf,
      CommitOrder, Unlock, Goto, Txs, tables, stripe, locals
<1>3. SessionInv'
  BY DEF IInv, SessionInv, CommitOrder, Unlock, Goto, stripe
<1>4. CreatorInv'
  <2>1. \A p \in Orders : \A i \in 1..Len(cart[p]) : cart[p][i] \in Seats
    BY CartSeats DEF IInv
  <2> QED
    BY <2>1, ActorsAssumption
    DEF IInv, TypeOK, CreatorInv, CommitOrder, Unlock, locals, tables, Goto,
        Txs
<1>5. SeatLockInv'
  BY ActorsAssumption
  DEF IInv, SeatLockInv, Items, CommitOrder, Unlock, Goto, Txs, locals
<1>6. OrderLockInv'
  <2>1. status[o] = "NONE" /\ o \in Txs
    BY DEF IInv, CreatorInv, CommitOrder, Txs
  <2> QED
    BY <2>1, ActorsAssumption
    DEF IInv, TypeOK, OrderLockInv, CommitOrder, Unlock, locals, stripe, Goto, Txs
<1>7. CronInv'
  BY DEF IInv, CronInv, CreatorInv, HeldSeatsOf, Held, Sold, Items,
      CommitOrder, Unlock, Goto, tables, stripe, locals
<1>8. RevokeInv'
  BY DEF IInv, RevokeInv, CommitOrder, Unlock, Goto, tables, locals
<1>9. TicketInv'
  BY DEF IInv, TicketInv, CreatorInv, Items, HeldSeatsOf, CommitOrder, Unlock,
      Goto, tables, stripe, locals
<1>10. SeatLedger'
  <2> SUFFICES ASSUME termin = "ON_SALE", NEW p \in Orders, NEW s \in Seats
               PROVE  /\ seat'[s] = Held(p) <=> status'[p] = "PENDING" /\ s \in Items(p)
                      /\ seat'[s] = Sold(p) <=> status'[p] = "PAID" /\ s \in Items(p)
                      /\ tickets'[p][s] =
                           IF status'[p] = "PAID" /\ s \in Items(p) THEN 1 ELSE 0
    BY DEF SeatLedger, Items, CommitOrder, locals
  <2>1. status[o] = "NONE" /\ tickets[o][s] = 0
    BY DEF IInv, CreatorInv, TicketInv, CommitOrder
  <2>2. status' = [status EXCEPT ![o] = "PENDING"] /\ tickets' = tickets
    BY DEF CommitOrder
  <2>3. /\ seat[s] = Held(p) <=> status[p] = "PENDING" /\ s \in Items(p)
        /\ seat[s] = Sold(p) <=> status[p] = "PAID" /\ s \in Items(p)
        /\ tickets[p][s] = IF status[p] = "PAID" /\ s \in Items(p) THEN 1 ELSE 0
    BY DEF IInv, SeatLedger
  <2>4. CASE seatLock[s] = o
    <3>1. s \in Items(o) /\ seat[s] = Available /\ seat'[s] = Held(o)
      BY <2>4 DEF IInv, SeatLockInv, CommitOrder
    <3>2. Available # Held(p) /\ Available # Sold(p) /\ Held(o) # Sold(p)
      BY DEF Available, Held, Sold
    <3>3. Held(o) = Held(p) <=> o = p
      BY DEF Held
    <3> QED
      BY <2>1, <2>2, <2>3, <3>1, <3>2, <3>3 DEF IInv, TypeOK
  <2>5. CASE seatLock[s] # o
    <3>1. s \notin Items(o)
      BY <2>5, CartSeats DEF IInv, CreatorInv, CommitOrder, Items
    <3>2. seat'[s] = seat[s]
      BY <2>5 DEF CommitOrder
    <3> QED
      BY <2>1, <2>2, <2>3, <3>1, <3>2 DEF IInv, TypeOK
  <2> QED
    BY <2>4, <2>5
<1>11. FulfilledOnce'
  BY DEF IInv, FulfilledOnce, CommitOrder, Unlock, tables
<1>12. ProcessedIsSettled'
  BY DEF IInv, ProcessedIsSettled, CreatorInv, Items, HeldSeatsOf,
      CommitOrder, Unlock, Goto, tables, stripe, locals
<1> QED
  BY <1>1, <1>2, <1>3, <1>4, <1>5, <1>6, <1>7, <1>8, <1>9, <1>10, <1>11, <1>12 DEF IInv

-----------------------------------------------------------------------------
(***************************************************************************)
(* Checkout sessions.                                                      *)
(***************************************************************************)
LEMMA InitiateCheckoutStep ==
  ASSUME IInv, NEW o \in Orders, NEW e \in Sessions, InitiateCheckout(o, e)
  PROVE  IInv'
<1>1. TypeOK'
  BY DEF IInv, TypeOK, InitiateCheckout, Goto, tables, locks, stripe, locals
<1>2. HandlerInv'
  BY ActorsAssumption
  DEF IInv, HandlerInv, SessionInv, Items, InitiateCheckout, Goto, Txs,
      tables, locks, stripe, locals
<1>3. SessionInv'
  BY DEF IInv, SessionInv, InitiateCheckout, Goto, tables, stripe
<1>4. CreatorInv'
  BY DEF IInv, CreatorInv, InitiateCheckout, tables, locks, locals
<1>5. SeatLockInv'
  BY DEF IInv, SeatLockInv, Items, InitiateCheckout, tables, locks, locals
<1>6. OrderLockInv'
  BY ActorsAssumption
  DEF IInv, OrderLockInv, InitiateCheckout, Goto, Txs, tables, locks, locals
<1>7. CronInv'
  BY DEF IInv, CronInv, HeldSeatsOf, InitiateCheckout, tables, locks, locals
<1>8. RevokeInv'
  BY DEF IInv, RevokeInv, InitiateCheckout, tables, locals
<1>9. TicketInv' /\ SeatLedger' /\ FulfilledOnce'
  BY LedgerFrame DEF IInv, InitiateCheckout, locals
<1>10. ProcessedIsSettled'
  BY ActorsAssumption
  DEF IInv, ProcessedIsSettled, SessionInv, Items, InitiateCheckout, Goto,
      Txs, tables, locks, stripe, locals
<1> QED
  BY <1>1, <1>2, <1>3, <1>4, <1>5, <1>6, <1>7, <1>8, <1>9, <1>10 DEF IInv

LEMMA CompleteSessionStep ==
  ASSUME IInv, NEW e \in Sessions, CompleteSession(e)
  PROVE  IInv'
<1>1. TypeOK'
  BY DEF IInv, TypeOK, CompleteSession, Goto, tables, locks, stripe, locals
<1>2. HandlerInv'
  BY DEF IInv, HandlerInv, Items, CompleteSession, Goto, tables, locks,
      stripe, locals
<1>3. SessionInv'
  BY DEF IInv, SessionInv, TypeOK, CompleteSession, Goto, tables, stripe
<1>4. CreatorInv'
  BY DEF IInv, CreatorInv, CompleteSession, tables, locks, locals
<1>5. SeatLockInv'
  BY DEF IInv, SeatLockInv, Items, CompleteSession, tables, locks, locals
<1>6. OrderLockInv'
  BY DEF IInv, OrderLockInv, CompleteSession, tables, locks, stripe, locals
<1>7. CronInv'
  BY DEF IInv, CronInv, HeldSeatsOf, CompleteSession, tables, locks, locals
<1>8. RevokeInv'
  BY DEF IInv, RevokeInv, CompleteSession, tables, locals
<1>9. TicketInv' /\ SeatLedger' /\ FulfilledOnce'
  BY LedgerFrame DEF IInv, CompleteSession, locals
<1>10. ProcessedIsSettled'
  BY DEF IInv, ProcessedIsSettled, CompleteSession, tables, stripe
<1> QED
  BY <1>1, <1>2, <1>3, <1>4, <1>5, <1>6, <1>7, <1>8, <1>9, <1>10 DEF IInv

-----------------------------------------------------------------------------
(***************************************************************************)
(* The webhook and fulfillOrder.                                           *)
(***************************************************************************)
LEMMA ReceiveStep ==
  ASSUME IInv, NEW h \in Handlers, NEW e \in Sessions, Receive(h, e)
  PROVE  IInv'
<1>1. TypeOK'
  BY DEF IInv, TypeOK, Receive, Goto, tables, locks, stripe, locals
<1>2. HandlerInv'
  BY DEF IInv, HandlerInv, TypeOK, Items, Statuses, Receive, Goto, tables,
      locks, stripe, locals
<1>3. SessionInv'
  BY DEF IInv, SessionInv, Receive, tables, stripe
<1>4. CreatorInv'
  BY ActorsAssumption
  DEF IInv, CreatorInv, Receive, Goto, Txs, tables, locks, locals
<1>5. SeatLockInv'
  BY DEF IInv, SeatLockInv, Items, Receive, Goto, tables, locks, locals
<1>6. OrderLockInv'
  BY DEF IInv, OrderLockInv, Receive, Goto, tables, locks, stripe
<1>7. CronInv'
  BY ActorsAssumption
  DEF IInv, CronInv, HeldSeatsOf, Receive, Goto, Txs, tables, locks, locals
<1>8. RevokeInv'
  BY ActorsAssumption
  DEF IInv, RevokeInv, Receive, Goto, Txs, tables, locals
<1>9. TicketInv' /\ SeatLedger' /\ FulfilledOnce'
  BY LedgerFrame DEF IInv, Receive
<1>10. ProcessedIsSettled'
  BY DEF IInv, ProcessedIsSettled, Receive, tables, stripe
<1> QED
  BY <1>1, <1>2, <1>3, <1>4, <1>5, <1>6, <1>7, <1>8, <1>9, <1>10 DEF IInv

LEMMA SkipProcessedStep ==
  ASSUME IInv, NEW h \in Handlers, SkipProcessed(h)
  PROVE  IInv'
<1>1. TypeOK'
  BY DEF IInv, TypeOK, SkipProcessed, Answer, Goto, tables, locks, stripe,
      locals
<1>2. HandlerInv'
  BY DEF IInv, HandlerInv, TypeOK, Items, SkipProcessed, Answer, Goto, Txs,
      tables, locks, stripe, locals
<1>3. SessionInv'
  BY DEF IInv, SessionInv, SkipProcessed, Answer, tables, stripe
<1>4. CreatorInv'
  BY DEF IInv, CreatorInv, SkipProcessed, Answer, Goto, tables, locks, locals
<1>5. SeatLockInv'
  BY DEF IInv, SeatLockInv, Items, SkipProcessed, Answer, Goto, tables, locks,
      locals
<1>6. OrderLockInv'
  BY DEF IInv, OrderLockInv, SkipProcessed, Answer, Goto, tables, locks,
      stripe
<1>7. CronInv'
  BY DEF IInv, CronInv, HeldSeatsOf, SkipProcessed, Answer, Goto, tables,
      locks, locals
<1>8. RevokeInv'
  BY DEF IInv, RevokeInv, SkipProcessed, Answer, Goto, tables, locals
<1>9. TicketInv' /\ SeatLedger' /\ FulfilledOnce'
  BY LedgerFrame DEF IInv, SkipProcessed
<1>10. ProcessedIsSettled'
  BY DEF IInv, ProcessedIsSettled, SkipProcessed, Answer, tables, stripe
<1> QED
  BY <1>1, <1>2, <1>3, <1>4, <1>5, <1>6, <1>7, <1>8, <1>9, <1>10 DEF IInv

LEMMA NotProcessedStep ==
  ASSUME IInv, NEW h \in Handlers, NotProcessed(h)
  PROVE  IInv'
<1>1. TypeOK'
  BY DEF IInv, TypeOK, NotProcessed, Goto, tables, locks, stripe, locals
<1>2. HandlerInv'
  BY DEF IInv, HandlerInv, Items, NotProcessed, Goto, tables, locks, stripe,
      locals
<1>3. SessionInv'
  BY DEF IInv, SessionInv, NotProcessed, tables, stripe
<1>4. CreatorInv'
  BY DEF IInv, CreatorInv, NotProcessed, Goto, tables, locks, locals
<1>5. SeatLockInv'
  BY DEF IInv, SeatLockInv, Items, NotProcessed, Goto, tables, locks, locals
<1>6. OrderLockInv'
  BY DEF IInv, OrderLockInv, NotProcessed, Goto, tables, locks, stripe, locals
<1>7. CronInv'
  BY DEF IInv, CronInv, HeldSeatsOf, NotProcessed, Goto, tables, locks, locals
<1>8. RevokeInv'
  BY DEF IInv, RevokeInv, NotProcessed, Goto, tables, locals
<1>9. TicketInv' /\ SeatLedger' /\ FulfilledOnce'
  BY LedgerFrame DEF IInv, NotProcessed, locals
<1>10. ProcessedIsSettled'
  BY DEF IInv, ProcessedIsSettled, NotProcessed, tables, stripe
<1> QED
  BY <1>1, <1>2, <1>3, <1>4, <1>5, <1>6, <1>7, <1>8, <1>9, <1>10 DEF IInv

LEMMA ReadOrderStep ==
  ASSUME IInv, NEW h \in Handlers, ReadOrder(h)
  PROVE  IInv'
<1>1. TypeOK'
  BY DEF IInv, TypeOK, ReadOrder, Goto, tables, locks, stripe, locals
<1>2. HandlerInv'
  <2>1. ASSUME termin = "ON_SALE", status[session[event[h]]] = "PENDING"
        PROVE  held'[h] = Items(session[event[h]])
    <3> DEFINE ord == session[event[h]]
    <3>1. ord \in Orders
      BY DEF IInv, HandlerInv, SessionInv, ReadOrder
    <3>2. \A s \in Seats : seat[s].order = ord <=> s \in Items(ord)
      BY <2>1, <3>1, SeatRow, ActorsAssumption DEF IInv, SeatLedger, TypeOK, Txs
    <3>3. Items(ord) \subseteq Seats
      BY <3>1, CartSeats DEF IInv, Items
    <3> QED
      BY <3>2, <3>3 DEF IInv, TypeOK, ReadOrder
  <2>2. /\ termin' = termin /\ status' = status /\ session' = session
        /\ event' = event /\ cart' = cart /\ completed' = completed
        /\ orderLock' = orderLock
    BY DEF ReadOrder, tables, locks, stripe
  <2>3. /\ \A g \in Handlers \ {h} : pc'[g] = pc[g] /\ held'[g] = held[g]
        /\ pc[h] = "read" /\ pc'[h] = "pay"
    BY DEF IInv, TypeOK, ReadOrder, Goto, Txs
  <2> QED
    BY <2>1, <2>2, <2>3 DEF IInv, HandlerInv, Items
<1>3. SessionInv'
  BY DEF IInv, SessionInv, ReadOrder, tables, stripe
<1>4. CreatorInv'
  BY DEF IInv, CreatorInv, ReadOrder, Goto, tables, locks, locals
<1>5. SeatLockInv'
  BY DEF IInv, SeatLockInv, Items, ReadOrder, Goto, tables, locks, locals
<1>6. OrderLockInv'
  BY DEF IInv, OrderLockInv, ReadOrder, Goto, tables, locks, stripe, locals
<1>7. CronInv'
  BY DEF IInv, CronInv, HeldSeatsOf, ReadOrder, Goto, tables, locks, locals
<1>8. RevokeInv'
  BY DEF IInv, RevokeInv, ReadOrder, Goto, tables, locals
<1>9. TicketInv' /\ SeatLedger' /\ FulfilledOnce'
  BY LedgerFrame DEF IInv, ReadOrder
<1>10. ProcessedIsSettled'
  BY DEF IInv, ProcessedIsSettled, ReadOrder, tables, stripe
<1> QED
  BY <1>1, <1>2, <1>3, <1>4, <1>5, <1>6, <1>7, <1>8, <1>9, <1>10 DEF IInv

LEMMA PayOrderStep ==
  ASSUME IInv, NEW h \in Handlers, PayOrder(h)
  PROVE  IInv'
<1>1. TypeOK'
  BY DEF IInv, TypeOK, PayOrder, LockOrders, OrdersFree, Goto, Txs, tables,
      locks, stripe, locals
<1>2. HandlerInv'
  BY ActorsAssumption
  DEF IInv, HandlerInv, SessionInv, Items, PayOrder, LockOrders, OrdersFree,
      Goto, Txs, tables, stripe, locals
<1>3. SessionInv'
  BY DEF IInv, SessionInv, PayOrder, LockOrders, OrdersFree, tables, stripe
<1>4. CreatorInv'
  BY DEF IInv, CreatorInv, PayOrder, LockOrders, OrdersFree, Goto, tables,
      locks, locals
<1>5. SeatLockInv'
  BY DEF IInv, SeatLockInv, Items, PayOrder, LockOrders, OrdersFree, Goto,
      tables, locks, locals
<1>6. OrderLockInv'
  BY ActorsAssumption
  DEF IInv, OrderLockInv, TypeOK, PayOrder, LockOrders, OrdersFree, Goto, Txs,
      tables, stripe, locals
<1>7. CronInv'
  BY DEF IInv, CronInv, HeldSeatsOf, PayOrder, LockOrders, OrdersFree, Goto,
      tables, locks, locals
<1>8. RevokeInv'
  BY DEF IInv, RevokeInv, PayOrder, LockOrders, OrdersFree, Goto, tables,
      locals
<1>9. TicketInv' /\ SeatLedger' /\ FulfilledOnce'
  BY LedgerFrame DEF IInv, PayOrder, locals
<1>10. ProcessedIsSettled'
  BY DEF IInv, ProcessedIsSettled, PayOrder, LockOrders, OrdersFree, tables,
      stripe
<1> QED
  BY <1>1, <1>2, <1>3, <1>4, <1>5, <1>6, <1>7, <1>8, <1>9, <1>10 DEF IInv

LEMMA NoLongerPendingStep ==
  ASSUME IInv, NEW h \in Handlers, NoLongerPending(h)
  PROVE  IInv'
<1>1. TypeOK'
  BY DEF IInv, TypeOK, NoLongerPending, Goto, tables, locks, stripe, locals
<1>2. HandlerInv'
  BY DEF IInv, HandlerInv, TypeOK, SessionInv, Items, NoLongerPending, Goto,
      tables, locks, stripe, locals
<1>3. SessionInv'
  BY DEF IInv, SessionInv, NoLongerPending, tables, stripe
<1>4. CreatorInv'
  BY DEF IInv, CreatorInv, NoLongerPending, Goto, tables, locks, locals
<1>5. SeatLockInv'
  BY DEF IInv, SeatLockInv, Items, NoLongerPending, Goto, tables, locks,
      locals
<1>6. OrderLockInv'
  BY DEF IInv, OrderLockInv, NoLongerPending, Goto, tables, locks, stripe,
      locals
<1>7. CronInv'
  BY DEF IInv, CronInv, HeldSeatsOf, NoLongerPending, Goto, tables, locks,
      locals
<1>8. RevokeInv'
  BY DEF IInv, RevokeInv, NoLongerPending, Goto, tables, locals
<1>9. TicketInv' /\ SeatLedger' /\ FulfilledOnce'
  BY LedgerFrame DEF IInv, NoLongerPending, locals
<1>10. ProcessedIsSettled'
  BY DEF IInv, ProcessedIsSettled, NoLongerPending, tables, stripe
<1> QED
  BY <1>1, <1>2, <1>3, <1>4, <1>5, <1>6, <1>7, <1>8, <1>9, <1>10 DEF IInv

LEMMA SellSeatsStep ==
  ASSUME IInv, NEW h \in Handlers, SellSeats(h)
  PROVE  IInv'
<1>1. TypeOK'
  BY DEF IInv, TypeOK, HandlerInv, SessionInv, Statuses, Held, Sold, Items,
      HeldSeatsOf, SellSeats, Unlock, SeatsFree, Goto, Txs, tables, stripe,
      locals
<1>2. HandlerInv'
  BY DEF IInv, HandlerInv, TypeOK, SessionInv, Items, SellSeats, Unlock,
      SeatsFree, HeldSeatsOf, Goto, tables, stripe, locals
<1>3. SessionInv'
  BY DEF IInv, SessionInv, SellSeats, Unlock, SeatsFree, HeldSeatsOf, Goto,
      stripe
<1>4. CreatorInv'
  <2>1. \A p \in Orders :
           Len(cart[p]) \in Nat /\ \A i \in 1..Len(cart[p]) : cart[p][i] \in Seats
    BY CartSeats DEF IInv
  <2> DEFINE ord == session[event[h]]
  <2>2. ord \in Orders /\ pc[ord] = "done"
    <3>1. ord \in Orders /\ orderLock[ord] = h
      BY DEF IInv, HandlerInv, SessionInv, SellSeats
    <3> QED
      BY <3>1 DEF IInv, OrderLockInv, CreatorInv
  <2>3. \A p \in Orders : pc'[p] = pc[p]
    BY ActorsAssumption DEF IInv, TypeOK, SellSeats, Goto, Txs
  <2>4. \A p \in Orders \ {ord} : status'[p] = status[p]
    BY DEF IInv, TypeOK, SellSeats
  <2>5. \A s \in Seats : seatLock[s] \in Orders => seatLock'[s] = seatLock[s]
    BY ActorsAssumption DEF SellSeats, Unlock
  <2>6. cart' = cart /\ claimed' = claimed
    BY DEF SellSeats, locals
  <2>7. \A p \in Orders : pc'[p] # "done" => status'[p] = status[p]
    BY <2>2, <2>3, <2>4
  <2>8. ASSUME NEW p \in Orders, pc[p] = "claim", NEW i \in 1..claimed[p]
        PROVE  seatLock'[cart[p][i]] = p
    BY <2>1, <2>5, <2>8 DEF IInv, TypeOK, CreatorInv
  <2> SUFFICES ASSUME NEW p \in Orders
               PROVE  CreatorInv!(p)'
    BY DEF CreatorInv
  <2>9. CreatorInv!(p)
    BY DEF IInv, CreatorInv
  <2> QED
    BY <2>3, <2>6, <2>7, <2>8, <2>9
<1>5. SeatLockInv'
  BY ActorsAssumption
  DEF IInv, SeatLockInv, Items, SellSeats, Unlock, SeatsFree, HeldSeatsOf,
      Goto, Txs, locals
<1>6. OrderLockInv'
  BY ActorsAssumption
  DEF IInv, OrderLockInv, HandlerInv, Items, SellSeats, Unlock, SeatsFree,
      HeldSeatsOf, Goto, Txs, tables, stripe, locals
<1>7. CronInv'
  BY DEF IInv, CronInv, HeldSeatsOf, Held, Sold, SellSeats, Unlock, SeatsFree,
      Goto, locals
<1>8. RevokeInv'
  BY DEF IInv, RevokeInv, TypeOK, SellSeats, Unlock, SeatsFree, HeldSeatsOf,
      Goto, locals
<1>9. TicketInv'
  BY DEF IInv, TicketInv, TypeOK, SellSeats, Unlock, SeatsFree, HeldSeatsOf,
      Goto
<1>10. SeatLedger'
  <2> DEFINE ord == session[event[h]]
  <2>0. termin' = termin /\ cart' = cart
    BY DEF SellSeats, locals
  <2> SUFFICES ASSUME termin = "ON_SALE", NEW p \in Orders, NEW s \in Seats
               PROVE  /\ seat'[s] = Held(p) <=> status'[p] = "PENDING" /\ s \in Items(p)
                      /\ seat'[s] = Sold(p) <=> status'[p] = "PAID" /\ s \in Items(p)
                      /\ tickets'[p][s] =
                           IF status'[p] = "PAID" /\ s \in Items(p) THEN 1 ELSE 0
    BY <2>0 DEF SeatLedger, Items
  <2>1. ord \in Orders /\ status[ord] = "PENDING" /\ held[h] = Items(ord)
    <3>1. pc[h] = "sell"
      BY DEF SellSeats
    <3>2. ord \in Orders /\ orderLock[ord] = h
      BY <3>1 DEF IInv, HandlerInv, SessionInv
    <3>3. status[ord] = "PENDING"
      BY <3>2 DEF IInv, OrderLockInv
    <3> QED
      BY <3>1, <3>2, <3>3 DEF IInv, HandlerInv
  <2>2. /\ seat[s] = Held(p) <=> status[p] = "PENDING" /\ s \in Items(p)
        /\ seat[s] = Sold(p) <=> status[p] = "PAID" /\ s \in Items(p)
        /\ tickets[p][s] = IF status[p] = "PAID" /\ s \in Items(p) THEN 1 ELSE 0
    BY DEF IInv, SeatLedger
  <2>3. seat[s] = Held(ord) <=> s \in Items(ord)
    BY <2>1 DEF IInv, SeatLedger
  <2>4. seat'[s] = IF s \in Items(ord) THEN Sold(ord) ELSE seat[s]
    BY <2>1, <2>3, SeatRow DEF IInv, SellSeats, HeldSeatsOf
  <2>5. status'[p] = IF p = ord THEN "PAID" ELSE status[p]
    BY DEF IInv, TypeOK, SellSeats
  <2>6. tickets'[p][s] = IF p = ord /\ s \in Items(ord) THEN tickets[p][s] + 1
                                                   ELSE tickets[p][s]
    BY <2>1 DEF IInv, TypeOK, SellSeats
  <2>7. \A q, r \in Orders : Held(q) # Sold(r) /\ (Held(q) = Held(r) <=> q = r)
                                            /\ (Sold(q) = Sold(r) <=> q = r)
    BY DEF Held, Sold
  <2>8. CASE p = ord
    BY <2>1, <2>2, <2>3, <2>4, <2>5, <2>6, <2>7, <2>8
  <2>9. CASE p # ord
    BY <2>1, <2>2, <2>3, <2>4, <2>5, <2>6, <2>7, <2>9
  <2> QED
    BY <2>8, <2>9
<1>11. FulfilledOnce'
  BY DEF IInv, FulfilledOnce, HandlerInv, OrderLockInv, TicketInv, Items,
      HeldSeatsOf, SellSeats, Unlock, SeatsFree, Goto, tables, stripe, locals
<1>12. ProcessedIsSettled'
  BY DEF IInv, ProcessedIsSettled, SellSeats, Unlock, SeatsFree, HeldSeatsOf,
      Goto, stripe
<1> QED
  BY <1>1, <1>2, <1>3, <1>4, <1>5, <1>6, <1>7, <1>8, <1>9, <1>10, <1>11, <1>12 DEF IInv

LEMMA MarkProcessedStep ==
  ASSUME IInv, NEW h \in Handlers, MarkProcessed(h)
  PROVE  IInv'
<1>1. TypeOK'
  BY DEF IInv, TypeOK, HandlerInv, Items, MarkProcessed, Answer, Goto, tables,
      locks, stripe, locals
<1>2. HandlerInv'
  BY DEF IInv, HandlerInv, TypeOK, Items, MarkProcessed, Answer, Goto, Txs,
      tables, locks, stripe, locals
<1>3. SessionInv'
  BY DEF IInv, SessionInv, HandlerInv, Items, HeldSeatsOf, MarkProcessed,
      Answer, Goto, tables, locks, stripe, locals
<1>4. CreatorInv'
  BY DEF IInv, CreatorInv, MarkProcessed, Answer, Goto, tables, locks, locals
<1>5. SeatLockInv'
  BY DEF IInv, SeatLockInv, Items, MarkProcessed, Answer, Goto, tables, locks,
      locals
<1>6. OrderLockInv'
  BY DEF IInv, OrderLockInv, MarkProcessed, Answer, Goto, tables, locks,
      stripe
<1>7. CronInv'
  BY DEF IInv, CronInv, HeldSeatsOf, MarkProcessed, Answer, Goto, tables,
      locks, locals
<1>8. RevokeInv'
  BY DEF IInv, RevokeInv, MarkProcessed, Answer, Goto, tables, locals
<1>9. TicketInv' /\ SeatLedger' /\ FulfilledOnce'
  BY LedgerFrame DEF IInv, MarkProcessed
<1>10. ProcessedIsSettled'
  BY DEF IInv, ProcessedIsSettled, HandlerInv, Items, MarkProcessed, Answer,
      Goto, tables, locks, stripe, locals
<1> QED
  BY <1>1, <1>2, <1>3, <1>4, <1>5, <1>6, <1>7, <1>8, <1>9, <1>10 DEF IInv

-----------------------------------------------------------------------------
(***************************************************************************)
(* Time.                                                                   *)
(***************************************************************************)
LEMMA ExpireStep ==
  ASSUME IInv, NEW o \in Orders, Expire(o)
  PROVE  IInv'
<1>1. TypeOK'
  BY DEF IInv, TypeOK, Expire, Goto, tables, locks, stripe, locals
<1>2. HandlerInv'
  BY DEF IInv, HandlerInv, Items, Expire, tables, locks, stripe, locals
<1>3. SessionInv'
  BY DEF IInv, SessionInv, Expire, tables, stripe
<1>4. CreatorInv'
  BY DEF IInv, CreatorInv, Expire, tables, locks, locals
<1>5. SeatLockInv'
  BY DEF IInv, SeatLockInv, Items, Expire, tables, locks, locals
<1>6. OrderLockInv'
  BY DEF IInv, OrderLockInv, Expire, tables, locks, stripe, locals
<1>7. CronInv'
  BY DEF IInv, CronInv, HeldSeatsOf, Expire, tables, locks, locals
<1>8. RevokeInv'
  BY DEF IInv, RevokeInv, Expire, tables, locals
<1>9. TicketInv' /\ SeatLedger' /\ FulfilledOnce'
  BY LedgerFrame DEF IInv, Expire, locals
<1>10. ProcessedIsSettled'
  BY DEF IInv, ProcessedIsSettled, Expire, tables, stripe
<1> QED
  BY <1>1, <1>2, <1>3, <1>4, <1>5, <1>6, <1>7, <1>8, <1>9, <1>10 DEF IInv

-----------------------------------------------------------------------------
(***************************************************************************)
(* expirePendingOrders.                                                    *)
(***************************************************************************)
LEMMA FindExpiringStep ==
  ASSUME IInv, FindExpiring
  PROVE  IInv'
<1>1. TypeOK'
  BY DEF IInv, TypeOK, FindExpiring, PendingOf, Goto, tables, locks, stripe,
      locals
<1>2. HandlerInv'
  BY ActorsAssumption
  DEF IInv, HandlerInv, Items, FindExpiring, PendingOf, Goto, Txs, tables,
      locks, stripe, locals
<1>3. SessionInv'
  BY DEF IInv, SessionInv, FindExpiring, PendingOf, tables, stripe
<1>4. CreatorInv'
  BY ActorsAssumption
  DEF IInv, CreatorInv, FindExpiring, PendingOf, Goto, Txs, tables, locks,
      locals
<1>5. SeatLockInv'
  BY DEF IInv, SeatLockInv, Items, FindExpiring, PendingOf, Goto, tables,
      locks, locals
<1>6. OrderLockInv'
  BY DEF IInv, OrderLockInv, FindExpiring, PendingOf, Goto, tables, locks,
      stripe, locals
<1>7. CronInv'
  BY DEF IInv, CronInv, HeldSeatsOf, FindExpiring, PendingOf, Goto, tables,
      locks
<1>8. RevokeInv'
  BY DEF IInv, RevokeInv, FindExpiring, PendingOf, Goto, tables, locals
<1>9. TicketInv' /\ SeatLedger' /\ FulfilledOnce'
  BY LedgerFrame DEF IInv, FindExpiring
<1>10. ProcessedIsSettled'
  BY DEF IInv, ProcessedIsSettled, FindExpiring, PendingOf, tables, stripe
<1> QED
  BY <1>1, <1>2, <1>3, <1>4, <1>5, <1>6, <1>7, <1>8, <1>9, <1>10 DEF IInv

LEMMA ReleaseExpiringStep ==
  ASSUME IInv, ReleaseExpiring
  PROVE  IInv'
<1>1. TypeOK'
  BY DEF IInv, TypeOK, ReleaseExpiring, HeldSeatsOf, LockSeats, SeatsFree,
      Goto, Txs, tables, locks, stripe, locals
<1>2. HandlerInv'
  BY DEF IInv, HandlerInv, Items, ReleaseExpiring, HeldSeatsOf, LockSeats,
      SeatsFree, Goto, tables, locks, stripe, locals
<1>3. SessionInv'
  BY DEF IInv, SessionInv, ReleaseExpiring, HeldSeatsOf, LockSeats, SeatsFree,
      tables, stripe
<1>4. CreatorInv'
  <2>1. \A p \in Orders : \A i \in 1..Len(cart[p]) : cart[p][i] \in Seats
    BY CartSeats DEF IInv
  <2> QED
    BY <2>1, ActorsAssumption
    DEF IInv, TypeOK, CreatorInv, ReleaseExpiring, LockSeats, SeatsFree,
        locals, tables, Goto, Txs
<1>5. SeatLockInv'
  BY ActorsAssumption
  DEF IInv, SeatLockInv, TypeOK, Items, ReleaseExpiring, HeldSeatsOf,
      LockSeats, SeatsFree, Goto, Txs, tables, locals
<1>6. OrderLockInv'
  BY DEF IInv, OrderLockInv, ReleaseExpiring, HeldSeatsOf, LockSeats,
      SeatsFree, Goto, tables, locks, stripe, locals
<1>7. CronInv'
  BY DEF IInv, CronInv, HeldSeatsOf, ReleaseExpiring, LockSeats, SeatsFree,
      Goto, tables, locals
<1>8. RevokeInv'
  BY ActorsAssumption
  DEF IInv, RevokeInv, ReleaseExpiring, HeldSeatsOf, LockSeats, SeatsFree,
      Goto, Txs, tables, locals
<1>9. TicketInv' /\ SeatLedger' /\ FulfilledOnce'
  BY LedgerFrame DEF IInv, ReleaseExpiring, locals
<1>10. ProcessedIsSettled'
  BY DEF IInv, ProcessedIsSettled, ReleaseExpiring, HeldSeatsOf, LockSeats,
      SeatsFree, tables, stripe
<1> QED
  BY <1>1, <1>2, <1>3, <1>4, <1>5, <1>6, <1>7, <1>8, <1>9, <1>10 DEF IInv

LEMMA CancelExpiringStep ==
  ASSUME IInv, CancelExpiring
  PROVE  IInv'
<1>1. TypeOK'
  BY DEF IInv, TypeOK, Statuses, Available, CancelExpiring, OrdersFree,
      PendingOf, Unlock, Goto, tables, stripe, locals
<1>2. HandlerInv'
  BY DEF IInv, HandlerInv, SessionInv, Items, CancelExpiring, OrdersFree,
      PendingOf, Unlock, Goto, tables, stripe, locals
<1>3. SessionInv'
  BY DEF IInv, SessionInv, CancelExpiring, OrdersFree, PendingOf, Unlock,
      Goto, stripe
<1>4. CreatorInv'
  <2>1. \A p \in Orders : \A i \in 1..Len(cart[p]) : cart[p][i] \in Seats
    BY CartSeats DEF IInv
  <2> QED
    BY <2>1, ActorsAssumption
    DEF IInv, TypeOK, CreatorInv, CancelExpiring, Unlock, PendingOf, locals,
        tables, Goto, Txs
<1>5. SeatLockInv'
  BY ActorsAssumption
  DEF IInv, SeatLockInv, Items, CancelExpiring, OrdersFree, PendingOf, Unlock,
      Goto, Txs, locals
<1>6. OrderLockInv'
  BY ActorsAssumption
  DEF IInv, OrderLockInv, CancelExpiring, OrdersFree, PendingOf, Unlock, Goto,
      Txs, stripe, locals
<1>7. CronInv'
  BY DEF IInv, CronInv, HeldSeatsOf, CancelExpiring, OrdersFree, PendingOf,
      Unlock, Goto
<1>8. RevokeInv'
  BY DEF IInv, RevokeInv, CancelExpiring, OrdersFree, PendingOf, Unlock, Goto,
      tables, locals
<1>9. TicketInv'
  BY DEF IInv, TicketInv, CancelExpiring, OrdersFree, PendingOf, Unlock, Goto,
      tables
<1>10. SeatLedger'
  BY DEF IInv, SeatLedger, TypeOK, SeatLockInv, CronInv, Items, Held, Sold,
      Available, HeldSeatsOf, CancelExpiring, OrdersFree, PendingOf, Unlock,
      Goto, tables, locals
<1>11. FulfilledOnce'
  BY DEF IInv, FulfilledOnce, CancelExpiring, OrdersFree, PendingOf, Unlock,
      tables
<1>12. ProcessedIsSettled'
  BY DEF IInv, ProcessedIsSettled, SessionInv, Items, CancelExpiring,
      OrdersFree, PendingOf, Unlock, Goto, tables, stripe, locals
<1> QED
  BY <1>1, <1>2, <1>3, <1>4, <1>5, <1>6, <1>7, <1>8, <1>9, <1>10, <1>11, <1>12 DEF IInv

-----------------------------------------------------------------------------
(***************************************************************************)
(* cancelOccurrence.                                                       *)
(***************************************************************************)
LEMMA CheckNotCancelledStep ==
  ASSUME IInv, CheckNotCancelled
  PROVE  IInv'
<1>1. TypeOK'
  BY DEF IInv, TypeOK, CheckNotCancelled, Goto, tables, locks, stripe, locals
<1>2. HandlerInv'
  BY ActorsAssumption
  DEF IInv, HandlerInv, Items, CheckNotCancelled, Goto, Txs, tables, locks,
      stripe, locals
<1>3. SessionInv'
  BY DEF IInv, SessionInv, CheckNotCancelled, tables, stripe
<1>4. CreatorInv'
  BY ActorsAssumption
  DEF IInv, CreatorInv, CheckNotCancelled, Goto, Txs, tables, locks, locals
<1>5. SeatLockInv'
  BY DEF IInv, SeatLockInv, Items, CheckNotCancelled, Goto, tables, locks,
      locals
<1>6. OrderLockInv'
  BY DEF IInv, OrderLockInv, CheckNotCancelled, Goto, tables, locks, stripe,
      locals
<1>7. CronInv'
  BY ActorsAssumption
  DEF IInv, CronInv, HeldSeatsOf, CheckNotCancelled, Goto, Txs, tables, locks,
      locals
<1>8. RevokeInv'
  BY DEF IInv, RevokeInv, CheckNotCancelled, Goto, tables, locals
<1>9. TicketInv' /\ SeatLedger' /\ FulfilledOnce'
  BY LedgerFrame DEF IInv, CheckNotCancelled, locals
<1>10. ProcessedIsSettled'
  BY DEF IInv, ProcessedIsSettled, CheckNotCancelled, tables, stripe
<1> QED
  BY <1>1, <1>2, <1>3, <1>4, <1>5, <1>6, <1>7, <1>8, <1>9, <1>10 DEF IInv

LEMMA RevokeTicketsStep ==
  ASSUME IInv, RevokeTickets
  PROVE  IInv'
<1>1. TypeOK'
  BY DEF IInv, TypeOK, RevokeTickets, Goto, tables, locks, stripe, locals
<1>2. HandlerInv'
  BY DEF IInv, HandlerInv, Items, RevokeTickets, Goto, tables, locks, stripe,
      locals
<1>3. SessionInv'
  BY DEF IInv, SessionInv, RevokeTickets, tables, stripe
<1>4. CreatorInv'
  BY DEF IInv, CreatorInv, RevokeTickets, Goto, tables, locks, locals
<1>5. SeatLockInv'
  BY DEF IInv, SeatLockInv, Items, RevokeTickets, Goto, tables, locks, locals
<1>6. OrderLockInv'
  BY DEF IInv, OrderLockInv, RevokeTickets, Goto, tables, locks, stripe,
      locals
<1>7. CronInv'
  BY DEF IInv, CronInv, HeldSeatsOf, RevokeTickets, Goto, tables, locks,
      locals
<1>8. RevokeInv'
  BY DEF IInv, RevokeInv, TypeOK, RevokeTickets, Goto, tables
<1>9. TicketInv' /\ SeatLedger' /\ FulfilledOnce'
  BY LedgerFrame DEF IInv, RevokeTickets
<1>10. ProcessedIsSettled'
  BY DEF IInv, ProcessedIsSettled, RevokeTickets, tables, stripe
<1> QED
  BY <1>1, <1>2, <1>3, <1>4, <1>5, <1>6, <1>7, <1>8, <1>9, <1>10 DEF IInv

LEMMA FreeSeatsStep ==
  ASSUME IInv, FreeSeats
  PROVE  IInv'
<1>1. TypeOK'
  BY DEF IInv, TypeOK, FreeSeats, SeatsFree, TakenSeats, LockSeats, Goto, Txs,
      tables, locks, stripe, locals
<1>2. HandlerInv'
  BY ActorsAssumption
  DEF IInv, HandlerInv, Items, FreeSeats, Goto, tables, locks, stripe, locals,
      Txs, TypeOK
<1>3. SessionInv'
  BY DEF IInv, SessionInv, FreeSeats, SeatsFree, TakenSeats, LockSeats,
      tables, stripe
<1>4. CreatorInv'
  <2>1. \A p \in Orders : \A i \in 1..Len(cart[p]) : cart[p][i] \in Seats
    BY CartSeats DEF IInv
  <2> QED
    BY <2>1, ActorsAssumption
    DEF IInv, TypeOK, CreatorInv, FreeSeats, LockSeats, SeatsFree, locals,
        tables, Goto, Txs
<1>5. SeatLockInv'
  BY ActorsAssumption
  DEF IInv, SeatLockInv, TypeOK, Items, FreeSeats, SeatsFree, TakenSeats,
      LockSeats, Goto, Txs, tables, locals
<1>6. OrderLockInv'
  BY DEF IInv, OrderLockInv, FreeSeats, SeatsFree, TakenSeats, LockSeats,
      Goto, tables, locks, stripe, locals
<1>7. CronInv'
  BY ActorsAssumption
  DEF IInv, CronInv, HeldSeatsOf, FreeSeats, SeatsFree, TakenSeats, LockSeats,
      Goto, Txs, tables, locals
<1>8. RevokeInv'
  BY DEF IInv, RevokeInv, FreeSeats, SeatsFree, TakenSeats, LockSeats, Goto,
      tables, locals
<1>9. TicketInv' /\ SeatLedger' /\ FulfilledOnce'
  BY LedgerFrame DEF IInv, FreeSeats, locals
<1>10. ProcessedIsSettled'
  BY DEF IInv, ProcessedIsSettled, FreeSeats, SeatsFree, TakenSeats,
      LockSeats, tables, stripe
<1> QED
  BY <1>1, <1>2, <1>3, <1>4, <1>5, <1>6, <1>7, <1>8, <1>9, <1>10 DEF IInv

LEMMA RefundPaidStep ==
  ASSUME IInv, RefundPaid
  PROVE  IInv'
<1>1. TypeOK'
  BY DEF IInv, TypeOK, RefundPaid, PaidOrders, OrdersFree, LockOrders, Goto,
      Txs, tables, locks, stripe, locals
<1>2. HandlerInv'
  BY ActorsAssumption
  DEF IInv, HandlerInv, SessionInv, Items, RefundPaid, PaidOrders, OrdersFree,
      LockOrders, Goto, Txs, tables, stripe, locals
<1>3. SessionInv'
  BY DEF IInv, SessionInv, RefundPaid, PaidOrders, OrdersFree, LockOrders,
      tables, stripe
<1>4. CreatorInv'
  BY DEF IInv, CreatorInv, RefundPaid, PaidOrders, OrdersFree, LockOrders,
      Goto, tables, locks, locals
<1>5. SeatLockInv'
  BY DEF IInv, SeatLockInv, Items, RefundPaid, PaidOrders, OrdersFree,
      LockOrders, Goto, tables, locks, locals
<1>6. OrderLockInv'
  BY ActorsAssumption
  DEF IInv, OrderLockInv, TypeOK, RefundPaid, PaidOrders, OrdersFree,
      LockOrders, Goto, Txs, tables, stripe, locals
<1>7. CronInv'
  BY DEF IInv, CronInv, HeldSeatsOf, RefundPaid, PaidOrders, OrdersFree,
      LockOrders, Goto, tables, locks, locals
<1>8. RevokeInv'
  BY DEF IInv, RevokeInv, RefundPaid, PaidOrders, OrdersFree, LockOrders,
      Goto, tables, locals
<1>9. TicketInv' /\ SeatLedger' /\ FulfilledOnce'
  BY LedgerFrame DEF IInv, RefundPaid, locals
<1>10. ProcessedIsSettled'
  BY DEF IInv, ProcessedIsSettled, RefundPaid, PaidOrders, OrdersFree,
      LockOrders, tables, stripe
<1> QED
  BY <1>1, <1>2, <1>3, <1>4, <1>5, <1>6, <1>7, <1>8, <1>9, <1>10 DEF IInv

LEMMA CancelPendingStep ==
  ASSUME IInv, CancelPending
  PROVE  IInv'
<1>1. TypeOK'
  BY DEF IInv, TypeOK, RevokeInv, Statuses, Available, NoTickets, Items,
      CancelPending, PendingOf, OrdersFree, Unlock, Goto, Txs, stripe, locals
<1>2. HandlerInv'
  BY DEF IInv, HandlerInv, SessionInv, Items, CancelPending, PendingOf,
      OrdersFree, Unlock, Goto, stripe, locals
<1>3. SessionInv'
  BY DEF IInv, SessionInv, CancelPending, PendingOf, OrdersFree, Unlock, Goto,
      stripe
<1>4. CreatorInv'
  <2>1. \A p \in Orders : \A i \in 1..Len(cart[p]) : cart[p][i] \in Seats
    BY CartSeats DEF IInv
  <2> QED
    BY <2>1, ActorsAssumption
    DEF IInv, TypeOK, CreatorInv, CancelPending, Unlock, OrderLockInv,
        PendingOf, locals, tables, Goto, Txs
<1>5. SeatLockInv'
  <2>1. \A s \in Seats : seatLock'[s] = IF seatLock[s] = Organizer THEN Nobody
                                                                  ELSE seatLock[s]
    BY DEF CancelPending, Unlock
  <2>2. \A s \in Seats : seatLock[s] # Organizer => seat'[s] = seat[s]
    BY DEF CancelPending
  <2>3. \A t \in Orders \cup {Cron} : pc'[t] = pc[t]
    BY ActorsAssumption DEF IInv, TypeOK, CancelPending, Goto, Txs
  <2>4. cart' = cart /\ expiring' = expiring
    BY DEF CancelPending
  <2> QED
    BY <2>1, <2>2, <2>3, <2>4, ActorsAssumption
    DEF IInv, SeatLockInv, Items, Txs
<1>6. OrderLockInv'
  BY ActorsAssumption
  DEF IInv, OrderLockInv, CancelPending, PendingOf, OrdersFree, Unlock, Goto,
      Txs, stripe, locals
<1>7. CronInv'
  BY DEF IInv, CronInv, TypeOK, HeldSeatsOf, Available, CancelPending,
      PendingOf, OrdersFree, Unlock, Goto, locals
<1>8. RevokeInv'
  BY DEF IInv, RevokeInv, TypeOK, NoTickets, CancelPending, PendingOf,
      OrdersFree, Unlock, Goto
<1>9. TicketInv'
  BY DEF IInv, TicketInv, TypeOK, RevokeInv, HeldSeatsOf, CancelPending,
      PendingOf, OrdersFree, Unlock, Goto, stripe, locals
<1>10. SeatLedger'
  BY DEF IInv, SeatLedger, Items, CancelPending, PendingOf, OrdersFree,
      Unlock, Goto, locals
<1>11. FulfilledOnce'
  BY DEF IInv, FulfilledOnce, TypeOK, CancelPending, PendingOf, OrdersFree,
      Unlock, Goto
<1>12. ProcessedIsSettled'
  BY DEF IInv, ProcessedIsSettled, SessionInv, Items, CancelPending,
      PendingOf, OrdersFree, Unlock, Goto, stripe, locals
<1> QED
  BY <1>1, <1>2, <1>3, <1>4, <1>5, <1>6, <1>7, <1>8, <1>9, <1>10, <1>11, <1>12 DEF IInv

-----------------------------------------------------------------------------
(***************************************************************************)
(* Failures.                                                               *)
(***************************************************************************)
LEMMA RollbackStep ==
  ASSUME IInv, NEW t \in Txs, Rollback(t), faults' \in 0..MaxFaults
  PROVE  IInv'
<1>1. TypeOK'
  <2>1. pc' \in [Txs -> {"idle", "claim", "done", "check", "read", "pay", "sell",
                     "mark", "seats", "orders", "tickets", "paid", "pending"}]
    BY DEF IInv, TypeOK, Rollback, Goto
  <2>2. /\ orderLock' \in [Orders -> Txs \cup {Nobody}]
        /\ seatLock' \in [Seats -> Txs \cup {Nobody}]
    BY DEF IInv, TypeOK, Rollback, Unlock
  <2>3. /\ event' \in [Handlers -> Sessions \cup {Nobody}]
        /\ held' \in [Handlers -> SUBSET Seats]
    <3>1. CASE t \in Handlers
      BY <3>1 DEF IInv, TypeOK, Rollback
    <3>2. CASE t \notin Handlers
      BY <3>2 DEF IInv, TypeOK, Rollback
    <3> QED
      BY <3>1, <3>2
  <2>4. expiring' \subseteq Orders /\ revoked' \in [Orders -> [Seats -> Nat]]
    BY DEF IInv, TypeOK, Rollback, NoTickets
  <2>5. UNCHANGED <<tables, cart, claimed, expired, stripe, processed>>
    BY DEF Rollback
  <2> QED
    BY <2>1, <2>2, <2>3, <2>4, <2>5 DEF IInv, TypeOK, tables, stripe
<1>2. HandlerInv'
  <2>1. /\ termin' = termin /\ status' = status /\ session' = session
        /\ cart' = cart /\ completed' = completed
    BY DEF Rollback, tables, stripe
  <2> SUFFICES ASSUME NEW h \in Handlers
               PROVE  HandlerInv!(h)'
    BY DEF HandlerInv
  <2>2. CASE t = h
    <3>1. pc'[h] = "idle"
      BY <2>2, ActorsAssumption DEF IInv, TypeOK, Rollback, Goto, Txs
    <3> QED
      BY <3>1
  <2>3. CASE t # h
    <3>1. pc'[h] = pc[h]
      BY <2>3 DEF IInv, TypeOK, Rollback, Goto, Txs
    <3>2. event'[h] = event[h] /\ held'[h] = held[h]
      BY <2>3 DEF IInv, TypeOK, Rollback
    <3>3. \A o \in Orders : orderLock[o] = h => orderLock'[o] = h
      BY <2>3 DEF Rollback, Unlock
    <3>4. pc[h] # "idle" => session[event[h]] \in Orders
      BY DEF IInv, HandlerInv, SessionInv
    <3> QED
      BY <2>1, <3>1, <3>2, <3>3, <3>4
      DEF IInv, HandlerInv, Items
  <2> QED
    BY <2>2, <2>3
<1>3. SessionInv'
  BY DEF IInv, SessionInv, Rollback, InProgress, Unlock, tables, stripe
<1>4. CreatorInv'
  <2>0. \A p \in Orders : \A i \in 1..Len(cart[p]) : cart[p][i] \in Seats
    BY CartSeats DEF IInv
  <2>1. CASE t \in Orders
    BY <2>1, ActorsAssumption, <2>0
    DEF IInv, TypeOK, Rollback, Unlock, Goto, Txs, InProgress, CreatorInv, tables
  <2>2. CASE t \in Handlers
    BY <2>2, ActorsAssumption, <2>0
    DEF IInv, TypeOK, Rollback, Unlock, Goto, Txs, InProgress, CreatorInv, tables
  <2>3. CASE t = Cron
    BY <2>3, ActorsAssumption, <2>0
    DEF IInv, TypeOK, Rollback, Unlock, Goto, Txs, InProgress, CreatorInv, tables
  <2>4. CASE t = Organizer
    BY <2>4, ActorsAssumption, <2>0
    DEF IInv, TypeOK, Rollback, Unlock, Goto, Txs, InProgress, CreatorInv, tables
  <2> QED
    BY <2>1, <2>2, <2>3, <2>4 DEF Txs
<1>5. SeatLockInv'
  <2>1. CASE t \in Orders
    BY <2>1, ActorsAssumption
   
    DEF IInv, TypeOK, Rollback, Unlock, Goto, Txs, InProgress, SeatLockInv,
        tables, Items
  <2>2. CASE t \in Handlers
    BY <2>2, ActorsAssumption
   
    DEF IInv, TypeOK, Rollback, Unlock, Goto, Txs, InProgress, SeatLockInv,
        tables, Items
  <2>3. CASE t = Cron
    BY <2>3, ActorsAssumption
   
    DEF IInv, TypeOK, Rollback, Unlock, Goto, Txs, InProgress, SeatLockInv,
        tables, Items
  <2>4. CASE t = Organizer
    BY <2>4, ActorsAssumption
   
    DEF IInv, TypeOK, Rollback, Unlock, Goto, Txs, InProgress, SeatLockInv,
        tables, Items
  <2> QED
    BY <2>1, <2>2, <2>3, <2>4 DEF Txs
<1>6. OrderLockInv'
  <2>1. CASE t \in Orders
    BY <2>1, ActorsAssumption
   
    DEF IInv, TypeOK, Rollback, Unlock, Goto, Txs, InProgress,
        OrderLockInv, tables, stripe
  <2>2. CASE t \in Handlers
    BY <2>2, ActorsAssumption
   
    DEF IInv, TypeOK, Rollback, Unlock, Goto, Txs, InProgress,
        OrderLockInv, tables, stripe
  <2>3. CASE t = Cron
    BY <2>3, ActorsAssumption
   
    DEF IInv, TypeOK, Rollback, Unlock, Goto, Txs, InProgress,
        OrderLockInv, tables, stripe
  <2>4. CASE t = Organizer
    BY <2>4, ActorsAssumption
   
    DEF IInv, TypeOK, Rollback, Unlock, Goto, Txs, InProgress,
        OrderLockInv, tables, stripe
  <2> QED
    BY <2>1, <2>2, <2>3, <2>4 DEF Txs
<1>7. CronInv'
  BY ActorsAssumption
  DEF IInv, CronInv, HeldSeatsOf, Rollback, InProgress, Unlock, Goto, Txs,
      tables
<1>8. RevokeInv'
  BY ActorsAssumption
  DEF IInv, RevokeInv, TypeOK, NoTickets, Rollback, InProgress, Unlock,
      Goto, Txs, tables
<1>9. TicketInv' /\ SeatLedger' /\ FulfilledOnce'
  BY LedgerFrame DEF IInv, Rollback
<1>10. ProcessedIsSettled'
  BY DEF IInv, ProcessedIsSettled, Rollback, InProgress, Unlock, tables,
      stripe
<1> QED
  BY <1>1, <1>2, <1>3, <1>4, <1>5, <1>6, <1>7, <1>8, <1>9, <1>10 DEF IInv

LEMMA RestartStep ==
  ASSUME IInv, Restart
  PROVE  IInv'
<1>1. TypeOK'
  BY ActorsAssumption
  DEF IInv, TypeOK, NoTickets, Restart, Goto, Txs, tables, stripe, locals
<1>2. HandlerInv'
  BY ActorsAssumption
  DEF IInv, HandlerInv, Items, Restart, Goto, Txs, tables, stripe, locals
<1>3. SessionInv'
  BY DEF IInv, SessionInv, Restart, tables, stripe
<1>4. CreatorInv'
  BY DEF IInv, CreatorInv, Restart, Goto, Txs, tables, locals
<1>5. SeatLockInv'
  BY ActorsAssumption
  DEF IInv, SeatLockInv, Items, Restart, Goto, Txs, tables, locals
<1>6. OrderLockInv'
  BY ActorsAssumption
  DEF IInv, OrderLockInv, Restart, Goto, Txs, tables, stripe
<1>7. CronInv'
  BY ActorsAssumption
  DEF IInv, CronInv, HeldSeatsOf, Restart, Goto, Txs, tables
<1>8. RevokeInv'
  BY ActorsAssumption
  DEF IInv, RevokeInv, TypeOK, NoTickets, Restart, Goto, Txs, tables
<1>9. TicketInv' /\ SeatLedger' /\ FulfilledOnce'
  BY LedgerFrame DEF IInv, Restart
<1>10. ProcessedIsSettled'
  BY DEF IInv, ProcessedIsSettled, Restart, tables, stripe
<1> QED
  BY <1>1, <1>2, <1>3, <1>4, <1>5, <1>6, <1>7, <1>8, <1>9, <1>10 DEF IInv

\* A state change of nothing.
LEMMA StutterStep ==
  ASSUME IInv, UNCHANGED vars
  PROVE  IInv'
<1>1. TypeOK'
  BY DEF IInv, TypeOK, vars, tables, locks, locals, stripe
<1>2. HandlerInv' /\ SessionInv'
  BY DEF IInv, HandlerInv, SessionInv, Items,
         vars, tables, locks, locals, stripe
<1>3. CreatorInv'
  BY DEF IInv, CreatorInv, vars, tables, locks, locals
<1>4. SeatLockInv' /\ OrderLockInv'
  BY DEF IInv, SeatLockInv, OrderLockInv, Items,
         vars, tables, locks, locals, stripe
<1>5. CronInv' /\ RevokeInv'
  BY DEF IInv, CronInv, RevokeInv, HeldSeatsOf, vars, tables, locks, locals
<1>6. TicketInv' /\ SeatLedger' /\ FulfilledOnce'
  BY LedgerFrame DEF IInv, vars, locals
<1>7. ProcessedIsSettled'
  BY DEF IInv, ProcessedIsSettled, vars, tables, stripe
<1> QED
  BY <1>1, <1>2, <1>3, <1>4, <1>5, <1>6, <1>7 DEF IInv

-----------------------------------------------------------------------------
(***************************************************************************)
(* IInv is inductive.                                                      *)
(***************************************************************************)
LEMMA InitInv == Init => IInv
<1> SUFFICES ASSUME Init PROVE IInv
  OBVIOUS
<1>1. TypeOK
  BY ActorsAssumption DEF Init, TypeOK, Statuses, Available, NoTickets
<1>2. HandlerInv /\ CreatorInv
  BY ActorsAssumption DEF Init, HandlerInv, CreatorInv, Txs
<1>3. SessionInv /\ ProcessedIsSettled
  BY ActorsAssumption DEF Init, SessionInv, ProcessedIsSettled, Txs
<1>4. SeatLockInv /\ OrderLockInv
  BY ActorsAssumption DEF Init, SeatLockInv, OrderLockInv, Txs
<1>5. CronInv
  BY DEF Init, CronInv, Txs
<1>6. RevokeInv
  BY DEF Init, RevokeInv, NoTickets, Txs
<1>7. TicketInv /\ FulfilledOnce
  BY DEF Init, TicketInv, FulfilledOnce, NoTickets
<1>8. SeatLedger
  BY DEF Init, SeatLedger, NoTickets, Available, Held, Sold
<1> QED
  BY <1>1, <1>2, <1>3, <1>4, <1>5, <1>6, <1>7, <1>8 DEF IInv

LEMMA NextInv == IInv /\ [Next]_vars => IInv'
<1> SUFFICES ASSUME IInv, [Next]_vars PROVE IInv'
  OBVIOUS
<1>1. CASE UNCHANGED vars
  BY <1>1, StutterStep
<1>2. ASSUME NEW o \in Orders, CreateOrder(o) \/ Expire(o) PROVE IInv'
  BY <1>2, ReadTerminStep, ClaimSeatStep, SeatTakenStep, CommitOrderStep,
     ExpireStep DEF CreateOrder
<1>3. ASSUME NEW o \in Orders, NEW e \in Sessions, InitiateCheckout(o, e)
      PROVE  IInv'
  BY <1>3, InitiateCheckoutStep
<1>4. ASSUME NEW e \in Sessions, CompleteSession(e) PROVE IInv'
  BY <1>4, CompleteSessionStep
<1>5. ASSUME NEW h \in Handlers, NEW e \in Sessions, Receive(h, e)
      PROVE  IInv'
  BY <1>5, ReceiveStep
<1>6. ASSUME NEW h \in Handlers, Webhook(h) PROVE IInv'
  BY <1>6, SkipProcessedStep, NotProcessedStep, ReadOrderStep, PayOrderStep,
     NoLongerPendingStep, SellSeatsStep, MarkProcessedStep DEF Webhook
<1>7. CASE ExpirePendingOrders
  BY <1>7, FindExpiringStep, ReleaseExpiringStep, CancelExpiringStep
  DEF ExpirePendingOrders
<1>8. CASE CancelOccurrence
  BY <1>8, CheckNotCancelledStep, RevokeTicketsStep, FreeSeatsStep,
     RefundPaidStep, CancelPendingStep DEF CancelOccurrence
<1>9. ASSUME NEW t \in Txs, DeadlockVictim(t) \/ InfraError(t) PROVE IInv'
  <2>1. Rollback(t)
    BY <1>9 DEF DeadlockVictim, InfraError
  <2>2. faults' \in 0..MaxFaults
    BY <1>9, ActorsAssumption DEF IInv, TypeOK, DeadlockVictim, InfraError
  <2> QED
    BY <2>1, <2>2, RollbackStep
<1>10. CASE Restart
  BY <1>10, RestartStep
<1> QED
  BY <1>1, <1>2, <1>3, <1>4, <1>5, <1>6, <1>7, <1>8, <1>9, <1>10, Zenon
  DEF Next

LEMMA SpecInv == Spec => []IInv
  BY InitInv, NextInv, PTL DEF Spec

-----------------------------------------------------------------------------
(***************************************************************************)
(* The safety of the sale.                                                 *)
(***************************************************************************)
\* Every row and every local value of a request keeps its type.
THEOREM TypeCorrect == Spec => []TypeOK
<1>1. IInv => TypeOK
  BY DEF IInv
<1> QED
  BY <1>1, SpecInv, PTL

\* createOrder, fulfillOrder, the expiry and an unfinished cancellation keep
\* seat map, orders and tickets in agreement: no seat is sold twice.
THEOREM LedgerAgrees == Spec => []SeatLedger
<1>1. IInv => SeatLedger
  BY DEF IInv
<1> QED
  BY <1>1, SpecInv, PTL

\* However often Stripe delivers, however many sessions of an order are paid,
\* fulfillOrder issues the tickets of the order once.
THEOREM OneFulfilment == Spec => []FulfilledOnce
<1>1. IInv => FulfilledOnce
  BY DEF IInv
<1> QED
  BY <1>1, SpecInv, PTL

\* A marked event is never one whose order still waits for its payment.
THEOREM MarkedEventsAreSettled == Spec => []ProcessedIsSettled
<1>1. IInv => ProcessedIsSettled
  BY DEF IInv
<1> QED
  BY <1>1, SpecInv, PTL

-----------------------------------------------------------------------------
(***************************************************************************)
(* What a step may never do, and that SeatCheckout implements the abstract *)
(* sale: every committed step is one step of SeatSale.                     *)
(***************************************************************************)
Committing ==
  \/ \E o \in Orders : CommitOrder(o)
  \/ \E h \in Handlers : SellSeats(h)
  \/ CancelExpiring
  \/ CancelPending

\* Only the last statements of the four transactions change a table.
LEMMA OnlyCommitsWrite ==
  ASSUME [Next]_vars
  PROVE  Committing \/ UNCHANGED tables
<1>1. CASE UNCHANGED vars
  BY <1>1 DEF vars
<1>2. ASSUME NEW o \in Orders, CreateOrder(o) \/ Expire(o)
      PROVE  Committing \/ UNCHANGED tables
  BY <1>2 DEF CreateOrder, Expire, ReadTermin, ClaimSeat, SeatTaken, Committing
<1>3. ASSUME NEW o \in Orders, NEW e \in Sessions, InitiateCheckout(o, e)
      PROVE  UNCHANGED tables
  BY <1>3 DEF InitiateCheckout
<1>4. ASSUME NEW e \in Sessions, CompleteSession(e) PROVE UNCHANGED tables
  BY <1>4 DEF CompleteSession
<1>5. ASSUME NEW h \in Handlers, NEW e \in Sessions, Receive(h, e)
      PROVE  UNCHANGED tables
  BY <1>5 DEF Receive
<1>6. ASSUME NEW h \in Handlers, Webhook(h)
      PROVE  Committing \/ UNCHANGED tables
  BY <1>6 DEF Webhook, SkipProcessed, NotProcessed, ReadOrder, PayOrder,
              NoLongerPending, MarkProcessed, Committing
<1>7. ASSUME ExpirePendingOrders PROVE Committing \/ UNCHANGED tables
  BY <1>7 DEF ExpirePendingOrders, FindExpiring, ReleaseExpiring, Committing
<1>8. ASSUME CancelOccurrence PROVE Committing \/ UNCHANGED tables
  BY <1>8 DEF CancelOccurrence, CheckNotCancelled, RevokeTickets, FreeSeats,
              RefundPaid, Committing
<1>9. ASSUME NEW t \in Txs, DeadlockVictim(t) \/ InfraError(t)
      PROVE  UNCHANGED tables
  BY <1>9 DEF DeadlockVictim, InfraError, Rollback
<1>10. ASSUME Restart PROVE UNCHANGED tables
  BY <1>10 DEF Restart
<1> QED
  BY <1>1, <1>2, <1>3, <1>4, <1>5, <1>6, <1>7, <1>8, <1>9, <1>10, Zenon
  DEF Next

-----------------------------------------------------------------------------
(***************************************************************************)
(* What each commit does to the orders.                                    *)
(***************************************************************************)
LEMMA CommitOrderStatus ==
  ASSUME IInv, NEW o \in Orders, CommitOrder(o)
  PROVE  status[o] = "NONE" /\ status' = [status EXCEPT ![o] = "PENDING"]
BY DEF IInv, CreatorInv, CommitOrder

LEMMA SellSeatsStatus ==
  ASSUME IInv, NEW h \in Handlers, SellSeats(h)
  PROVE  LET o == session[event[h]] IN
         /\ o \in Orders /\ event[h] \in completed
         /\ status[o] = "PENDING"
         /\ status' = [status EXCEPT ![o] = "PAID"]
<1>1. pc[h] = "sell"
  BY DEF SellSeats
<1>2. event[h] \in completed /\ session[event[h]] \in Orders
  BY <1>1 DEF IInv, HandlerInv, SessionInv
<1>3. orderLock[session[event[h]]] = h
  BY <1>1 DEF IInv, HandlerInv
<1>4. status[session[event[h]]] = "PENDING"
  BY <1>2, <1>3 DEF IInv, OrderLockInv
<1> QED
  BY <1>2, <1>4 DEF SellSeats

LEMMA CancelPendingStatus ==
  ASSUME IInv, NEW o \in Orders, CancelPending
  PROVE  \/ status'[o] = status[o]
         \/ status[o] = "PAID" /\ status'[o] = "REFUND_PENDING"
         \/ status[o] = "PENDING" /\ status'[o] = "CANCELLED"
<1>1. status'[o] = CASE orderLock[o] = Organizer -> "REFUND_PENDING"
                     [] o \in PendingOf(Orders) -> "CANCELLED"
                     [] OTHER -> status[o]
  BY DEF CancelPending
<1>2. orderLock[o] = Organizer => status[o] = "PAID"
  BY DEF IInv, OrderLockInv
<1>3. o \in PendingOf(Orders) <=> status[o] = "PENDING"
  BY DEF PendingOf
<1>4. CASE orderLock[o] = Organizer
  BY <1>1, <1>2, <1>3, <1>4
<1>5. CASE orderLock[o] # Organizer
  BY <1>1, <1>3, <1>5
<1> QED
  BY <1>4, <1>5

-----------------------------------------------------------------------------
(***************************************************************************)
(* A sold seat stays sold.                                                 *)
(***************************************************************************)
StaysSold ==
  /\ \A s \in Seats :
       seat[s].st = "SOLD" /\ termin' = "ON_SALE" => seat'[s] = seat[s]
  /\ \A o \in Orders :
       status[o] \in {"CANCELLED", "REFUND_PENDING"} => status'[o] = status[o]

LEMMA StepKeepsSold ==
  ASSUME IInv, [Next]_vars
  PROVE  StaysSold
<1>1. CASE UNCHANGED tables
  BY <1>1 DEF StaysSold, tables
<1>2. ASSUME NEW o \in Orders, CommitOrder(o) PROVE StaysSold
  <2>1. \A s \in Seats : seatLock[s] = o => seat[s].st # "SOLD"
    BY DEF IInv, SeatLockInv, Available
  <2>2. \A s \in Seats : seat[s].st = "SOLD" => seat'[s] = seat[s]
    BY <1>2, <2>1 DEF CommitOrder
  <2> QED
    BY <1>2, <2>2, CommitOrderStatus DEF StaysSold, IInv, TypeOK
<1>3. ASSUME NEW h \in Handlers, SellSeats(h) PROVE StaysSold
  <2>1. \A s \in Seats : seat[s].st = "SOLD" => seat'[s] = seat[s]
    BY <1>3 DEF SellSeats, HeldSeatsOf
  <2> QED
    BY <1>3, <2>1, SellSeatsStatus DEF StaysSold, IInv, TypeOK
<1>4. CASE CancelExpiring
  <2>1. \A s \in Seats : seatLock[s] = Cron => seat[s].st # "SOLD"
    BY DEF IInv, SeatLockInv
  <2>2. \A s \in Seats : seat[s].st = "SOLD" => seat'[s] = seat[s]
    BY <1>4, <2>1 DEF CancelExpiring
  <2>3. \A o \in Orders : status'[o] = status[o] \/ status[o] = "PENDING"
    BY <1>4 DEF CancelExpiring, PendingOf
  <2> QED
    BY <2>2, <2>3 DEF StaysSold
<1>5. CASE CancelPending
  <2>1. termin' = "CANCELLED"
    BY <1>5 DEF CancelPending
  <2> QED
    BY <1>5, <2>1, CancelPendingStatus DEF StaysSold
<1> QED
  BY <1>1, <1>2, <1>3, <1>4, <1>5, OnlyCommitsWrite DEF Committing

\* While the occurrence is on sale no statement takes a sold seat from its
\* order, and no late payment revives an order the expiry or the cancellation
\* has ended.
THEOREM SoldSeatsStay == Spec => SoldStaysSold
<1>1. IInv /\ [Next]_vars => [StaysSold]_vars
  BY StepKeepsSold
<1>2. [StaysSold]_vars =>
        [/\ \A s \in Seats :
              seat[s].st = "SOLD" /\ termin' = "ON_SALE" => seat'[s] = seat[s]
         /\ \A o \in Orders :
              status[o] \in {"CANCELLED", "REFUND_PENDING"} =>
                status'[o] = status[o]]_vars
  BY DEF StaysSold
<1> QED
  BY <1>1, <1>2, SpecInv, PTL DEF Spec, SoldStaysSold

-----------------------------------------------------------------------------
(***************************************************************************)
(* Nobody is owed money he did not pay.                                    *)
(***************************************************************************)
LEMMA StepCharges ==
  ASSUME IInv, PaidOnlyIfCharged, [Next]_vars
  PROVE  PaidOnlyIfCharged'
<1>1. \A e \in completed : e \in completed' /\ session'[e] = session[e]
  <2>1. CASE completed' = completed /\ session' = session
    BY <2>1
  <2>2. ASSUME NEW o \in Orders, NEW e \in Sessions, InitiateCheckout(o, e)
        PROVE  \A f \in completed : f \in completed' /\ session'[f] = session[f]
    <3>1. e \notin completed
      BY <2>2, ActorsAssumption DEF InitiateCheckout, IInv, SessionInv, Txs
    <3> QED
      BY <2>2, <3>1 DEF InitiateCheckout, IInv, TypeOK
  <2>3. ASSUME NEW e \in Sessions, CompleteSession(e)
        PROVE  \A f \in completed : f \in completed' /\ session'[f] = session[f]
    BY <2>3 DEF CompleteSession
  <2>4. \/ completed' = completed /\ session' = session
        \/ \E o \in Orders, e \in Sessions : InitiateCheckout(o, e)
        \/ \E e \in Sessions : CompleteSession(e)
    <3>1. CASE UNCHANGED vars
      BY <3>1 DEF vars, stripe
    <3>2. ASSUME NEW o \in Orders, CreateOrder(o) \/ Expire(o)
          PROVE  UNCHANGED stripe
      BY <3>2 DEF CreateOrder, Expire, ReadTermin, ClaimSeat, SeatTaken,
                  CommitOrder
    <3>3. ASSUME NEW h \in Handlers, NEW e \in Sessions, Receive(h, e)
          PROVE  UNCHANGED stripe
      BY <3>3 DEF Receive
    <3>4. ASSUME NEW h \in Handlers, Webhook(h)
          PROVE  completed' = completed /\ session' = session
      BY <3>4 DEF Webhook, SkipProcessed, NotProcessed, ReadOrder, PayOrder,
                  NoLongerPending, SellSeats, MarkProcessed, stripe
    <3>5. ASSUME ExpirePendingOrders \/ CancelOccurrence
          PROVE  UNCHANGED stripe
      BY <3>5 DEF ExpirePendingOrders, FindExpiring, ReleaseExpiring,
                  CancelExpiring, CancelOccurrence, CheckNotCancelled,
                  RevokeTickets, FreeSeats, RefundPaid, CancelPending
    <3>6. ASSUME NEW t \in Txs, DeadlockVictim(t) \/ InfraError(t)
          PROVE  UNCHANGED stripe
      BY <3>6 DEF DeadlockVictim, InfraError, Rollback
    <3>7. ASSUME Restart PROVE UNCHANGED stripe
      BY <3>7 DEF Restart
    <3> QED
      BY <3>1, <3>2, <3>3, <3>4, <3>5, <3>6, <3>7 DEF Next, stripe
  <2> QED
    BY <2>1, <2>2, <2>3, <2>4
<1>2. ASSUME NEW o \in Orders, status'[o] \in {"PAID", "REFUND_PENDING"}
      PROVE  \/ status[o] \in {"PAID", "REFUND_PENDING"}
             \/ \E e \in completed : session[e] = o
  <2>1. CASE UNCHANGED tables
    BY <1>2, <2>1 DEF tables
  <2>2. ASSUME NEW p \in Orders, CommitOrder(p)
        PROVE  status[o] \in {"PAID", "REFUND_PENDING"}
    BY <1>2, <2>2, CommitOrderStatus DEF IInv, TypeOK
  <2>3. ASSUME NEW h \in Handlers, SellSeats(h)
        PROVE  \/ status[o] \in {"PAID", "REFUND_PENDING"}
               \/ \E e \in completed : session[e] = o
    BY <1>2, <2>3, SellSeatsStatus DEF IInv, TypeOK
  <2>4. CASE CancelExpiring
    BY <1>2, <2>4 DEF CancelExpiring
  <2>5. CASE CancelPending
    BY <1>2, <2>5, CancelPendingStatus
  <2> QED
    BY <2>1, <2>2, <2>3, <2>4, <2>5, OnlyCommitsWrite DEF Committing
<1> QED
  BY <1>1, <1>2 DEF PaidOnlyIfCharged

\* cancelOccurrence promises a refund, and fulfillOrder issues tickets, only
\* for an order whose customer completed a checkout session.
THEOREM OnlyChargedOrdersArePaid == Spec => []PaidOnlyIfCharged
<1>1. Init => PaidOnlyIfCharged
  BY DEF Init, PaidOnlyIfCharged
<1>2. IInv /\ PaidOnlyIfCharged /\ [Next]_vars => PaidOnlyIfCharged'
  BY StepCharges
<1> QED
  BY <1>1, <1>2, SpecInv, PTL DEF Spec
-----------------------------------------------------------------------------
(***************************************************************************)
(* Refinement: SeatCheckout implements SeatSale.                           *)
(***************************************************************************)
\* While the occurrence is on sale a seat's order is the one its cart names.
LEMMA OwnerIsInCart ==
  ASSUME IInv, termin = "ON_SALE", NEW o \in Orders, NEW s \in Seats
  PROVE  /\ status[o] = "PENDING" =>
              (seat[s].order = o <=> seat[s].st = "HELD" /\ seat[s].order = o)
         /\ status[o] = "NONE" => seat[s].order # o
         /\ seat[s] = Held(o) => status[o] = "PENDING"
<1>1. /\ seat[s] = Held(o) <=> status[o] = "PENDING" /\ s \in Items(o)
      /\ seat[s] = Sold(o) <=> status[o] = "PAID" /\ s \in Items(o)
  BY DEF IInv, SeatLedger
<1>2. /\ seat[s] = Held(o) <=> seat[s].st = "HELD" /\ seat[s].order = o
      /\ seat[s] = Sold(o) <=> seat[s].st = "SOLD" /\ seat[s].order = o
  BY SeatRow DEF IInv
<1>3. seat[s].order = o => seat[s].st \in {"HELD", "SOLD"}
  BY ActorsAssumption DEF IInv, TypeOK, Txs
<1> QED
  BY <1>1, <1>2, <1>3

LEMMA CommitOrderReserves ==
  ASSUME IInv, termin = "ON_SALE", NEW o \in Orders, CommitOrder(o)
  PROVE  \E S \in SUBSET Seats : Sale!Reserve(o, S)
<1>0. PICK S \in SUBSET Seats : S = {s \in Seats : seatLock[s] = o}
  OBVIOUS
<1>1. \A s \in S : seat[s].order = Nobody
  BY <1>0 DEF IInv, SeatLockInv, Available
<1>2. status[o] = "NONE" /\ status' = [status EXCEPT ![o] = "PENDING"]
  BY CommitOrderStatus
<1>3. termin' = termin
  BY DEF CommitOrder
<1>4. Phase(status[o]) = "new" /\ Phase("PENDING") = "pending"
  BY <1>2 DEF Phase
<1>5. [p \in Orders |-> Phase(status'[p])] =
        [[p \in Orders |-> Phase(status[p])] EXCEPT ![o] = "pending"]
  BY <1>2, <1>4 DEF IInv, TypeOK
<1>6. [s \in Seats |-> seat'[s].order] =
        [s \in Seats |-> IF s \in S THEN o ELSE seat[s].order]
  BY <1>0 DEF CommitOrder, Held
<1>7. Sale!Reserve(o, S)
  BY <1>1, <1>3, <1>4, <1>5, <1>6 DEF Sale!Reserve
<1> QED
  BY <1>7

LEMMA SellSeatsPays ==
  ASSUME IInv, termin = "ON_SALE", NEW h \in Handlers, SellSeats(h)
  PROVE  \E o \in Orders : Sale!Pay(o)
<1> DEFINE ord == session[event[h]]
<1>1. /\ ord \in Orders /\ status[ord] = "PENDING"
      /\ status' = [status EXCEPT ![ord] = "PAID"]
  BY SellSeatsStatus
<1>2. termin' = termin
  BY DEF SellSeats
<1>3. Phase(status[ord]) = "pending" /\ Phase("PAID") = "paid"
  BY <1>1 DEF Phase
<1>4. [p \in Orders |-> Phase(status'[p])] =
        [[p \in Orders |-> Phase(status[p])] EXCEPT ![ord] = "paid"]
  BY <1>1, <1>3 DEF IInv, TypeOK
<1>5. \A s \in Seats : seat'[s].order = seat[s].order
  BY <1>1 DEF SellSeats, HeldSeatsOf, Sold
<1>6. Sale!Pay(ord)
  BY <1>1, <1>2, <1>3, <1>4, <1>5 DEF Sale!Pay
<1> QED
  BY <1>1, <1>6

LEMMA CancelExpiringLapses ==
  ASSUME IInv, termin = "ON_SALE", CancelExpiring
  PROVE  \E O \in SUBSET Orders : Sale!Lapse(O)
<1>0. PICK O \in SUBSET Orders : O = PendingOf(expiring)
  BY DEF IInv, TypeOK, PendingOf
<1>1. \A o \in O : status[o] = "PENDING" /\ o \in expiring
  BY <1>0 DEF PendingOf
<1>2. termin' = termin
  BY DEF CancelExpiring
<1>3. [p \in Orders |-> Phase(status'[p])] =
        [p \in Orders |-> IF p \in O THEN "ended" ELSE Phase(status[p])]
  BY <1>0 DEF CancelExpiring, Phase
<1>4. ASSUME NEW s \in Seats
      PROVE  seatLock[s] = Cron <=> seat[s].order \in O
  <2>1. ASSUME seatLock[s] = Cron PROVE seat[s].order \in O
    <3>1. seat[s].st = "HELD" /\ seat[s].order \in expiring
      BY <2>1 DEF IInv, SeatLockInv
    <3>2. seat[s].order \in Orders
      BY <3>1 DEF IInv, TypeOK
    <3>3. seat[s] = Held(seat[s].order)
      BY <3>1, <3>2, SeatRow DEF IInv
    <3>4. status[seat[s].order] = "PENDING"
      BY <3>2, <3>3, OwnerIsInCart
    <3> QED
      BY <1>0, <3>1, <3>4 DEF PendingOf
  <2>2. ASSUME seat[s].order \in O PROVE seatLock[s] = Cron
    <3>1. seat[s].st = "HELD"
      BY <1>1, <2>2, OwnerIsInCart
    <3>2. pc[Cron] = "orders"
      BY DEF CancelExpiring
    <3> QED
      BY <1>1, <2>2, <3>1, <3>2 DEF IInv, CronInv, HeldSeatsOf
  <2> QED
    BY <2>1, <2>2
<1>5. [s \in Seats |-> seat'[s].order] =
        [s \in Seats |-> IF seat[s].order \in O THEN Nobody ELSE seat[s].order]
  BY <1>4 DEF CancelExpiring, Available
<1>6. \A o \in O : Phase(status[o]) = "pending"
  BY <1>1 DEF Phase
<1>7. Sale!Lapse(O)
  BY <1>1, <1>2, <1>3, <1>5, <1>6 DEF Sale!Lapse
<1> QED
  BY <1>7

\* After the call-off the abstract sale only asks that no order goes back.
LEMMA CommitGoesForward ==
  ASSUME IInv, Committing, NEW o \in Orders
  PROVE  Sale!Forward(Phase(status[o]), Phase(status'[o]))
<1>1. \/ status'[o] = status[o]
      \/ status[o] = "NONE" /\ status'[o] = "PENDING"
      \/ status[o] = "PENDING" /\ status'[o] \in {"PAID", "CANCELLED"}
      \/ status[o] = "PAID" /\ status'[o] = "REFUND_PENDING"
  <2>0. status \in [Orders -> Statuses]
    BY DEF IInv, TypeOK
  <2>1. ASSUME NEW p \in Orders, CommitOrder(p)
        PROVE  \/ status'[o] = status[o]
               \/ status[o] = "NONE" /\ status'[o] = "PENDING"
    <3>1. status[p] = "NONE" /\ status' = [status EXCEPT ![p] = "PENDING"]
      BY <2>1, CommitOrderStatus
    <3> QED
      BY <2>0, <3>1
  <2>2. ASSUME NEW h \in Handlers, SellSeats(h)
        PROVE  \/ status'[o] = status[o]
               \/ status[o] = "PENDING" /\ status'[o] = "PAID"
    <3> DEFINE ord == session[event[h]]
    <3>1. status[ord] = "PENDING" /\ status' = [status EXCEPT ![ord] = "PAID"]
      BY <2>2, SellSeatsStatus
    <3> QED
      BY <2>0, <3>1
  <2>3. ASSUME CancelExpiring
        PROVE  \/ status'[o] = status[o]
               \/ status[o] = "PENDING" /\ status'[o] = "CANCELLED"
    BY <2>3 DEF CancelExpiring, PendingOf
  <2> QED
    <3>1. CASE CancelPending
      BY <3>1, CancelPendingStatus
    <3> QED
      BY <2>1, <2>2, <2>3, <3>1 DEF Committing
<1> QED
  BY <1>1 DEF Sale!Forward, Phase

LEMMA StepImplementsSale ==
  ASSUME IInv, IInv', [Next]_vars
  PROVE  [Sale!SaleNext]_Sale!saleVars
<1>1. CASE UNCHANGED tables
  BY <1>1 DEF tables, Sale!saleVars
<1>2. CASE Committing /\ termin' = "CANCELLED"
  <2>1. \A o \in Orders :
          Sale!Forward([p \in Orders |-> Phase(status[p])][o],
                       [p \in Orders |-> Phase(status'[p])][o])
    BY <1>2, CommitGoesForward
  <2>2. [p \in Orders |-> Phase(status'[p])] \in [Orders -> Sale!Phases]
    BY DEF Sale!Phases, Phase
  <2>3. [s \in Seats |-> seat'[s].order] \in [Seats -> Orders \cup {Nobody}]
    BY DEF IInv, TypeOK
  <2>4. Sale!CallOff
    BY <1>2, <2>1, <2>2, <2>3 DEF Sale!CallOff
  <2> QED
    BY <2>4 DEF Sale!SaleNext
<1>3. CASE Committing /\ termin' # "CANCELLED"
  <2>1. termin = "ON_SALE" /\ ~CancelPending
    BY <1>3 DEF IInv, TypeOK, Committing, CommitOrder, SellSeats,
                CancelExpiring, CancelPending
  <2>2. \/ \E o \in Orders : CommitOrder(o)
        \/ \E h \in Handlers : SellSeats(h)
        \/ CancelExpiring
    BY <1>3, <2>1 DEF Committing
  <2> QED
    BY <2>1, <2>2, CommitOrderReserves, SellSeatsPays, CancelExpiringLapses
    DEF Sale!SaleNext
<1> QED
  BY <1>1, <1>2, <1>3, OnlyCommitsWrite

\* Row locks, webhooks, the expiry and the cancellation together implement the
\* atomic sale: a transaction's effect is one step of SeatSale.
THEOREM CheckoutImplementsSale == Spec => ImplementsSale
<1>1. Init => Sale!SaleInit
  BY DEF Init, Sale!SaleInit, Available, Phase
<1>2. IInv /\ IInv' /\ [Next]_vars => [Sale!SaleNext]_Sale!saleVars
  BY StepImplementsSale
<1> QED
  BY <1>1, <1>2, SpecInv, PTL DEF Spec, ImplementsSale, Sale!SaleSpec

=============================================================================
