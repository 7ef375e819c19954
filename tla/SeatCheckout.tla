---------------------------- MODULE SeatCheckout ----------------------------
(***************************************************************************)
(* Selling numbered seats of one occurrence (termin): createOrder, the     *)
(* Stripe checkout and its webhook with fulfillOrder, the expiry cron and  *)
(* cancelOccurrence, interleaved at every await.                           *)
(*                                                                         *)
(* Each database transaction is modelled statement by statement under      *)
(* PostgreSQL's READ COMMITTED level, the one Prisma uses here:            *)
(*   - the table variables hold COMMITTED rows; a statement reads those;   *)
(*   - an UPDATE locks the rows it matches, in orderLock / seatLock, until *)
(*     its transaction ends; another UPDATE matching a locked row waits    *)
(*     (it is not enabled) and then looks at the row again;                *)
(*   - the new value of a locked row follows from who holds the lock, so   *)
(*     it is written when the holder commits, and forgotten on a rollback; *)
(*   - the last statement of a transaction and its COMMIT are one step: no *)
(*     other transaction can tell them apart.                              *)
(***************************************************************************)
EXTENDS Naturals, Sequences, FiniteSets

CONSTANTS
  Orders,     \* order ids; each also names the createOrder call that makes it
  Seats,      \* the TerminSeat rows of the occurrence
  Carts,      \* seat selections a client may send, in the client's order
  Handlers,   \* webhook requests the backend serves at the same time
  Sessions,   \* Stripe checkout sessions, each with its completion event
  Cron,       \* the expirePendingOrders job
  Organizer,  \* the organizer's cancelOccurrence request
  Nobody,     \* null
  MaxFaults   \* bound on infrastructure failures and restarts

Txs == Orders \cup Handlers \cup {Cron, Organizer}

ASSUME CartsAssumption ==
  /\ Carts \subseteq Seq(Seats)
  /\ \A c \in Carts : \A i, j \in 1..Len(c) : c[i] = c[j] => i = j

ASSUME ActorsAssumption ==
  /\ Orders \cap Handlers = {}
  /\ Cron \notin Orders \cup Handlers
  /\ Organizer \notin Orders \cup Handlers \cup {Cron}
  /\ Nobody \notin Txs
  /\ MaxFaults \in Nat

VARIABLES
  termin,     \* status of the occurrence
  status,     \* Order.status; "NONE" before the row exists
  seat,       \* TerminSeat: its status and orderId
  tickets,    \* number of VALID tickets of an order for a seat
  orderLock,  \* transaction holding the order's row lock
  seatLock,   \* transaction holding the seat's row lock
  pc,         \* next statement of each request or job
  cart,       \* createOrder: the de-duplicated seatIds, in client order
  claimed,    \* createOrder: how many of them are claimed so far
  expired,    \* orders whose expiresAt has passed
  session,    \* the order a checkout session was opened for
  completed,  \* sessions the customer has paid
  acked,      \* completion events answered with 2xx: not redelivered
  processed,  \* the StripeEvent table
  event,      \* webhook handler: the event it serves
  held,       \* webhook handler: order.terminSeats as read before the tx
  expiring,   \* expiry cron: the ids it found
  revoked,    \* cancelOccurrence: the tickets its UPDATE has matched
  faults      \* infrastructure failures so far

tables == <<termin, status, seat, tickets>>
locks == <<orderLock, seatLock>>
stripe == <<session, completed, acked>>
locals == <<cart, claimed, event, held, expiring, revoked>>
vars == <<tables, locks, pc, locals, expired, stripe, processed, faults>>

Available == [st |-> "AVAILABLE", order |-> Nobody]
\* (mutant: the claim forgets orderId)
HeldUnlinked(o) == [st |-> "HELD", order |-> Nobody]
Held(o) == [st |-> "HELD", order |-> o]
Sold(o) == [st |-> "SOLD", order |-> o]

NoTickets == [o \in Orders |-> [s \in Seats |-> 0]]

Items(o) == {cart[o][i] : i \in 1..Len(cart[o])}

Init ==
  /\ termin = "ON_SALE"
  /\ status = [o \in Orders |-> "NONE"]
  /\ seat = [s \in Seats |-> Available]
  /\ tickets = NoTickets
  /\ orderLock = [o \in Orders |-> Nobody]
  /\ seatLock = [s \in Seats |-> Nobody]
  /\ pc = [t \in Txs |-> "idle"]
  /\ cart = [o \in Orders |-> <<>>]
  /\ claimed = [o \in Orders |-> 0]
  /\ expired = {}
  /\ session = [e \in Sessions |-> Nobody]
  /\ completed = {}
  /\ acked = {}
  /\ processed = {}
  /\ event = [h \in Handlers |-> Nobody]
  /\ held = [h \in Handlers |-> {}]
  /\ expiring = {}
  /\ revoked = NoTickets
  /\ faults = 0

(***************************************************************************)
(* Row locks.                                                              *)
(***************************************************************************)
\* A statement of t that matches these rows does not have to wait.
SeatsFree(t, S) == \A s \in S : seatLock[s] \in {Nobody, t}
OrdersFree(t, O) == \A o \in O : orderLock[o] \in {Nobody, t}

LockSeats(t, S) ==
  seatLock' = [s \in Seats |-> IF s \in S THEN t ELSE seatLock[s]]
LockOrders(t, O) ==
  orderLock' = [o \in Orders |-> IF o \in O THEN t ELSE orderLock[o]]

\* COMMIT and ROLLBACK both release every lock of t.
Unlock(t) ==
  /\ seatLock' = [s \in Seats |-> IF seatLock[s] = t THEN Nobody
                                                     ELSE seatLock[s]]
  /\ orderLock' = [o \in Orders |-> IF orderLock[o] = t THEN Nobody
                                                        ELSE orderLock[o]]

\* Rows a WHERE clause matches.  (mutants: the same without its status test)
SeatsOf(O) == {s \in Seats : seat[s].order \in O}
HeldSeatsOf(O) == {s \in Seats : seat[s].st = "HELD" /\ seat[s].order \in O}
TakenSeats == {s \in Seats : seat[s].st \in {"HELD", "SOLD"}}
AnyOf(O) == O
PendingOf(O) == {o \in O : status[o] = "PENDING"}
LiveOrders == {o \in Orders : status[o] \in {"PENDING", "PAID"}}
PaidOrders == {o \in Orders : status[o] = "PAID"}

Goto(t, label) == pc' = [pc EXCEPT ![t] = label]

(***************************************************************************)
(* createOrder: the occurrence is read and checked before the transaction; *)
(* then one transaction inserts the order and claims its seats one by one, *)
(* in the client's order, each by UPDATE ... WHERE status = 'AVAILABLE'.   *)
(***************************************************************************)
ReadTermin(o) ==
  /\ pc[o] = "idle"
  /\ status[o] = "NONE"
  /\ termin = "ON_SALE"
  /\ \E c \in Carts :
       /\ c # <<>>
       /\ cart' = [cart EXCEPT ![o] = c]
  /\ claimed' = [claimed EXCEPT ![o] = 0]
  /\ Goto(o, "claim")
  /\ UNCHANGED <<tables, locks, event, held, expiring, revoked, expired,
                 stripe, processed, faults>>

NextSeat(o) == cart[o][claimed[o] + 1]

ClaimSeat(o) ==
  /\ pc[o] = "claim"
  /\ claimed[o] < Len(cart[o])
  /\ seat[NextSeat(o)] = Available
  /\ SeatsFree(o, {NextSeat(o)})
  /\ LockSeats(o, {NextSeat(o)})
  /\ claimed' = [claimed EXCEPT ![o] = @ + 1]
  /\ UNCHANGED <<tables, orderLock, pc, cart, event, held, expiring, revoked,
                 expired, stripe, processed, faults>>

\* claimed.count = 0: SEAT_TAKEN, the transaction rolls back.
SeatTaken(o) ==
  /\ pc[o] = "claim"
  /\ claimed[o] < Len(cart[o])
  /\ seat[NextSeat(o)] # Available
  /\ Unlock(o)
  /\ Goto(o, "done")
  /\ UNCHANGED <<tables, locals, expired, stripe, processed, faults>>

CommitOrder(o) ==
  /\ pc[o] = "claim"
  /\ claimed[o] = Len(cart[o])
  /\ status' = [status EXCEPT ![o] = "PENDING"]
  /\ seat' = [s \in Seats |-> IF seatLock[s] = o THEN Held(o) ELSE seat[s]]
  /\ Unlock(o)
  /\ Goto(o, "done")
  /\ UNCHANGED <<termin, tickets, locals, expired, stripe, processed, faults>>

(***************************************************************************)
(* initiateCheckout opens a Stripe session for a PENDING order; the        *)
(* customer may complete it at any later time.                             *)
(***************************************************************************)
InitiateCheckout(o, e) ==
  /\ status[o] = "PENDING"
  /\ session[e] = Nobody
  /\ session' = [session EXCEPT ![e] = o]
  /\ UNCHANGED <<tables, locks, pc, locals, expired, completed, acked,
                 processed, faults>>

CompleteSession(e) ==
  /\ session[e] # Nobody
  /\ e \notin completed
  /\ completed' = completed \cup {e}
  /\ UNCHANGED <<tables, locks, pc, locals, expired, session, acked,
                 processed, faults>>

(***************************************************************************)
(* The webhook: Stripe delivers an event again and again, possibly to      *)
(* several requests at a time, until one of them answers 2xx.              *)
(***************************************************************************)
Receive(h, e) ==
  /\ pc[h] = "idle"
  /\ e \in completed \ acked
  /\ event' = [event EXCEPT ![h] = e]
  /\ Goto(h, "check")
  /\ UNCHANGED <<tables, locks, cart, claimed, held, expiring, revoked,
                 expired, stripe, processed, faults>>

Answer(h) ==
  /\ acked' = acked \cup {event[h]}
  /\ event' = [event EXCEPT ![h] = Nobody]
  /\ held' = [held EXCEPT ![h] = {}]
  /\ Goto(h, "idle")

\* isStripeEventProcessed
SkipProcessed(h) ==
  /\ pc[h] = "check"
  /\ event[h] \in processed
  /\ Answer(h)
  /\ UNCHANGED <<tables, locks, cart, claimed, expiring, revoked, expired,
                 session, completed, processed, faults>>

\* (mutant: the event is marked processed before its order is fulfilled)
MarkOnReceipt(h) ==
  /\ pc[h] = "check"
  /\ event[h] \notin processed
  /\ processed' = processed \cup {event[h]}
  /\ Goto(h, "read")
  /\ UNCHANGED <<tables, locks, locals, expired, stripe, faults>>

NotProcessed(h) ==
  /\ pc[h] = "check"
  /\ event[h] \notin processed
  /\ Goto(h, "read")
  /\ UNCHANGED <<tables, locks, locals, expired, stripe, processed, faults>>

\* fulfillOrder reads the order with its seats before its transaction.
ReadOrder(h) ==
  /\ pc[h] = "read"
  /\ held' = [held EXCEPT ![h] =
                {s \in Seats : seat[s].order = session[event[h]]}]
  /\ Goto(h, "pay")
  /\ UNCHANGED <<tables, locks, cart, claimed, event, expiring, revoked,
                 expired, stripe, processed, faults>>

\* (mutant: UPDATE Order SET status = PAID WHERE id)
PayAnyOrder(h) ==
  LET o == session[event[h]] IN
  /\ pc[h] = "pay"
  /\ OrdersFree(h, {o})
  /\ LockOrders(h, {o})
  /\ Goto(h, "sell")
  /\ UNCHANGED <<tables, seatLock, locals, expired, stripe, processed, faults>>

\* UPDATE Order SET status = PAID WHERE id AND status = PENDING
PayOrder(h) ==
  LET o == session[event[h]] IN
  /\ pc[h] = "pay"
  /\ status[o] = "PENDING"
  /\ OrdersFree(h, {o})
  /\ LockOrders(h, {o})
  /\ Goto(h, "sell")
  /\ UNCHANGED <<tables, seatLock, locals, expired, stripe, processed, faults>>

\* (mutant: the business error is answered like an infrastructure error)
RethrowBusinessError(h) ==
  /\ pc[h] = "pay"
  /\ status[session[event[h]]] # "PENDING"
  /\ Goto(h, "idle")
  /\ event' = [event EXCEPT ![h] = Nobody]
  /\ held' = [held EXCEPT ![h] = {}]
  /\ UNCHANGED <<tables, locks, cart, claimed, expiring, revoked, expired,
                 stripe, processed, faults>>

\* updated.count = 0: a business error (400), which the webhook marks
\* processed.
NoLongerPending(h) ==
  /\ pc[h] = "pay"
  /\ status[session[event[h]]] # "PENDING"
  /\ Goto(h, "mark")
  /\ UNCHANGED <<tables, locks, locals, expired, stripe, processed, faults>>

\* Creates one ticket per seat, sells the seats still HELD, and commits.
SellSeats(h) ==
  LET o == session[event[h]]
      sold == HeldSeatsOf({o})
  IN
  /\ pc[h] = "sell"
  /\ SeatsFree(h, sold)
  /\ status' = [status EXCEPT ![o] = "PAID"]
  /\ tickets' = [tickets EXCEPT ![o] =
                   [s \in Seats |-> IF s \in held[h] THEN @[s] + 1 ELSE @[s]]]
  /\ seat' = [s \in Seats |-> IF s \in sold THEN Sold(o) ELSE seat[s]]
  /\ Unlock(h)
  /\ Goto(h, "mark")
  /\ UNCHANGED <<termin, locals, expired, stripe, processed, faults>>

\* markStripeEventProcessed
MarkProcessed(h) ==
  /\ pc[h] = "mark"
  /\ processed' = processed \cup {event[h]}
  /\ Answer(h)
  /\ UNCHANGED <<tables, locks, cart, claimed, expiring, revoked, expired,
                 session, completed, faults>>

(***************************************************************************)
(* expirePendingOrders                                                     *)
(***************************************************************************)
Expire(o) ==
  /\ status[o] = "PENDING"
  /\ o \notin expired
  /\ expired' = expired \cup {o}
  /\ UNCHANGED <<tables, locks, pc, locals, stripe, processed, faults>>

\* (mutant: expiresAt > now)
FindFresh ==
  /\ pc[Cron] = "idle"
  /\ PendingOf(Orders \ expired) # {}
  /\ expiring' = PendingOf(Orders \ expired)
  /\ Goto(Cron, "seats")
  /\ UNCHANGED <<tables, locks, cart, claimed, event, held, revoked, expired,
                 stripe, processed, faults>>

FindExpiring ==
  /\ pc[Cron] = "idle"
  /\ PendingOf(expired) # {}
  /\ expiring' = PendingOf(expired)
  /\ Goto(Cron, "seats")
  /\ UNCHANGED <<tables, locks, cart, claimed, event, held, revoked, expired,
                 stripe, processed, faults>>

\* (mutant: the seats are released outside the transaction)
ReleaseAtOnce ==
  /\ pc[Cron] = "seats"
  /\ SeatsFree(Cron, HeldSeatsOf(expiring))
  /\ seat' = [s \in Seats |-> IF s \in HeldSeatsOf(expiring) THEN Available
                                                            ELSE seat[s]]
  /\ Goto(Cron, "orders")
  /\ UNCHANGED <<termin, status, tickets, locks, locals, expired, stripe,
                 processed, faults>>

\* First statement: TerminSeat HELD -> AVAILABLE
ReleaseExpiring ==
  /\ pc[Cron] = "seats"
  /\ SeatsFree(Cron, HeldSeatsOf(expiring))
  /\ LockSeats(Cron, HeldSeatsOf(expiring))
  /\ Goto(Cron, "orders")
  /\ UNCHANGED <<tables, orderLock, locals, expired, stripe, processed, faults>>

\* Second statement: Order PENDING -> CANCELLED, and COMMIT
CancelExpiring ==
  /\ pc[Cron] = "orders"
  /\ OrdersFree(Cron, PendingOf(expiring))
  /\ status' = [o \in Orders |-> IF o \in PendingOf(expiring)
                                 THEN "CANCELLED" ELSE status[o]]
  /\ seat' = [s \in Seats |-> IF seatLock[s] = Cron THEN Available
                                                    ELSE seat[s]]
  /\ Unlock(Cron)
  /\ expiring' = {}
  /\ Goto(Cron, "idle")
  /\ UNCHANGED <<termin, tickets, cart, claimed, event, held, revoked, expired,
                 stripe, processed, faults>>

(***************************************************************************)
(* cancelOccurrence. No other transaction touches the Termin row and       *)
(* tickets are only ever inserted by the others, so the locks on those     *)
(* rows block nobody.                                                      *)
(***************************************************************************)
CheckNotCancelled ==
  /\ pc[Organizer] = "idle"
  /\ termin # "CANCELLED"
  /\ Goto(Organizer, "tickets")
  /\ UNCHANGED <<tables, locks, locals, expired, stripe, processed, faults>>

\* a) Termin -> CANCELLED; b) Ticket VALID -> CANCELLED
RevokeTickets ==
  /\ pc[Organizer] = "tickets"
  /\ revoked' = tickets
  /\ Goto(Organizer, "seats")
  /\ UNCHANGED <<tables, locks, cart, claimed, event, held, expiring, expired,
                 stripe, processed, faults>>

\* c) TerminSeat HELD, SOLD -> AVAILABLE
FreeSeats ==
  /\ pc[Organizer] = "seats"
  /\ SeatsFree(Organizer, TakenSeats)
  /\ LockSeats(Organizer, TakenSeats)
  /\ Goto(Organizer, "paid")
  /\ UNCHANGED <<tables, orderLock, locals, expired, stripe, processed, faults>>

\* d) Order PAID -> REFUND_PENDING
RefundPaid ==
  /\ pc[Organizer] = "paid"
  /\ OrdersFree(Organizer, PaidOrders)
  /\ LockOrders(Organizer, PaidOrders)
  /\ Goto(Organizer, "pending")
  /\ UNCHANGED <<tables, seatLock, locals, expired, stripe, processed, faults>>

\* d) Order PENDING -> CANCELLED, and COMMIT
CancelPending ==
  /\ pc[Organizer] = "pending"
  /\ OrdersFree(Organizer, PendingOf(Orders))
  /\ termin' = "CANCELLED"
  /\ status' = [o \in Orders |->
                  CASE orderLock[o] = Organizer -> "REFUND_PENDING"
                    [] o \in PendingOf(Orders) -> "CANCELLED"
                    [] OTHER -> status[o]]
  /\ tickets' = [o \in Orders |-> [s \in Seats |->
                   tickets[o][s] - revoked[o][s]]]
  /\ seat' = [s \in Seats |-> IF seatLock[s] = Organizer THEN Available
                                                         ELSE seat[s]]
  /\ Unlock(Organizer)
  /\ revoked' = NoTickets
  /\ Goto(Organizer, "idle")
  /\ UNCHANGED <<cart, claimed, event, held, expiring, expired, stripe,
                 processed, faults>>

(***************************************************************************)
(* Failures: a transaction that is the victim of a deadlock or of an       *)
(* infrastructure error rolls back. A createOrder then fails for good, a   *)
(* webhook (which may fail outside its transaction too) answers 5xx and    *)
(* Stripe delivers again, the cron runs again the next minute, the         *)
(* organizer may try again.                                                *)
(***************************************************************************)
InProgress(t) ==
  \/ t \in Orders /\ pc[t] = "claim"
  \/ t \in Handlers /\ pc[t] # "idle"
  \/ t = Cron /\ pc[t] \in {"seats", "orders"}
  \/ t = Organizer /\ pc[t] \in {"tickets", "seats", "paid", "pending"}

Rollback(t) ==
  /\ InProgress(t)
  /\ Unlock(t)
  /\ Goto(t, IF t \in Orders THEN "done" ELSE "idle")
  /\ IF t \in Handlers
     THEN /\ event' = [event EXCEPT ![t] = Nobody]
          /\ held' = [held EXCEPT ![t] = {}]
     ELSE UNCHANGED <<event, held>>
  /\ expiring' = IF t = Cron THEN {} ELSE expiring
  /\ revoked' = IF t = Organizer THEN NoTickets ELSE revoked
  /\ UNCHANGED <<tables, cart, claimed, expired, stripe, processed>>

\* The transactions t's next statement has to wait for.
Blockers(t) ==
  LET seatHolders(S) == {seatLock[s] : s \in S} \ {Nobody, t}
      orderHolders(O) == {orderLock[o] : o \in O} \ {Nobody, t}
  IN
  CASE t \in Orders /\ pc[t] = "claim" /\ claimed[t] < Len(cart[t]) ->
         seatHolders({s \in {NextSeat(t)} : seat[s] = Available})
    [] t \in Handlers /\ pc[t] = "pay" ->
         orderHolders(PendingOf({session[event[t]]}))
    [] t \in Handlers /\ pc[t] = "sell" ->
         seatHolders(HeldSeatsOf({session[event[t]]}))
    [] t = Cron /\ pc[t] = "seats" -> seatHolders(HeldSeatsOf(expiring))
    [] t = Cron /\ pc[t] = "orders" -> orderHolders(PendingOf(expiring))
    [] t = Organizer /\ pc[t] = "seats" -> seatHolders(TakenSeats)
    [] t = Organizer /\ pc[t] = "paid" ->
         orderHolders(PaidOrders)
    [] t = Organizer /\ pc[t] = "pending" -> orderHolders(PendingOf(Orders))
    [] OTHER -> {}

\* t waits on a cycle of transactions that wait for each other.
Deadlocked(t) ==
  \E C \in SUBSET Txs :
    /\ t \in C
    /\ \A u \in C : /\ Blockers(u) \cap C # {}
                    /\ \E v \in C : u \in Blockers(v)

\* PostgreSQL's deadlock detector rolls back one transaction of the cycle.
DeadlockVictim(t) ==
  /\ Blockers(t) # {}
  /\ Deadlocked(t)
  /\ Rollback(t)
  /\ UNCHANGED faults

\* Connection loss, the interactive transaction's timeout, ...
InfraError(t) ==
  /\ faults < MaxFaults
  /\ Rollback(t)
  /\ faults' = faults + 1

\* The backend process dies: every open transaction rolls back and every
\* request is lost. A createOrder that had not committed leaves no order.
Restart ==
  /\ faults < MaxFaults
  /\ faults' = faults + 1
  /\ seatLock' = [s \in Seats |-> Nobody]
  /\ orderLock' = [o \in Orders |-> Nobody]
  /\ pc' = [t \in Txs |-> IF t \in Orders /\ pc[t] # "idle" THEN "done"
                                                            ELSE "idle"]
  /\ event' = [h \in Handlers |-> Nobody]
  /\ held' = [h \in Handlers |-> {}]
  /\ expiring' = {}
  /\ revoked' = NoTickets
  /\ UNCHANGED <<tables, cart, claimed, expired, stripe, processed>>

CreateOrder(o) ==
  ReadTermin(o) \/ ClaimSeat(o) \/ SeatTaken(o) \/ CommitOrder(o)
Webhook(h) ==
  \/ SkipProcessed(h) \/ NotProcessed(h) \/ ReadOrder(h) \/ PayOrder(h)
  \/ NoLongerPending(h) \/ SellSeats(h) \/ MarkProcessed(h)
ExpirePendingOrders == FindExpiring \/ ReleaseExpiring \/ CancelExpiring
CancelOccurrence ==
  \/ CheckNotCancelled \/ RevokeTickets \/ FreeSeats \/ RefundPaid
  \/ CancelPending

Next ==
  \/ \E o \in Orders : CreateOrder(o) \/ Expire(o)
  \/ \E o \in Orders, e \in Sessions : InitiateCheckout(o, e)
  \/ \E e \in Sessions : CompleteSession(e)
  \/ \E h \in Handlers, e \in Sessions : Receive(h, e)
  \/ \E h \in Handlers : Webhook(h)
  \/ ExpirePendingOrders
  \/ CancelOccurrence
  \/ \E t \in Txs : DeadlockVictim(t) \/ InfraError(t)
  \/ Restart

Spec == Init /\ [][Next]_vars

(***************************************************************************)
(* Fairness.  The server goes on with what it has started, the cron runs   *)
(* every minute, Stripe redelivers an event until it is acknowledged, and  *)
(* the deadlock detector breaks a deadlock.  Fairness is strong where a    *)
(* statement waits for row locks: PostgreSQL hands a released lock to the  *)
(* statement that waits for it, long before the rolled-back transaction is *)
(* tried again (the cron a minute later, Stripe's retry later still).      *)
(* Nothing obliges a customer or the organizer to start anything.          *)
(***************************************************************************)
FairSpec ==
  /\ Spec
  /\ \A o \in Orders : WF_vars(ClaimSeat(o) \/ SeatTaken(o) \/ CommitOrder(o))
  /\ \A e \in Sessions : SF_vars(\E h \in Handlers : Receive(h, e))
  /\ \A h \in Handlers : /\ WF_vars(Webhook(h))
                        /\ SF_vars(PayOrder(h))
                        /\ SF_vars(SellSeats(h))
  /\ WF_vars(ExpirePendingOrders)
  /\ SF_vars(ReleaseExpiring)
  /\ SF_vars(CancelExpiring)
  /\ WF_vars(RevokeTickets \/ FreeSeats \/ RefundPaid \/ CancelPending)
  /\ SF_vars(FreeSeats)
  /\ SF_vars(CancelPending)
  /\ WF_vars(\E t \in Txs : DeadlockVictim(t))

-----------------------------------------------------------------------------
(***************************************************************************)
(* Properties.                                                             *)
(***************************************************************************)
Statuses == {"NONE", "PENDING", "PAID", "CANCELLED", "REFUND_PENDING"}

\* Every row and local value is well formed; in particular a seat row has
\* an orderId exactly when it is not AVAILABLE (every release resets both).
TypeOK ==
  /\ termin \in {"ON_SALE", "CANCELLED"}
  /\ status \in [Orders -> Statuses]
  /\ seat \in [Seats -> [st : {"AVAILABLE", "HELD", "SOLD"},
                         order : Orders \cup {Nobody}]]
  /\ \A s \in Seats : seat[s].st = "AVAILABLE" <=> seat[s].order = Nobody
  /\ tickets \in [Orders -> [Seats -> Nat]]
  /\ orderLock \in [Orders -> Txs \cup {Nobody}]
  /\ seatLock \in [Seats -> Txs \cup {Nobody}]
  /\ pc \in [Txs -> {"idle", "claim", "done", "check", "read", "pay", "sell",
                     "mark", "seats", "orders", "tickets", "paid", "pending"}]
  /\ cart \in [Orders -> Carts \cup {<<>>}]
  /\ claimed \in [Orders -> Nat]
  /\ expired \subseteq Orders
  /\ session \in [Sessions -> Orders \cup {Nobody}]
  /\ completed \subseteq Sessions
  /\ acked \subseteq Sessions
  /\ processed \subseteq Sessions
  /\ event \in [Handlers -> Sessions \cup {Nobody}]
  /\ held \in [Handlers -> SUBSET Seats]
  /\ expiring \subseteq Orders
  /\ revoked \in [Orders -> [Seats -> Nat]]
  /\ faults \in 0..MaxFaults

\* While the occurrence is on sale, the seat map, the orders and the tickets
\* agree: a PENDING order holds exactly the seats of its cart, a PAID order
\* has bought exactly those and has one valid ticket for each, every other
\* order has neither a seat nor a ticket.  No interleaving of createOrder,
\* payments, the expiry and an unfinished cancellation breaks it, so a seat
\* is never sold twice.
SeatLedger ==
  termin = "ON_SALE" =>
    \A o \in Orders, s \in Seats :
      LET inCart == s \in Items(o) IN
      /\ seat[s] = Held(o) <=> status[o] = "PENDING" /\ inCart
      /\ seat[s] = Sold(o) <=> status[o] = "PAID" /\ inCart
      /\ tickets[o][s] = IF status[o] = "PAID" /\ inCart THEN 1 ELSE 0

\* Duplicate deliveries, a second paid session of the same order and Stripe's
\* retries after a crash issue the tickets of an order at most once, on a
\* cancelled occurrence too (the idempotence fulfillOrder documents).
FulfilledOnce == \A o \in Orders, s \in Seats : tickets[o][s] <= 1

\* An event in the StripeEvent table needs no further delivery: its order is
\* no longer waiting for the payment (stripeWebhook marks an event only after
\* fulfillOrder committed or refused for good).
ProcessedIsSettled ==
  \A e \in processed : status[session[e]] \notin {"NONE", "PENDING"}

\* Only an order whose customer paid a session is PAID or is due a refund:
\* cancelOccurrence promises no money back for an unpaid cart.
PaidOnlyIfCharged ==
  \A o \in Orders :
    status[o] \in {"PAID", "REFUND_PENDING"} =>
      \E e \in completed : session[e] = o

\* A sold seat stays with its order as long as the occurrence is on sale, and
\* an order that expired or was cancelled never comes back to life: a late
\* payment does not take seats that may be someone else's by now.
SoldStaysSold ==
  [][/\ \A s \in Seats :
          seat[s].st = "SOLD" /\ termin' = "ON_SALE" => seat'[s] = seat[s]
     /\ \A o \in Orders :
          status[o] \in {"CANCELLED", "REFUND_PENDING"} =>
            status'[o] = status[o]]_vars

\* SeatCheckout implements the abstract sale.
Phase(st) ==
  CASE st = "NONE" -> "new"
    [] st = "PENDING" -> "pending"
    [] st = "PAID" -> "paid"
    [] OTHER -> "ended"

Sale == INSTANCE SeatSale WITH
  open <- termin = "ON_SALE",
  phase <- [o \in Orders |-> Phase(status[o])],
  owner <- [s \in Seats |-> seat[s].order]

\* Every committed step is one step of the abstract sale, or none.
ImplementsSale == Sale!SaleSpec

\* An expired order does not stay PENDING: despite the opposite lock orders of
\* the expiry and of fulfillOrder, it ends up paid or cancelled.
ExpiredSettles == \A o \in Orders : o \in expired ~> status[o] # "PENDING"

\* Every completed payment is eventually processed, whatever crashes, deadlocks
\* and duplicate deliveries happen in between.
PaymentIsProcessed == \A e \in Sessions : e \in completed ~> e \in processed

\* "deterministic order, hence no deadlock between concurrent orders": two
\* createOrder transactions never wait for each other.
CreateOrdersNeverDeadlock ==
  \A o1, o2 \in Orders : ~(o1 \in Blockers(o2) /\ o2 \in Blockers(o1))

\* cancelOccurrence stops the sale and invalidates the tickets: a cancelled
\* occurrence has no VALID ticket the scanner would accept.
CancelledHasNoValidTicket ==
  termin = "CANCELLED" => tickets = NoTickets

=============================================================================
