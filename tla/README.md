# A verification project for maxiticket

TLA+ modules of what maxiticket does to its orders, tickets, payments, invoices, accounts and support tickets: the NestJS
backend under `src/backend/src` with its Prisma transactions on PostgreSQL, its cron jobs, the Stripe webhook and the
mailbox it polls, and those pages of the Next.js frontend under `src/frontend/src` whose stale state or late answers
matter. TLC checks small instances; TLAPS proves every safety property of the passing runs for all sizes, and that the sale of
numbered seats implements its abstract specification. What only TLC checks is liveness.

## 1. The system

| Component | State it keeps | Operations | Calls / is called by | What makes it correct |
|---|---|---|---|---|
| Seated sale `orders/orders.service.ts` | `Order`, `OrderItem`, `Ticket`, `TerminSeat` | createOrder, initiateCheckout, fulfillOrder, expirePendingOrders | webhook calls fulfillOrder; the minute cron expires; shares rows with cancellation and refunds | a seat belongs to one order; tickets once per payment; an unpaid cart gives its seats back |
| Stripe webhook `payments/` | `StripeEvent` | stripeWebhook | Stripe delivers until 2xx; calls fulfillOrder | every payment processed, each once |
| Capacity of unnumbered types `orders/`, `ticket-types/` | none: sold = sum over PENDING and PAID orders | createOrder, qrCheckout, posOrder, compOrder, create, update, remove | four channels, two edit forms and the counter's page on one `TicketType` row | not more sold than there is |
| Event cancellation `orders/event-cancel.service.ts` | writes `Show`, `Termin`, `Ticket`, `TerminSeat`, `Order` | cancelOccurrence, cancelEvent, requestEventCancel | races with every sale, refund and scan | no ticket and no paid order left behind |
| Refunds `refunds/` | `RefundRequest`, `Order.status` | requestRefund, review, markRefunded | writes tickets, seats, coupons | a closed refund closes everything, once |
| Scanning `scan/`, scanner page | `Ticket.status`, `ScanLog` | validateScan | races with itself, cancellation, refunds | one entry per ticket |
| Shop pages, coupons, fees `coupons/`, `events/`, `checkout/` | cart in localStorage, `Coupon`, `CouponRedemption`, sums of an `Order` | listShows, feeQuote, validate, revalidateForOrder, applyToOrder, initiateCheckout, create, remove | late answers of quotes and checks; the offer changes under the page | charged what the button said; books agree with the bank |
| Ticket delivery `orders-mail.helper.ts` | `ticketsEmailedAt/Attempts` | deliverTickets, resend, retryTicketDelivery (cron), posEmailTickets | after fulfilment, by cron, by the desk | the desk reads the truth; retries end |
| Counter, eKasa `ekasa/`, `pos/` | `Order.ekasaStatus`, the register | posOrder, registerSaleForOrder | counter's page | REGISTERED means there is a receipt |
| Gateways `payment/` | `PaymentGatewayConfig` | get/setActiveGateway | checkout and webhook | no payment is answered away |
| Billing `billing/` | `Invoice`, `InvoiceLineItem` | createDraft, lines, finalize, send, markPaid, delete, runAuto | crons, clerks' pages | numbers without gap; what was mailed is what is kept; billed once |
| Accounts, sessions `auth/`, `users/`, `members/`, `scanners/` | `User`, `PasswordResetToken`, `RefreshToken`, cookies, tokens in tabs | login, register, refresh, logout, forgot, reset, create, invite, setActive, updateRole, delete | tabs share a cookie; pages show old rows | one live token per session; a switch does what it says |
| Helpdesk `helpdesk/` | tickets, messages, mailbox cursor | poll, handleMessage, reply, patch | interval, IMAP, operators' pages | each mail once, none blocks the cursor |
| Assistant `assistant/`, `telegram/` | `Conversation`, its messages | chat, escalate, closeOne | widget, minute cron | handed over once |
| Occurrences, seat maps, venues `termins/`, `seatmaps/`, `venues/` | `SeatMap`, `Section`, `Termin`, `TerminSection`, `TerminSeat` | createMap … deleteSection, applyModeChange | before and during the sale | nothing sold is lost; one plan on sale |
| POS closures, catalogue, settings, metrics, mail, PDF, storage, infrastructure | single rows, or none | create/read/update/delete, formatting | – | not modelled (section 9) |

What is hard here: every operation reads first and writes later; the transactions run under READ COMMITTED, where each
statement sees what was committed before *it* began and an `UPDATE` re-examines rows it had to wait for; statements
lock rows in different orders; Stripe redelivers; crons run beside the requests and beside each other; work started after a
commit is lost when the process dies; `cancelOccurrence` changes rows of every other component by status, one statement after
another; pages act on what they loaded, and answers to them are late, lost or out of order.
`PROJECT.json` lists these hazards line by line with the properties that would catch each, or the statement that fails.

## 2. Modules

| Module | What it is |
|---|---|
| `SeatSale` | abstract sale of numbered seats: Reserve, Pay, Lapse, CallOff, one atomic step each |
| `SeatCheckout` | createOrder, Stripe checkout, webhook and fulfillOrder, expiry, cancelOccurrence, statement by statement with row locks, deadlocks, failures, restarts; implements `SeatSale` |
| `SeatCheckout_proofs` | inductive invariant of `SeatCheckout`; type correctness, the safety properties, the refinement of `SeatSale` |
| `Capacity` | the last units of a ticket type: four channels, two edit forms, deletion, the counter's page, the later life of the orders |
| `Refunds` | refund requests, staff, scanners, both cancellations and coupon redemption on paid orders, with their pages |
| `Shopping` | from the filtered list of events to the session: carts, quotes, coupon checks, charges |
| `Delivery` | from a sale to the tickets in the buyer's hands: gateway switch, receipt, mail with its three callers, the pages that tell about it |
| `Billing` | invoices: drafts of the crons and clerks, lines, numbers, mail, payment |
| `Accounts` | one account and everybody who administers it; password links |
| `Sessions` | extends `Accounts`: refresh tokens, the cookie, the tabs of a browser |
| `Helpdesk` | mailbox, poller, operators |
| `Assistant` | the chat, its hand-over to support, the closing cron |
| `Plans` | drawing plans, switching an occurrence between ticket types and a plan, the orders meanwhile |
| `Capacity_proofs` `Refunds_proofs` `Sessions_proofs` `Plans_proofs` `Billing_proofs` | the inductive invariant of each of these modules, and the properties that follow from it |
| `Support_proofs` | the same for `Helpdesk` and `Assistant`, the two ways into support |
| `Shop_proofs` | the same for `Shopping` and `Delivery`, from the shop's pages to the tickets |
| `MC…` | instances for TLC: combinations of actors, symmetry, initial values |

`Support_proofs` and `Shop_proofs` extend two models each, so `Assistant` and `Delivery` name their initial state, next-state relation,
specification and bound of faults after themselves (`AssistantSpec`, `DeliverySpec`), and the others keep `Init`, `Next`, `Spec`.

The modules meet at the rows they share. `SeatCheckout` takes the cancellation against the sale and `Refunds` takes it against
what follows; `Delivery` has the sale as one step because `SeatCheckout` has its statements; `Shopping` has the amounts,
`Capacity` the quantities; `Sessions` composes the accounts with the tokens in one next-state relation (`Administer` leaves the
tokens alone, `ResetAndRevoke` and `DeleteWithTokens` write both).

### State and actions against the code

**Table variables hold committed rows.** In `SeatCheckout` an `UPDATE` takes the row locks (`seatLock`, `orderLock`),
waits while another transaction has one of them, and what it will write follows from who holds the lock; it is written
at `COMMIT` and forgotten at a rollback. So `HELD`, `SOLD` and `CANCELLED` become visible to others when they do in PostgreSQL.
The last statement of a transaction and its commit are one action, since nobody can see a state in between. A statement takes all
its row locks at once, which drops deadlocks within single statements. `Blockers` is the wait-for
relation; `DeadlockVictim` may roll back any transaction of a cycle. `pc` names the next statement of each request:
`claim` (createOrder), `check` `read` `pay` `sell` `mark` (webhook), `seats` `orders` (expiry), `tickets` `seats`
`paid` `pending` (cancellation). `cart`, `held`, `expiring`, `revoked` are what was read before, or matched by, the
transaction: reads that can be stale. Left out of `SeatCheckout`: the order number and the retry on its collision; consent; the
awaits of `initiateCheckout` (they commute with everything here); card details; the synchronous mock provider; mails. The two
`cancelOccurrence` statements for free orders and for refund requests match nothing when all orders are paid
through Stripe; they are in `Refunds`.

**Capacity.** There is no counter: `Sold` is the aggregate the code computes, a sum of quantities, written as the number of
`Units` (pairs of an order and a position in it), so that what is known of finite sets applies to it. `seen` is the `totalQuantity` a
request read at its start (createOrder passes it to `assertCapacityAtomic`, which counts again but does not read the
capacity again). `FOR UPDATE` conflicts with the `FOR KEY SHARE` lock that the foreign key takes when an
order item is inserted, so the lock holds up the inserts of the channels that do not take it; that is modelled. The
later life of an order (`Life`) is one step per transaction, since its races are the subject of the other modules. `edit` is the open form on
the ticket-types page or on the card of the show's page, `shelf` what the counter's page shows as remaining.

**Refunds.** Transactions that change rows by id hold their locks from the first statement to the commit, so one step
stands for each. A cancellation chooses by status, one statement at a time; `revoked` and `doomed` are the rows it has matched,
and a transaction that wants one of them waits. Dialogs stay open with an error after a lost answer (`Fail`) and may be sent
again or dismissed. Calls that are refused and change nothing are omitted.

**Shopping.** `page` is what a tab shows and `call` the order it is making; `quotes` are fee quotes under way, `latest` the one
whose answer still counts (the `active` flag of the effect), `shown` the amount on the button when it is pressed. The server's part is one
step per statement: CreateOrder, Revalidate, ApplyDiscount, ChargeFee, OpenSession. The list of events keeps how many loads
of each filter are under way (`asked`), since any of their answers may come last.

**Delivery.** `jobs` has one delivery per caller (the sale, the cron, the desk), each with the steps of `deliverTickets`: raise
the attempts, read, mail, record. `mailed` and `receipted` are what the outside world has seen; the order's own transaction is one step.

**Billing.** A call of `InvoiceService` is a check followed by writes by id (`call`); a page shows a status that may be old
and offers the buttons of it. `Alone` says whether two calls on one invoice, and two runs, may overlap. Amounts are units.

**Accounts, Sessions.** A page's call is a read with a decision and a later write (`call`), so that rows change in between.
A refresh runs from the tab through the route handler to the backend (`find`, `claim`, `issue`) and back; the
cookie changes when the answer arrives. There are two cookies of one name, for the host and for the domain, as the handlers set them.

**Helpdesk, Assistant.** One action per database call or mail where another actor can come between: the poller's round
(`poll`), the thread's transaction and the cursor; the chat request's steps from finding the conversation to the history of
the ticket; the closer's claim, summary and notice. A failure or restart may follow any step.

**Plans.** `applyModeChange` is a chain of calls: check, delete, update and create, each a step of `UpdateTermin`; an order is
chosen on the page, committed later, paid, expired or refunded. Foreign keys refuse or cascade as in `schema.prisma`.

**Pages** are in the models where what they show decides what is called, or where a property is about what they say. Wording, layout,
translations and validation that the server repeats are left out.

## 3. Runs

| Run | Instance | Checks | Shows |
|---|---|---|---|
| `seat_checkout` | 2 orders, 2 seats, carts `s1`, `s1 s2`, `s2 s1`; 2 webhook requests, 2 sessions, 1 fault; 1.5 M states | `TypeOK` `SeatLedger` `FulfilledOnce` `ProcessedIsSettled` `PaidOnlyIfCharged` `SoldStaysSold` `ImplementsSale` | the statement-level sale is safe and implements `SeatSale` |
| `seat_checkout_live` | 2 orders, 1 seat, 1 request, 1 session, 1 fault | `ExpiredSettles` `PaymentIsProcessed` | deadlocks, a restart and redeliveries only delay |
| `cancelled_ticket` | as `seat_checkout` | `CancelledHasNoValidTicket`: **violated** | a payment between two statements of the cancellation |
| `capacity` | 3 requests (web, web, counter; web, QR, counter; web, QR, comp), 2 units, quantity change to 1, 2 forms; 0.43 M states | `CapacityTypeOK` `WebStaysWithinCapacity` `EveryBuyerAnswered` | createOrder stays within the capacity it read; no refusal or failure leaves the type locked |
| `refunds` | 1 order, 2 requests, 2 staff, 2 scanners, both cancellations; 4.9 M states | `RefundsTypeOK` `EnteredOnce` `RefundedIsClosed` `CouponLedger` `RevokedForGood` | tickets, seats and coupon stay consistent under every interleaving |
| `sessions` | 1 account, 2 tabs, 1 page, 1 link, 3 tokens; 4.3 M states | `SessionsTypeOK` `OneLiveToken` `ResetEndsSessions` `SwitchDoesWhatItSays` | rotation never forks a session; a reset ends the others; old pages do no harm |
| `shopping` | 1 tab, up to 2 tickets in 2 orders, coupon of 80 per cent with one use, 1 change of price or fee, 2 loads of the list; 6.5 M states | `ShoppingTypeOK` `ChargedAsRecorded` `ChargedAsShown` | the customer pays what the button said |
| `delivery` | 1 order of any channel, 2 addresses, 3 attempts, 1 switch, 1 resend, 1 restart; 0.64 M states | `DeliveryTypeOK` `AcknowledgedIsSettled` `SentByTheDesk` `RetryingEnds` | no payment is answered away; the desk reads the truth; retries end |
| `plans` | 2 plans, a numbered and an unnumbered section, 2 orders, 3 switches; 1.4 M states | `PlansTypeOK` `SalesSurvivePlanning` `PlanOfItsMap` `PageTellsPlan` | planning loses nothing sold but what is overtaken between check and deletion |
| `billing` | 1 event, 1 month, 2 invoices, 1 clerk, runs one after another, 1 failure; 3.0 M states | `BillingTypeOK` `NumbersWithoutGap` `SentAsRecorded` `BilledOnce` | numbers, mails and books agree through failures |
| `assistant` | 2 requests, 2 closing runs, 2 conversations, 2 tickets, 1 failure; 5.4 M states | `HandedOverOnce` | one ticket, one summary, whatever overlaps |
| `helpdesk` | 1 ticket, 1 operator, 2 mails, 2 failures; 0.41 M states | `HelpdeskTypeOK` `ThreadHoldsMail` `CursorMovesOn` | each mail once and in order; nothing stops the cursor |

**Why the bounds are enough.** The hazards are between two actors, and each run has two of every kind that may run
twice, the expiry (a run takes far less than its minute) and the organizer being single, in one backend container (`src/ROADMAP.md`). Two carts that overlap in one
seat and list two seats in both orders give conflict, partial claim and deadlock. Two sessions of possibly one order and two
requests give duplicate delivery, double payment and redelivery after a failure. Two units and three requests
make a recount differ from the first count, and each mix puts a web order against another channel. One order of `Refunds` is
enough because orders of one occurrence meet only at the coupon, whose counter two requests of one order already dispute. Three
tokens are a log-in, a rotation and a rival rotation. One use and two orders let a coupon run out between check and
payment; one change lets the offer differ from the page. Two sections, one of each mode, in two plans let a switch
delete and create rows of either kind, and three switches return to a plan left half created. Two mails
give an order to keep, two failures a lost answer and its repeat. The safety properties are also proved for all sizes (section 5), so that
the bounds matter for liveness and for the mutants only.
Orders, handlers, sessions, requests, staff, scanners, tabs and invoices are interchangeable; symmetry is used in runs without liveness only.

`CHECK_DEADLOCK FALSE` throughout: the system may stop, when all requests have been made and answered.

### Counterexamples by hand

These statements of a comment, a page or common sense do not hold. Each has a configuration with which TLC finds the
counterexample (`tlc -config MC….cfg MC….tla`); the first is the run `cancelled_ticket`.

| Configuration | Statement | What the code does |
|---|---|---|
| `MCSeatCheckoutCancel` | `CancelledHasNoValidTicket`: event-cancel.service.ts:62 "zneplatni lístky" | a fulfilment that commits after the ticket statement leaves valid tickets of a cancelled occurrence |
| `MCSeatCheckoutDeadlock` | `CreateOrdersNeverDeadlock`: orders.service.ts:298 "bez deadlockov" | seats are claimed in the client's order (309); only the capacity locks are sorted |
| `MCCapacityRefund` | `NoOversell`: orders.service.ts:366 "ATOMICKÁ ochrana proti oversell" | orders with a refund requested are not counted (402) while their tickets are valid; the units are sold again |
| `MCRefundsCancel` | `SubsumedByCancellation`: event-cancel.service.ts:83 "subsumované zrušením" | the request stays open; a rejection after the cancellation makes the order PAID |
| `MCBillingRace` | `NumberStays`: invoice.service.ts:268 "Race-safe." | two finalize calls on one invoice both see DRAFT and number it one after the other |
| `MCDeliveryCounter` | `CounterSaysSent`: messages/en.json:1234 "Tickets sent to {email}." | posOrder answers emailSent when the delivery has only been started (1301-1316) |
| `MCHelpdeskReopen` | `ClosedAtIsOfTheClosed`: helpdesk.service.ts:92 "pri znovuotvorení sa musí zmazať" | the poller reopens a ticket and leaves closedAt (helpdesk-mail.service.ts:262) |
| `MCShoppingStuck` | `LoadingEnds` | a full-price coupon accepted during the first quote leaves feeLoading set for ever (checkout/page.tsx:96-108) |
| `MCShoppingStale` | `ListIsOfFilter` | the answer for an earlier filter may come last and is shown (EventsClient.tsx:103) |

## 4. Fairness

`SeatCheckout`: the server goes on with what it has begun (weak fairness of the next statement), the cron runs every minute, Stripe
redelivers an event until it is acknowledged, PostgreSQL breaks deadlocks. A statement that waits for row locks gets
strong fairness: a released lock goes to the statement that waits, long before the rolled-back rival (the cron a minute
later, Stripe's retry later still) returns. `Capacity`: strong fairness of each request's next statement, for the same reason (lock
queues of PostgreSQL). `Delivery`: weak fairness of the deliveries under way and of the retry cron (every five minutes), and strong
fairness of its first update, which the database does not refuse for ever; the mail server may fail as often as it likes. `Helpdesk`: weak fairness of the poller's next step, an interval of the server. Nothing
obliges a customer, the organizer, staff or an operator to start anything, and failures are bounded where a promise is about what happens
in the end. The other modules state safety only.

## 5. What is proved

For every value of the constants that satisfies the named assumptions: any number of orders, seats, requests, clerks, tabs, mails,
plans and sections, and any bound on faults and repetitions.

| Module | Theorem | States |
|---|---|---|
| `SeatCheckout_proofs` | `TypeCorrect` `LedgerAgrees` `OneFulfilment` `MarkedEventsAreSettled` | `TypeOK` `SeatLedger` `FulfilledOnce` `ProcessedIsSettled` |
| `SeatCheckout_proofs` | `OnlyChargedOrdersArePaid` `SoldSeatsStay` `CheckoutImplementsSale` | `PaidOnlyIfCharged` `SoldStaysSold` `ImplementsSale` |
| `Capacity_proofs` | `StockWellFormed` `WebOrdersFit` | `CapacityTypeOK` `WebStaysWithinCapacity` |
| `Refunds_proofs` | `RowsWellFormed` `OneEntryPerTicket` `RefundsStayClosed` `CouponCounted` `RevokedTicketsStay` | `RefundsTypeOK` `EnteredOnce` `RefundedIsClosed` `CouponLedger` `RevokedForGood` |
| `Sessions_proofs` | `SessionsWellFormed` `RotationNeverForks` `ResetLeavesNoSession` `SwitchTurnsAsAsked` | `SessionsTypeOK` `OneLiveToken` `ResetEndsSessions` `SwitchDoesWhatItSays` |
| `Shop_proofs` (`Shopping`) | `ShoppingTypeCorrect` `BooksAgree` `ButtonIsCharge` | `ShoppingTypeOK` `ChargedAsRecorded` `ChargedAsShown` |
| `Shop_proofs` (`Delivery`) | `DeliveryTypeCorrect` `NoPaymentAnsweredAway` `DeskIsToldTheTruth` | `DeliveryTypeOK` `AcknowledgedIsSettled` `SentByTheDesk` |
| `Support_proofs` (`Helpdesk`) | `DeskWellFormed` `NoMailLost` | `HelpdeskTypeOK` `ThreadHoldsMail` |
| `Support_proofs` (`Assistant`) | `ConversationHandedOverOnce` | `HandedOverOnce` |
| `Plans_proofs` | `KeysHold` `SoldIsKept` `OnePlanOnSale` `PageAnswersTruly` | `PlansTypeOK` `SalesSurvivePlanning` `PlanOfItsMap` `PageTellsPlan` |
| `Billing_proofs` | `LedgerWellFormed` | `BillingTypeOK` |
| `Billing_proofs` | `YearWithoutGap` `MailedIsRecorded` `CronsBillOnce` `NumberStaysAlone`, all under `Alone` | `NumbersWithoutGap` `SentAsRecorded` `BilledOnce` `NumberStays` |

### Assumptions

* `CartsAssumption`: the code removes repeated seats. `CapacityAssumption`: finitely many requests, quantities of at least 1 (the DTOs
  require it), totals that are not negative. `PlansAssumption`: every section is drawn in one map (a foreign key of its row).
* `ShoppingAssumption`: prices are not negative, a fee is at most 100 per cent, a coupon's value is what `buildBase` and `normalizeValue` let
  pass (`ValidValue`), an order takes at least one ticket. Amounts are whole cents, percentages whole numbers. `DeliveryAssumption`: a gateway with a secret is a gateway.
* Every module assumes that its actors are different things (a cron is no request, a clerk no run, a member of staff no scanner) and that the
  value standing for `null` (`None`, `Nobody`) is no id, number or row. Both are about names only.
* `Alone` is a hypothesis of four theorems of `Billing_proofs`, since the code does not see to it: nothing stops two calls of
  `InvoiceService` on one invoice, or two runs of a cron that take longer than their interval. With it off TLC finds `NumberStays` violated
  (`MCBillingRace`). The hypothesis is what one clerk at a time and one run at a time amount to; `NumberStaysAlone` says that the overlap is the only
  way a number is ever changed.

### The arguments

In each module the property is not inductive, because it is about committed rows while the step that could break it is a write decided on
earlier reads. Each invariant `IInv` says what keeps those reads true, or what they can have missed, between read and write. TLC checked each
on its run before it was proved. The proof of a step has one lemma per action, split by the conjuncts it can disturb.

* `SeatCheckout`. What the locks of every transaction protect: a createOrder holds the locks of exactly the seats it has claimed and those were
  available; a webhook past `pay` holds its PENDING order, so that no other transaction can settle it, and the seats it read (`held`)
  are those of the order; the expiry holds every HELD seat of the orders it found; the cancellation holds what its
  statements matched; nobody holds a lock outside a transaction. The refinement maps every commit to one step of `SeatSale` (createOrder to
  Reserve, fulfilment to Pay, the expiry to Lapse, the cancellation and what follows it to CallOff) and everything else to a stutter
  (`OnlyCommitsWrite`).
* `Capacity`. `LockInv`: a web request past `lock` holds the row, alone. `FitInv`: from the recount to the insert, what counts as sold and
  the request's own quantity fit into the total it read. It is kept because an insert by another channel needs the row's key share, which waits, and because
  whatever else happens to an order only lowers the sum (`SoldKept`); a rejection that raises it again concerns orders in `rejected`,
  which the property leaves out, since for them it is false (`MCCapacityRefund`).
* `Refunds`. `TicketInv`: a VALID ticket has no accepted scan, none has two, and `revoked` holds only live tickets, so that a transaction that
  wants one waits. `CouponInv`: the counter is the number of redemption rows, and an order still due has none. `RequestInv` and `CallsInv`: what
  a page or call is about exists. `RefundedIsClosed` joins them as it is.
* `Sessions`. `ForkInv`: between the claim of a rotation and the issue of the pair, the session has no live token and no second rotation.
  `ResetInv`: a pair about to be issued is as new as the last reset, or its session is marked as one that was just being rotated when
  the reset committed, which `ResetEndsSessions` excepts: the code revokes the tokens it finds, and this one is made a moment later.
  `SwitchDoesWhatItSays` needs `AccountInv` only.
* `Helpdesk`. `RoundInv`: a round works on the mail after the cursor and of the cursor's UIDVALIDITY, and goes on only when it is in the thread or
  skipped. `ThreadInv`: the thread has nothing beyond the mail being worked on. A repetition after a lost answer is then found by the test
  of the Message-ID: without that guard the proof fails.
* `Assistant`. `SummaryInv`: a run that owes a summary is the only one for its conversation, which is closed and has no notice yet; the
  conditional update of the claim (`status = OPEN`) is what keeps it, since no step reopens a conversation. `HandOverInv`: no two tickets name one
  conversation (the unique index), a request past the choice of its conversation has one, and a ticket without its history has the request
  that is about to fill it, or something has failed.
* `Shopping`. The property compares the button of one tab with a session that five statements later charges, while the offer may change. Each page,
  cart and call carries the count of `changes` it was read at (`Seen`: not later than now, and if it is now's, its price is the price).
  `PagesInv`: then a discount on the page is what the server would compute, and a fee that is not loading is the fee of the amount shown; `latest`
  is the amount the awaited quote is for, so that an answer that counts is never one for another amount. `CallsInv`: calls write different orders, an
  order under way has been charged nothing, and its sums are as far as the call (`OrderOK`); with the offer unchanged they come to what was shown
  (`ShownOK`). `BooksInv` is about every order, however the statements break off; `UsesInv` counts the uses of the coupon by the orders redeemed.
* `Delivery`. `JobsInv`: a delivery belongs to a sold order, and once the mail is out (`stamp`, `show`) its address is among those mailed to; at
  `show` the order is stamped, so that the badge read then is no warning. `CounterInv`: at the counter there is no badge and the page goes on only with
  the sale made. `AttemptsInv`: attempts made and attempts due stay within the bound of the cron plus one for each mail asked for by hand.
  `AcknowledgedIsSettled` needs no more than the rows: it is about every path through the webhook.
* `Plans`. `DropInv`: once the check for orders has passed, only overtaking orders have rows to lose. `EditInv`: what the
  switch writes is what it read, or the plan it has just deleted. `OrderInv` and `SeatInv` are the foreign keys; `FormInv` is about the page.
* `Billing`. `BaseInv` holds however calls overlap. Under `Alone`, `OwnInv`: a call has its invoice to itself; `GapInv`: a number read by a
  finalize is at most one after the last, so that what the unique index accepts leaves no gap (finalize calls on *different* invoices
  do overlap); `TotalInv`, `MailedInv`: total and mailed copy agree with the lines except during the edit; `RunInv`: what a run
  has yet to bill has not been billed by a run.

### Only model-checked

* Liveness: `ExpiredSettles`, `PaymentIsProcessed`, `EveryBuyerAnswered`, `CursorMovesOn`, `RetryingEnds`. Fairness and ENABLED are out of the prover's reach.
* The violated statements, which have counterexamples.

## 6. Mutants

Each property of a passing run has a mutant in `PROJECT.json`: a definition of the model replaced by what a plausible mistake in
the code would make of it (a dropped status test in a `WHERE`, a lock left out, an event marked too early, a late quote that
still counts, a token revoked by id, an error swallowed). TLC finds the property violated. The mutated forms stand just before the
definition they replace, marked `(mutant: …)`.

## 7. Hazards that no property covers

Beyond the list in `PROJECT.json`, found while modelling and left as they are, because nothing in the repository promises otherwise or
because they need no interleaving to be seen:

* Manual entry on the scanner page pauses the camera (`skener/page.tsx`:393) and calls a handler that returns while paused (146).
  The two-second timer of an accepted ticket (164) still fires after its overlay was dismissed, and starts a second scan loop.
* An edit form of a ticket type sends the whole row it was opened with (`ticket-types/page.tsx`:91): the later of two saves undoes
  the earlier one. A type deleted while an order waits for payment leaves the order's item without a type (ON DELETE SET NULL).
* Two counter sales at once derive the same order number from a count (`orders.service.ts`:1228); a counter sale whose answer is lost
  and that is submitted again is sold twice.
* A crash between the fulfilment and the first attempt at delivery (778) leaves attempts at 0, which the cron does not pick.
  The success page stops polling after one failed request (`success/[id]/page.tsx`:65).
* Any number of unpaid orders may hold the last use of a coupon (`coupons.service.ts`:463); a redemption that runs after the refund is never given back (554).
* Two overlapping runs of the billing job draft twice (`billing-scheduler.service.ts`:119); the month ends at 23:59:59.000 UTC (106);
  numbers are compared as strings (`invoice.service.ts`:282), so the ten-thousandth of a year collides. A draft cut off between
  line and total is finalized as it is (215).
* Two resets with one link both succeed (`auth.service.ts`:280), while `ARCHITECTURE.md`:98 says one-time use.
* The operators' reply, or a ticket closed from an old list, hides an answer of the customer that came meanwhile (`helpdesk.service.ts`:168);
  the ticket page reads `messages` of a row that comes without them (`[id]/page.tsx`:72, 137). The closer overwrites `escalated` (`conversation-closer.service.ts`:70).
* Two organizers who switch one occurrence at once may leave rows of two plans (`termins.service.ts`:88); two maps may become default (`seatmaps.service.ts`:154).
* The seats of an occurrence left again may arrive last on the event page and replace those shown (`EventDetailClient.tsx`:57).

## 8. Plan

Done: all modules of section 2, with a proof of every safety property of the passing runs.

1. `PosClosure`; the event page with two numbered occurrences; two planners of one occurrence.
2. Abstract specifications: a mailbox read in order, which `Helpdesk` implements; a stock of units, which `Capacity` implements
   for web orders.

## 9. Not modelled

POS closures (a read of sums and an insert); the header fields, `paidOutAt`, the PDF and the five-attempt limit of invoices; `requestEventCancel`; coupons
in bulk and their limits per person; discounts at the counter; consent, locale and profile at registration; the assignment of scanners; notes, assignment and
attachments of support tickets; the language model, its tools and `verify.service`; the deletion of an occurrence and the default map. Catalogue
services change single rows independently; metrics and most lists only read; mail, PDF, storage and uploads format and send; guards, CASL,
Prisma and Redis are plumbing; the rest of the frontend presents what the backend decides again.
