------------------------------ MODULE Shopping ------------------------------
(***************************************************************************)
(* What a customer sees and what a customer is charged: the shop's pages   *)
(* in the tabs of one browser, the fee quotes and coupon checks they make, *)
(* and the server's order and checkout calls, for tickets of one type and  *)
(* one coupon.  The organizer, on a list of coupons that may be stale,     *)
(* creates and deletes the coupon, and changes the price; the platform     *)
(* changes the fee.  Amounts are in cents.                                 *)
(***************************************************************************)
EXTENDS Integers, Sequences, FiniteSets

CONSTANTS
  Tabs,        \* tabs of the browser
  Prices,      \* prices the organizer may set
  Percents,    \* processing fees the platform may set
  CouponType,  \* "PERCENTAGE", "FIXED_AMOUNT" or "FREE_TICKET"
  CouponValue, \* percent or cents
  MaxPerOrder, \* tickets in one order
  MaxUses,     \* uses of the coupon
  MaxChanges,  \* bound: changes of price and fee
  MaxTickets,  \* bound: tickets ordered
  MaxAsked,    \* bound: loads of the list of events under way in a tab
  None         \* null

\* What the form lets pass and normalizeValue checks again.
ValidValue ==
  CASE CouponType = "PERCENTAGE" -> CouponValue \in 0..100
    [] CouponType = "FIXED_AMOUNT" -> CouponValue \in Nat \ {0}
    [] CouponType = "FREE_TICKET" -> CouponValue = 100

ASSUME ShoppingAssumption ==
  /\ Prices \subseteq Nat /\ Percents \subseteq 0..100
  /\ ValidValue
  /\ {MaxUses, MaxChanges, MaxTickets, MaxAsked} \subseteq Nat
  /\ MaxPerOrder \in Nat \ {0}
  /\ None \notin Nat

VARIABLES
  price, percent,  \* the ticket type's price, the organizer's fee
  changes,         \* how often either was changed (history)
  coupon,          \* the Coupon row: [state, scope, used]
  panel,           \* the organizer's list of coupons: the uses it shows of
                   \* each coupon in it, None while it is loading
  cart,            \* mt_cart of the browser: [price, quantity, since] or None
  page,            \* what each tab shows
  call,            \* the tab's order and checkout calls, or None
  orders           \* Order rows, with the amount of their session

offer == <<price, percent, changes>>
vars == <<price, percent, changes, coupon, panel, cart, page, call, orders>>

\* A tab that shows the list of events, as the server renders it: with or
\* without the event, as the filter of the address asks, or with an error.
Events ==
  {[at |-> "events", filter |-> f, listed |-> f, list |-> "shown",
    asked |-> [g \in BOOLEAN |-> 0]] : f \in BOOLEAN} \cup
  {[at |-> "events", filter |-> f, listed |-> FALSE, list |-> "failed",
    asked |-> [g \in BOOLEAN |-> 0]] : f \in BOOLEAN}

NoCoupon == [state |-> "none", scope |-> "SHOW", used |-> 0]

\* One code, or many at once; always for the event.  Coupons of one ticket
\* type can no longer be created; there are old ones.
NewCoupon == [state |-> "active", scope |-> "SHOW", used |-> 0]

Init ==
  /\ price \in Prices /\ percent \in Percents
  /\ changes = 0
  /\ coupon \in {NoCoupon, [NewCoupon EXCEPT !.scope = "TICKET_TYPE"]}
  /\ panel = None
  /\ cart = None
  /\ page \in [Tabs -> Events]
  /\ call = [b \in Tabs |-> None]
  /\ orders = <<>>

(***************************************************************************)
(* Money: Math.round on cents, the discount of CouponsService.validate.    *)
(***************************************************************************)
Least(m, n) == IF m < n THEN m ELSE n
Percentage(base, rate) == (base * rate + 50) \div 100
Fee(base) == Percentage(base, percent)

\* A TICKET_TYPE coupon is computed from the price of the moment.
DiscountBase(subtotal, quantity) ==
  IF coupon.scope = "TICKET_TYPE" THEN price * quantity ELSE subtotal

ReductionOf(base) ==
  CASE CouponType = "PERCENTAGE" -> Percentage(base, CouponValue)
    [] CouponType = "FIXED_AMOUNT" -> Least(CouponValue, base)
    [] OTHER -> base

Reduction(subtotal, quantity) == ReductionOf(DiscountBase(subtotal, quantity))

\* (mutant: Reduction alone)
Discount(subtotal, quantity) ==
  Least(subtotal, Reduction(subtotal, quantity))

CouponExists == coupon.state \in {"active", "removing"}
CouponValid == CouponExists /\ coupon.used < MaxUses

(***************************************************************************)
(* The organizer, the platform.                                            *)
(***************************************************************************)
ChangePrice ==
  /\ changes < MaxChanges
  /\ changes' = changes + 1
  /\ price' \in Prices \ {price}
  /\ UNCHANGED <<percent, coupon, panel, cart, page, call, orders>>

ChangeFee ==
  /\ changes < MaxChanges
  /\ changes' = changes + 1
  /\ percent' \in Percents \ {percent}
  /\ UNCHANGED <<price, coupon, panel, cart, page, call, orders>>

\* The coupons of the event, and of its ticket types, with their uses.
Listed == IF CouponExists THEN {coupon.used} ELSE {}

\* When the page opens and after a coupon was created; not by itself.
LoadCoupons ==
  /\ panel = None
  /\ panel' = Listed
  /\ UNCHANGED <<offer, coupon, cart, page, call, orders>>

\* The code must be new.  The list is loaded again afterwards.
CreateCoupon ==
  /\ coupon.state = "none"
  /\ coupon' = NewCoupon
  /\ panel' = None
  /\ UNCHANGED <<offer, cart, page, call, orders>>

\* The list offers to delete what it shows as unused.
Deletable == panel # None /\ 0 \in panel

\* remove() refuses a used coupon, on the row it has read ...
FindUnusedCoupon ==
  /\ Deletable
  /\ coupon.state = "active" /\ coupon.used = 0
  /\ coupon' = [coupon EXCEPT !.state = "removing"]
  /\ UNCHANGED <<offer, panel, cart, page, call, orders>>

\* ... and deletes by id: orders lose their couponId, redemptions go along.
\* The list drops the row.
DeleteCoupon ==
  /\ coupon.state = "removing"
  /\ coupon' = [coupon EXCEPT !.state = "gone", !.used = 0]
  /\ panel' = IF panel = None THEN None ELSE {}
  /\ orders' = [n \in DOMAIN orders |-> [orders[n] EXCEPT !.coupon = FALSE]]
  /\ UNCHANGED <<offer, cart, page, call>>

(***************************************************************************)
(* From the event to the cart.                                             *)
(***************************************************************************)
\* The list of events is loaded for a filter; the last answer to come is what
\* it shows, whichever filter it was for.
ShowList(b, p) ==
  /\ page' = [page EXCEPT ![b] = p]
  /\ UNCHANGED <<offer, coupon, panel, cart, call, orders>>

Asking(p) == {f \in BOOLEAN : p.asked[f] > 0}

Ask(b, f) ==
  /\ page[b].asked[TRUE] + page[b].asked[FALSE] < MaxAsked
  /\ ShowList(b, [page[b] EXCEPT !.filter = f, !.list = "loading",
                                 !.asked[f] = @ + 1])

ChooseFilter(b) ==
  page[b].at = "events" /\ \E f \in BOOLEAN : Ask(b, f)

RetryList(b) ==
  /\ page[b].at = "events" /\ page[b].list = "failed"
  /\ Ask(b, page[b].filter)

ListAnswered(b) ==
  /\ page[b].at = "events"
  /\ \E f \in Asking(page[b]) :
       \/ ShowList(b, [page[b] EXCEPT !.asked[f] = @ - 1, !.listed = f,
                                      !.list = "shown"])
       \/ ShowList(b, [page[b] EXCEPT !.asked[f] = @ - 1, !.list = "failed"])

Cards(p) == p.at = "events" /\ p.list = "shown" /\ p.listed

\* The event's page and the QR page are rendered on the server.
OpenEvent(b) ==
  /\ Cards(page[b])
  /\ page' = [page EXCEPT ![b] = [at |-> "event", price |-> price,
                                 quantity |-> 0, since |-> changes]]
  /\ UNCHANGED <<offer, coupon, panel, cart, call, orders>>

Total(p) == p.price * p.quantity
canAddToCart(p) == p.at = "event" /\ p.quantity > 0

\* Another of the event's occurrences is chosen: nothing of it is.
SelectTermin(b) ==
  /\ page[b].at = "event" /\ call[b] = None
  /\ page' = [page EXCEPT ![b].quantity = 0]
  /\ UNCHANGED <<offer, coupon, panel, cart, call, orders>>

\* The buttons minus and plus of a row, a ticket type or a section.
Steps(p) == {p.quantity - 1, p.quantity + 1} \cap (0..MaxPerOrder)

AdjustQty(b) ==
  /\ page[b].at = "event" /\ call[b] = None
  /\ \E q \in Steps(page[b]) : page' = [page EXCEPT ![b].quantity = q]
  /\ UNCHANGED <<offer, coupon, panel, cart, call, orders>>

\* The effect of the checkout page.  A total of 0 has no fee; any other is
\* quoted.  Answers to earlier quotes no longer count (active = false), so
\* that with a total of 0 nothing ends a loading that has begun.
Quoted(p) ==
  LET base == Total(p) - p.discount IN
  IF base <= 0
  THEN [p EXCEPT !.fee = 0, !.quotes = {}, !.latest = None]
  ELSE [p EXCEPT !.quotes = @ \cup {base}, !.latest = base, !.loading = TRUE]

CheckoutPage(c) ==
  [at |-> "checkout", price |-> c.price, quantity |-> c.quantity,
   since |-> c.since, discount |-> 0, applied |-> FALSE, validating |-> FALSE,
   fee |-> 0, quotes |-> {}, latest |-> None, loading |-> FALSE]

\* addToCart replaces the cart and goes to the checkout.
AddToCart(b) ==
  /\ canAddToCart(page[b]) /\ call[b] = None
  /\ cart' = [price |-> page[b].price, quantity |-> page[b].quantity,
              since |-> page[b].since]
  /\ page' = [page EXCEPT ![b] = Quoted(CheckoutPage(cart'))]
  /\ UNCHANGED <<offer, coupon, panel, call, orders>>

\* The checkout in a tab of its own takes the cart as it is now.
OpenCheckout(b) ==
  /\ page[b].at = "events"
  /\ cart # None
  /\ page' = [page EXCEPT ![b] = Quoted(CheckoutPage(cart))]
  /\ UNCHANGED <<offer, coupon, panel, cart, call, orders>>

\* A page that is left makes no further calls.
Leave(b) ==
  /\ page[b].at # "events"
  /\ \E p \in Events : page' = [page EXCEPT ![b] = p]
  /\ call' = [call EXCEPT ![b] = None]
  /\ UNCHANGED <<offer, coupon, panel, cart, orders>>

(***************************************************************************)
(* The checkout page.                                                      *)
(***************************************************************************)
Show(b, p) ==
  /\ page[b].at = "checkout"
  /\ page' = [page EXCEPT ![b] = p]
  /\ UNCHANGED <<offer, coupon, panel, cart, call, orders>>

\* (mutant: the answer to any quote counts)
AnyQuoteCounts(b, base) ==
  Show(b, [page[b] EXCEPT !.quotes = @ \ {base}, !.fee = Fee(base),
                          !.latest = None, !.loading = FALSE])

\* feeQuote answers: the latest sets the fee and ends the loading.
QuoteAnswered(b, base) ==
  Show(b, IF base = page[b].latest
          THEN [page[b] EXCEPT !.quotes = @ \ {base}, !.fee = Fee(base),
                               !.latest = None, !.loading = FALSE]
          ELSE [page[b] EXCEPT !.quotes = @ \ {base}])

\* A failed quote: no fee is known, and nothing can be paid.
QuoteFails(b) ==
  /\ page[b].at = "checkout" /\ page[b].latest # None
  /\ Show(b, [page[b] EXCEPT !.quotes = @ \ {page[b].latest}, !.fee = None,
                             !.latest = None, !.loading = FALSE])

RetryQuote(b) ==
  /\ page[b].at = "checkout" /\ page[b].fee = None /\ ~page[b].loading
  /\ Show(b, Quoted(page[b]))

\* CouponInput asks for the discount on the cart's total ...
Enterable(p) == p.at = "checkout" /\ ~p.applied /\ ~p.validating

ApplyCoupon(b) ==
  /\ Enterable(page[b])
  /\ Show(b, [page[b] EXCEPT !.validating = TRUE])

CouponAccepted(b) ==
  /\ page[b].at = "checkout" /\ page[b].validating
  /\ CouponValid
  /\ Show(b, Quoted([page[b] EXCEPT !.validating = FALSE, !.applied = TRUE,
                                    !.discount = Discount(Total(page[b]),
                                                         page[b].quantity)]))

CouponRejected(b) ==
  /\ page[b].at = "checkout" /\ page[b].validating
  /\ Show(b, [page[b] EXCEPT !.validating = FALSE])

\* ... which can be taken back.
RemoveCoupon(b) ==
  /\ page[b].at = "checkout" /\ page[b].applied
  /\ Show(b, Quoted([page[b] EXCEPT !.applied = FALSE, !.discount = 0]))

\* The button needs a known fee and no quote under way; it shows the grand
\* total.
Payable(p) == p.at = "checkout" /\ p.fee # None /\ ~p.loading

\* handleCheckout, with the coupon of the moment.
Pay(b) ==
  LET p == page[b] IN
  /\ Payable(p) /\ call[b] = None
  /\ call' = [call EXCEPT ![b] =
                [step |-> "create", code |-> p.applied, discount |-> 0,
                 shown |-> Total(p) - p.discount + p.fee, order |-> 0]]
  /\ UNCHANGED <<offer, coupon, panel, cart, page, orders>>

\* The QR page shows the price; the fee is added, as its note says.
QrPay(b) ==
  /\ canAddToCart(page[b]) /\ call[b] = None
  /\ call' = [call EXCEPT ![b] =
                [step |-> "create", code |-> FALSE, discount |-> 0,
                 shown |-> Total(page[b]) + Fee(Total(page[b])), order |-> 0]]
  /\ UNCHANGED <<offer, coupon, panel, cart, page, orders>>

(***************************************************************************)
(* The server's part: createOrder or qrCheckout, then initiateCheckout.    *)
(***************************************************************************)
At(b, step) == call[b] # None /\ call[b].step = step
Order(b) == orders[call[b].order]

Goto(b, step) ==
  /\ call' = [call EXCEPT ![b].step = step]
  /\ UNCHANGED <<offer, coupon, panel, cart, page>>

Ordered ==
  Cardinality(UNION {{n} \X (1..orders[n].quantity) : n \in DOMAIN orders})

\* From the price of the moment.
CreateOrder(b) ==
  /\ At(b, "create")
  /\ Ordered + page[b].quantity <= MaxTickets
  /\ LET quantity == page[b].quantity
         subtotal == price * quantity IN
     orders' = Append(orders,
       [status |-> "PENDING", quantity |-> quantity, subtotal |-> subtotal,
        discount |-> 0, total |-> subtotal, fee |-> 0, coupon |-> FALSE,
        redeemed |-> FALSE, lines |-> subtotal, charged |-> None])
  /\ call' = [call EXCEPT ![b].order = Len(orders) + 1,
                          ![b].step = IF call[b].code THEN "coupon" ELSE "fee"]
  /\ UNCHANGED <<offer, coupon, panel, cart, page>>

\* The coupon is checked again, for the order's subtotal ...
Revalidate(b) ==
  /\ At(b, "coupon")
  /\ Order(b).status = "PENDING"
  /\ CouponValid
  /\ call' = [call EXCEPT ![b].step = "discount",
                          ![b].discount = Discount(Order(b).subtotal,
                                                   Order(b).quantity)]
  /\ UNCHANGED <<offer, coupon, panel, cart, page, orders>>

Discounted(b, total) ==
  /\ At(b, "discount")
  /\ CouponExists
  /\ LET n == call[b].order IN
     orders' = [orders EXCEPT ![n].coupon = TRUE, ![n].total = total,
                              ![n].discount = call[b].discount,
                              ![n].lines = @ - call[b].discount]
  /\ Goto(b, "fee")

\* (mutant: the total is not written)
DiscountOnly(b) == Discounted(b, Order(b).total)

\* ... discount and total are written, and Stripe sees one line.
ApplyDiscount(b) == Discounted(b, Order(b).subtotal - call[b].discount)

\* The fee of the moment, on what is left to pay for the ticket.
\* (Without a coupon the order is read here, and has to be PENDING.)
ChargeFee(b) ==
  /\ At(b, "fee")
  /\ call[b].code \/ Order(b).status = "PENDING"
  /\ LET n == call[b].order
         fee == Fee(Order(b).lines) IN
     orders' = [orders EXCEPT ![n].fee = fee, ![n].lines = @ + fee]
  /\ Goto(b, "session")

\* The session is opened for the lines; the page drops the cart and leaves.
OpenSession(b) ==
  /\ At(b, "session")
  /\ orders' = [orders EXCEPT ![call[b].order].charged = Order(b).lines]
  /\ cart' = IF page[b].at = "checkout" THEN None ELSE cart
  /\ \E p \in Events : page' = [page EXCEPT ![b] = p]
  /\ call' = [call EXCEPT ![b] = None]
  /\ UNCHANGED <<offer, coupon, panel>>

\* Any step may fail (sold out, invalid coupon, network): the page shows the
\* error, and the next attempt makes a new order.
CheckoutFails(b) ==
  /\ call[b] # None
  /\ call' = [call EXCEPT ![b] = None]
  /\ UNCHANGED <<offer, coupon, panel, cart, page, orders>>

(***************************************************************************)
(* Payment, expiry, redemption.                                            *)
(***************************************************************************)
SetStatus(n, status) ==
  /\ orders[n].status = "PENDING"
  /\ orders' = [orders EXCEPT ![n].status = status]
  /\ UNCHANGED <<offer, coupon, panel, cart, page, call>>

FulfillOrder(n) == orders[n].charged # None /\ SetStatus(n, "PAID")
ExpireOrder(n) == SetStatus(n, "CANCELLED")

RedeemForPaidOrder(n) ==
  /\ orders[n].status = "PAID" /\ orders[n].coupon /\ ~orders[n].redeemed
  /\ orders' = [orders EXCEPT ![n].redeemed = TRUE]
  /\ coupon' = [coupon EXCEPT !.used = @ + 1]
  /\ UNCHANGED <<offer, panel, cart, page, call>>

Next ==
  \/ ChangePrice \/ ChangeFee \/ LoadCoupons \/ CreateCoupon
  \/ FindUnusedCoupon \/ DeleteCoupon
  \/ \E b \in Tabs :
       \/ ChooseFilter(b) \/ RetryList(b) \/ ListAnswered(b)
       \/ OpenEvent(b) \/ AdjustQty(b) \/ SelectTermin(b) \/ AddToCart(b)
       \/ OpenCheckout(b)
       \/ Leave(b)
       \/ page[b].at = "checkout"
            /\ \E base \in page[b].quotes : QuoteAnswered(b, base)
       \/ QuoteFails(b) \/ RetryQuote(b)
       \/ ApplyCoupon(b) \/ CouponAccepted(b) \/ CouponRejected(b)
       \/ RemoveCoupon(b) \/ Pay(b) \/ QrPay(b)
       \/ CreateOrder(b) \/ Revalidate(b) \/ ApplyDiscount(b)
       \/ ChargeFee(b) \/ OpenSession(b) \/ CheckoutFails(b)
  \/ \E n \in DOMAIN orders :
       FulfillOrder(n) \/ ExpireOrder(n) \/ RedeemForPaidOrder(n)

Spec == Init /\ [][Next]_vars

-----------------------------------------------------------------------------
(***************************************************************************)
(* Properties.                                                             *)
(***************************************************************************)
\* Amounts are never negative, the coupon counts an order once at most, a call
\* belongs to a page of its tab, and a list that loads waits for an answer.
ShoppingTypeOK ==
  /\ coupon \in [state : {"none", "active", "removing", "gone"},
                scope : {"SHOW", "TICKET_TYPE"}, used : 0..Len(orders)]
  /\ \A n \in DOMAIN orders :
       /\ orders[n].status \in {"PENDING", "PAID", "CANCELLED"}
       /\ {orders[n].discount, orders[n].total, orders[n].fee} \subseteq Nat
       /\ orders[n].charged \in Nat \cup {None}
  /\ \A b \in Tabs : call[b] # None =>
       page[b].at # "events" /\ call[b].order \in 0..Len(orders)
  /\ \A b \in Tabs : page[b].at = "events" =>
       (page[b].list = "loading" => Asking(page[b]) # {})

\* The books agree with the bank: what a session takes is the order's total
\* and fee, and total and discount make up the price of the tickets.
ChargedAsRecorded ==
  \A n \in DOMAIN orders : orders[n].charged # None =>
    /\ orders[n].charged = orders[n].total + orders[n].fee
    /\ orders[n].total + orders[n].discount = orders[n].subtotal

\* The customer is charged the amount on the button, whatever coupons and
\* quotes came and went, and whatever answers were late, unless price or fee
\* were changed since the event was opened.
ChargedAsShown ==
  [][\A b \in Tabs, n \in DOMAIN orders :
       /\ At(b, "session") /\ call[b].order = n
       /\ orders[n].charged = None /\ orders'[n].charged # None
       /\ page[b].since = changes
       => orders'[n].charged = call[b].shown]_vars

\* A page that loads the fee waits for an answer.  Does not hold: a coupon for
\* the whole price, accepted while the first quote is under way, ends the
\* interest in its answer and not the loading, and the button stays disabled.
LoadingEnds ==
  \A b \in Tabs : page[b].at = "checkout" /\ page[b].loading =>
                    page[b].latest # None

\* With no load under way the list is that of the filter shown.  Does not
\* hold: the answer for an earlier filter may come last.
ListIsOfFilter ==
  \A b \in Tabs : page[b].at = "events" =>
    (page[b].list = "shown" /\ Asking(page[b]) = {} =>
       page[b].listed = page[b].filter)

=============================================================================
