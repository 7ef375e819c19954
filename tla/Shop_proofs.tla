----------------------------- MODULE Shop_proofs ----------------------------
(***************************************************************************)
(* The safety of the way from the shop's pages to the tickets in the       *)
(* buyer's hands, for any number of tabs, orders, prices, fees, addresses, *)
(* mails and failures: Shopping, what the customer sees and is charged,    *)
(* and Delivery, what a paid order leads to and what is said of it.        *)
(***************************************************************************)
EXTENDS Shopping, Delivery, SequenceTheorems, FiniteSetTheorems, TLAPS

(***************************************************************************)
(* Shopping.                                                               *)
(***************************************************************************)
\* Amounts as they are while nothing changes.
Cut(total) == Least(total, ReductionOf(total))
Left(total, code) == total - (IF code THEN Cut(total) ELSE 0)
Amount(total, code, rate) ==
  Left(total, code) + Percentage(Left(total, code), rate)

CouponRow ==
  [state: {"none", "active", "removing", "gone"},
   scope: {"SHOW", "TICKET_TYPE"}, used: Nat]
CartRow == [price: Nat, quantity: Nat, since: Nat]
ListPage ==
  [at: {"events"}, filter: BOOLEAN, listed: BOOLEAN,
   list: {"shown", "failed", "loading"}, asked: [BOOLEAN -> Nat]]
EventPage == [at: {"event"}, price: Nat, quantity: Nat, since: Nat]
PayPage ==
  [at: {"checkout"}, price: Nat, quantity: Nat, since: Nat, discount: Nat,
   applied: BOOLEAN, validating: BOOLEAN, fee: Nat \cup {None},
   quotes: SUBSET Nat, latest: Nat \cup {None}, loading: BOOLEAN]
Pages == ListPage \cup EventPage \cup PayPage
CallRow ==
  [step: {"create", "coupon", "discount", "fee", "session"}, code: BOOLEAN,
   discount: Nat, shown: Int, order: Nat]
SaleRow ==
  [status: {"PENDING", "PAID", "CANCELLED"}, quantity: Nat, subtotal: Nat,
   discount: Nat, total: Nat, fee: Nat, coupon: BOOLEAN, redeemed: BOOLEAN,
   lines: Nat, charged: Nat \cup {None}]

ShopRows ==
  /\ price \in Nat /\ percent \in Nat /\ changes \in Nat
  /\ coupon \in CouponRow
  /\ cart \in CartRow \cup {None}
  /\ page \in [Tabs -> Pages]
  /\ call \in [Tabs -> CallRow \cup {None}]
  /\ orders \in Seq(SaleRow)

\* Every use of the coupon is an order's.
Redeemed(rows) == {n \in DOMAIN rows : rows[n].redeemed}
UsesInv == coupon.used <= Cardinality(Redeemed(orders))

\* What was seen when nothing has changed since is the offer of now.
Seen(o) == o.since <= changes /\ (o.since = changes => o.price = price)

CartInv == cart # None => Seen(cart)

ListOK(p) == p.list = "loading" => Asking(p) # {}

QuoteOK(p) ==
  /\ p.discount <= Total(p)
  /\ p.latest # None => p.latest = Total(p) - p.discount
  /\ p.since = changes =>
       /\ p.discount = IF p.applied THEN Cut(Total(p)) ELSE 0
       /\ p.fee # None /\ ~p.loading =>
            p.fee = Percentage(Total(p) - p.discount, percent)

PageOK(p) ==
  /\ p.at = "events" => ListOK(p)
  /\ p.at # "events" => Seen(p)
  /\ p.at = "checkout" => QuoteOK(p)

PagesInv == \A b \in Tabs : PageOK(page[b])

\* The books of one order, of which only its own call writes the amounts.
BooksOK(o) ==
  /\ o.total + o.discount = o.subtotal
  /\ o.lines = o.total + o.fee
  /\ o.charged # None => o.charged = o.lines

BooksInv == \A n \in DOMAIN orders : BooksOK(orders[n])

Written(b) == call[b] # None /\ call[b].step # "create"

\* The order of a call is charged nothing yet, and is as far as the call.
OrderOK(k, o) ==
  /\ o.charged = None
  /\ k.step # "session" => o.fee = 0
  /\ k.step \in {"coupon", "discount"} => o.discount = 0
  /\ k.step = "discount" => k.discount <= o.subtotal

\* With the offer as the page has seen it, the call comes to what is shown.
ShownOK(k, p, o) ==
  /\ k.shown = Amount(Total(p), k.code, percent)
  /\ k.step \in {"coupon", "discount"} =>
       k.code /\ o.subtotal = Total(p) /\ o.quantity = p.quantity
  /\ k.step = "discount" => k.discount = Cut(Total(p))
  /\ k.step = "fee" => o.lines = Left(Total(p), k.code)
  /\ k.step = "session" => o.lines = k.shown

CallOK(b) ==
  call[b] # None =>
    /\ page[b].at # "events"
    /\ Written(b) =>
         call[b].order \in DOMAIN orders /\ OrderOK(call[b], Order(b))
    /\ ~Written(b) => call[b].order = 0
    /\ page[b].since = changes => ShownOK(call[b], page[b], Order(b))

CallsInv ==
  /\ \A b \in Tabs : CallOK(b)
  /\ \A b, c \in Tabs :
       b # c /\ Written(b) /\ Written(c) => call[b].order # call[c].order

ShopInv ==
  ShopRows /\ UsesInv /\ CartInv /\ PagesInv /\ BooksInv /\ CallsInv

(***************************************************************************)
(* Amounts.                                                                *)
(***************************************************************************)
LEMMA PercentageNat ==
  ASSUME NEW base \in Nat, NEW rate \in Nat
  PROVE  Percentage(base, rate) \in Nat
<1>1. base * rate \in Nat
  OBVIOUS
<1> DEFINE x == base * rate
<1>2. x \in Nat
  BY <1>1
<1> HIDE DEF x
<1>3. (x + 50) \div 100 \in Nat
  BY <1>2
<1> QED
  BY <1>3 DEF Percentage, x

LEMMA PercentageOfNothing == \A rate \in Nat : Percentage(0, rate) = 0
BY DEF Percentage

LEMMA ReductionNat ==
  ASSUME NEW base \in Nat PROVE ReductionOf(base) \in Nat
<1>1. CASE CouponType = "PERCENTAGE"
  BY <1>1, PercentageNat, ShoppingAssumption DEF ReductionOf, ValidValue
<1>2. CASE CouponType = "FIXED_AMOUNT"
  BY <1>2, ShoppingAssumption DEF ReductionOf, ValidValue, Least
<1>3. CASE CouponType \notin {"PERCENTAGE", "FIXED_AMOUNT"}
  BY <1>3 DEF ReductionOf
<1> QED
  BY <1>1, <1>2, <1>3

LEMMA CutBound ==
  ASSUME NEW total \in Nat PROVE Cut(total) \in Nat /\ Cut(total) <= total
BY ReductionNat DEF Cut, Least

LEMMA TotalNat ==
  ASSUME NEW p, p.price \in Nat, p.quantity \in Nat PROVE Total(p) \in Nat
<1>1. \A m, n \in Nat : m * n \in Nat
  OBVIOUS
<1> QED
  BY <1>1 DEF Total

\* No discount is more than the tickets cost, whatever the price has become.
LEMMA DiscountBound ==
  ASSUME price \in Nat, NEW subtotal \in Nat, NEW quantity \in Nat
  PROVE  Discount(subtotal, quantity) \in 0..subtotal
<1>1. \A m, n \in Nat : m * n \in Nat
  OBVIOUS
<1>2. DiscountBase(subtotal, quantity) \in Nat
  BY <1>1 DEF DiscountBase
<1>3. Reduction(subtotal, quantity) \in Nat
  BY <1>2, ReductionNat DEF Reduction
<1> QED
  BY <1>3 DEF Discount, Least

\* While the price is the page's, a coupon of the ticket type and one of the
\* event come to the same.
LEMMA DiscountIsCut ==
  ASSUME NEW quantity
  PROVE  Discount(price * quantity, quantity) = Cut(price * quantity)
BY DEF Discount, Reduction, DiscountBase, Cut

LEMMA LeftBound ==
  ASSUME NEW total \in Nat, NEW code \in BOOLEAN
  PROVE  Left(total, code) \in Nat
BY CutBound DEF Left

(***************************************************************************)
(* The settings, the coupon.                                               *)
(***************************************************************************)
LEMMA OrdersAreRows ==
  ASSUME ShopRows
  PROVE  /\ Len(orders) \in Nat /\ DOMAIN orders = 1..Len(orders)
         /\ \A n \in DOMAIN orders : orders[n] \in SaleRow
BY DEF ShopRows

LEMMA RedeemedIsFinite ==
  ASSUME NEW rows \in Seq(SaleRow)
  PROVE  /\ IsFiniteSet(Redeemed(rows)) /\ Cardinality(Redeemed(rows)) \in Nat
         /\ Cardinality(Redeemed(rows)) <= Len(rows)
<1> DEFINE l == Len(rows)
<1>1. Redeemed(rows) \subseteq 1..l /\ l \in Nat
  BY LenProperties DEF Redeemed
<1> HIDE DEF l
<1>2. IsFiniteSet(1..l) /\ Cardinality(1..l) = l
  BY <1>1, FS_Interval
<1> QED
  BY <1>1, <1>2, FS_Subset, FS_CardinalityType DEF l

\* What was seen before the change is no longer the offer of now.
LEMMA OfferStep ==
  ASSUME ShopInv, ChangePrice \/ ChangeFee PROVE ShopInv'
<1>1. /\ UNCHANGED <<coupon, cart, page, call, orders>>
      /\ changes' = changes + 1 /\ changes \in Nat
      /\ price' \in Nat /\ percent' \in Nat
  <2>1. price \in Nat /\ percent \in Nat /\ changes \in Nat
    BY DEF ShopInv, ShopRows
  <2>2. Prices \subseteq Nat /\ Percents \subseteq Nat
    BY ShoppingAssumption
  <2>3. CASE ChangePrice
    BY <2>1, <2>2, <2>3 DEF ChangePrice
  <2>4. CASE ChangeFee
    BY <2>1, <2>2, <2>4 DEF ChangeFee
  <2> QED
    BY <2>3, <2>4
<1>2. ShopRows' /\ UsesInv' /\ BooksInv'
  BY <1>1 DEF ShopInv, ShopRows, UsesInv, Redeemed, BooksInv
<1>3. ASSUME NEW o, o.since \in Nat, Seen(o)
      PROVE  Seen(o)' /\ o.since # changes'
  BY <1>1, <1>3 DEF Seen
<1>4. CartInv'
  BY <1>1, <1>3 DEF ShopInv, ShopRows, CartInv, CartRow
<1>5. ASSUME NEW b \in Tabs
      PROVE  /\ PageOK(page[b])'
             /\ page[b].at # "events" => page[b].since # changes'
  <2>1. PageOK(page[b]) /\ page[b] \in Pages
    BY DEF ShopInv, ShopRows, PagesInv
  <2>2. page[b].at # "events" => page[b].since \in Nat
    BY <2>1 DEF Pages, ListPage, EventPage, PayPage
  <2>3. page[b].at # "events" => Seen(page[b])' /\ page[b].since # changes'
    BY <1>3, <1>1, <2>1, <2>2 DEF PageOK, Seen
  <2>4. page[b].at = "checkout" => QuoteOK(page[b])'
    BY <1>1, <2>1, <2>3 DEF PageOK, QuoteOK, Total
  <2> QED
    BY <1>1, <2>1, <2>3, <2>4 DEF PageOK, ListOK, Asking
<1>6. PagesInv'
  BY <1>5 DEF PagesInv
<1>7. CallsInv'
  BY <1>1, <1>5
     DEF ShopInv, CallsInv, CallOK, Written, OrderOK, Order
<1> QED
  BY <1>2, <1>4, <1>6, <1>7 DEF ShopInv

\* A list, a coupon that comes or is looked at: no amount and no use changes.
LEMMA CouponStep ==
  ASSUME ShopInv, LoadCoupons \/ CreateCoupon \/ FindUnusedCoupon
  PROVE  ShopInv'
<1>1. UNCHANGED <<offer, cart, page, call, orders>>
  BY DEF LoadCoupons, CreateCoupon, FindUnusedCoupon
<1>2. coupon' \in CouponRow /\ coupon'.used <= coupon.used
  BY DEF LoadCoupons, CreateCoupon, FindUnusedCoupon, NewCoupon, ShopInv,
         ShopRows, CouponRow
<1>3. ShopRows'
  BY <1>1, <1>2 DEF ShopInv, ShopRows, offer
<1>4. UsesInv'
  <2>1. orders' = orders
    BY <1>1
  <2>2. Cardinality(Redeemed(orders)) \in Nat /\ coupon.used \in Nat
    BY RedeemedIsFinite DEF ShopInv, ShopRows, CouponRow
  <2> QED
    BY <1>2, <2>1, <2>2 DEF ShopInv, UsesInv, CouponRow
<1> QED
  BY <1>1, <1>3, <1>4
     DEF ShopInv, offer, CartInv, Seen, PagesInv, PageOK, ListOK, Asking,
         QuoteOK, Total, BooksInv, CallsInv, CallOK, Written, OrderOK, ShownOK,
         Order

(***************************************************************************)
(* Pages.                                                                  *)
(***************************************************************************)
LEMMA PageForms ==
  ASSUME NEW p \in Pages
  PROVE  /\ p.at = "events" => p \in ListPage
         /\ p.at = "event" => p \in EventPage
         /\ p.at = "checkout" => p \in PayPage
         /\ p.at \in {"events", "event", "checkout"}
BY DEF Pages, ListPage, EventPage, PayPage

\* One page becomes another that is as good; the page of a call keeps what the
\* call was made for.
LEMMA PageMoves ==
  ASSUME ShopInv, NEW b \in Tabs, NEW q \in Pages, PageOK(q),
         page' = [page EXCEPT ![b] = q],
         UNCHANGED <<offer, coupon, call, orders>>,
         NEW k \in CartRow \cup {None}, k # None => Seen(k), cart' = k,
         call[b] # None => /\ q.at # "events" /\ q.since = page[b].since
                           /\ Total(q) = Total(page[b])
                           /\ q.quantity = page[b].quantity
  PROVE  ShopInv'
<1>1. ShopRows' /\ page \in [Tabs -> Pages]
  BY DEF ShopInv, ShopRows, offer
<1>2. UsesInv' /\ BooksInv'
  BY DEF ShopInv, UsesInv, Redeemed, BooksInv
<1>3. CartInv'
  BY DEF CartInv, Seen, offer
<1>4. PagesInv'
  <2>1. \A x \in Tabs : page'[x] = q \/ page'[x] = page[x]
    BY <1>1
  <2>2. ASSUME NEW p, PageOK(p) PROVE PageOK(p)'
    BY <2>2 DEF PageOK, ListOK, Asking, Seen, QuoteOK, Total, offer
  <2>3. ASSUME NEW x \in Tabs PROVE PageOK(page[x])'
    <3>1. PageOK(page[x])
      BY DEF ShopInv, PagesInv
    <3>2. PageOK(page'[x])
      BY <2>1, <3>1
    <3> QED
      BY <3>2 DEF PageOK, ListOK, Asking, Seen, QuoteOK, Total, offer
  <2> QED
    BY <2>3 DEF PagesInv
<1>5. CallsInv'
  <2>1. ASSUME NEW x \in Tabs PROVE CallOK(x)'
    <3>1. CallOK(x)
      BY DEF ShopInv, CallsInv
    <3>2. call[x] # None =>
            /\ page'[x].at # "events" /\ page'[x].since = page[x].since
            /\ Total(page'[x]) = Total(page[x])
            /\ page'[x].quantity = page[x].quantity
      BY <3>1, <1>1 DEF CallOK
    <3> QED
      BY <3>1, <3>2 DEF CallOK, Written, OrderOK, Order, ShownOK, Total, offer
  <2> QED
    BY <2>1 DEF ShopInv, CallsInv, Written
<1> QED
  BY <1>1, <1>2, <1>3, <1>4, <1>5 DEF ShopInv

\* The list: it waits only for answers that are to come.
LEMMA ListStep ==
  ASSUME ShopInv, NEW b \in Tabs,
         ChooseFilter(b) \/ RetryList(b) \/ ListAnswered(b)
  PROVE  ShopInv'
<1> DEFINE p == page[b]
<1>1. p \in ListPage /\ p.at = "events"
  BY PageForms DEF ShopInv, ShopRows, ChooseFilter, RetryList, ListAnswered
<1>2. call[b] = None
  BY <1>1 DEF ShopInv, CallsInv, CallOK
<1>3. cart \in CartRow \cup {None} /\ (cart # None => Seen(cart))
  BY DEF ShopInv, ShopRows, CartInv
<1>4. SUFFICES ASSUME NEW q \in ListPage, ListOK(q), ShowList(b, q)
               PROVE  ShopInv'
  <2>1. ASSUME NEW f \in BOOLEAN, Ask(b, f) PROVE ShopInv'
    <3> DEFINE q == [p EXCEPT !.filter = f, !.list = "loading",
                              !.asked[f] = @ + 1]
    <3>0. p.asked[f] + 1 \in Nat
      BY <1>1 DEF ListPage
    <3>1. q \in ListPage
      BY <1>1, <3>0 DEF ListPage
    <3>2. q.asked[f] > 0
      BY <1>1 DEF ListPage
    <3>3. ListOK(q) /\ ShowList(b, q)
      BY <3>2, <2>1 DEF ListOK, Asking, Ask
    <3> HIDE DEF q
    <3> QED
      BY <1>4, <3>1, <3>3
  <2>2. CASE ChooseFilter(b)
    BY <2>1, <2>2 DEF ChooseFilter
  <2>3. CASE RetryList(b)
    BY <2>1, <2>3, <1>1 DEF RetryList, ListPage
  <2>4. CASE ListAnswered(b)
    <3>1. PICK f \in Asking(p) :
            \/ ShowList(b, [p EXCEPT !.asked[f] = @ - 1, !.listed = f,
                                     !.list = "shown"])
            \/ ShowList(b, [p EXCEPT !.asked[f] = @ - 1, !.list = "failed"])
      BY <2>4 DEF ListAnswered
    <3> DEFINE q == [p EXCEPT !.asked[f] = @ - 1, !.listed = f,
                              !.list = "shown"]
               r == [p EXCEPT !.asked[f] = @ - 1, !.list = "failed"]
    <3>2. f \in BOOLEAN /\ p.asked[f] - 1 \in Nat
      BY <1>1 DEF Asking, ListPage
    <3>3. q \in ListPage /\ r \in ListPage
      BY <1>1, <3>2 DEF ListPage
    <3>4. q.list = "shown" /\ r.list = "failed"
      BY <1>1 DEF ListPage
    <3>5. ListOK(q) /\ ListOK(r)
      BY <3>4 DEF ListOK
    <3> HIDE DEF q, r
    <3> QED
      BY <1>4, <3>1, <3>3, <3>5 DEF q, r
  <2> QED
    BY <2>2, <2>3, <2>4
<1>5. q \in Pages /\ PageOK(q)
  BY <1>4 DEF Pages, ListPage, PageOK
<1>6. /\ page' = [page EXCEPT ![b] = q] /\ cart' = cart
      /\ UNCHANGED <<offer, coupon, call, orders>>
  BY <1>4 DEF ShowList
<1> HIDE DEF p
<1> QED
  BY <1>2, <1>3, <1>5, <1>6, PageMoves

\* The event's page is fresh, and its quantity moves.
LEMMA EventStep ==
  ASSUME ShopInv, NEW b \in Tabs,
         OpenEvent(b) \/ SelectTermin(b) \/ AdjustQty(b)
  PROVE  ShopInv'
<1>1. page[b] \in Pages /\ PageOK(page[b]) /\ price \in Nat /\ changes \in Nat
  BY DEF ShopInv, ShopRows, PagesInv
<1>2. call[b] = None
  BY DEF OpenEvent, Cards, SelectTermin, AdjustQty, ShopInv, CallsInv, CallOK
<1>3. cart \in CartRow \cup {None} /\ (cart # None => Seen(cart))
  BY DEF ShopInv, ShopRows, CartInv
<1>4. /\ UNCHANGED <<offer, coupon, call, orders>> /\ cart' = cart
      /\ \E q \in Pages : PageOK(q) /\ page' = [page EXCEPT ![b] = q]
  <2>1. CASE OpenEvent(b)
    <3> DEFINE q == [at |-> "event", price |-> price, quantity |-> 0,
                     since |-> changes]
    <3>1. q \in Pages /\ PageOK(q)
      BY <1>1 DEF Pages, EventPage, PageOK, Seen
    <3> QED
      BY <2>1, <3>1 DEF OpenEvent
  <2>2. ASSUME NEW n \in Nat, page[b].at = "event",
               page' = [page EXCEPT ![b].quantity = n]
        PROVE  \E q \in Pages : PageOK(q) /\ page' = [page EXCEPT ![b] = q]
    <3> DEFINE q == [page[b] EXCEPT !.quantity = n]
    <3>1. page[b] \in EventPage /\ Seen(page[b])
      BY <1>1, <2>2, PageForms DEF PageOK
    <3>2. q \in EventPage /\ Seen(q)
      BY <3>1 DEF EventPage, Seen
    <3>3. q \in Pages /\ PageOK(q)
      BY <3>2 DEF Pages, EventPage, PageOK
    <3>4. page' = [page EXCEPT ![b] = q]
      BY <2>2
    <3> QED
      BY <3>3, <3>4
  <2>3. CASE SelectTermin(b)
    BY <2>2, <2>3 DEF SelectTermin
  <2>4. CASE AdjustQty(b)
    <3>1. PICK n \in Steps(page[b]) : page' = [page EXCEPT ![b].quantity = n]
      BY <2>4 DEF AdjustQty
    <3>2. n \in Nat
      BY <3>1 DEF Steps
    <3> QED
      BY <2>2, <2>4, <3>1, <3>2 DEF AdjustQty
  <2> QED
    BY <2>1, <2>3, <2>4 DEF OpenEvent, SelectTermin, AdjustQty
<1> QED
  BY <1>2, <1>3, <1>4, PageMoves

\* A quote is asked for the amount of now, and none is needed for nothing.
LEMMA QuotedIsGood ==
  ASSUME NEW p \in PayPage, percent \in Nat, Seen(p), p.discount <= Total(p),
         p.since = changes =>
           p.discount = IF p.applied THEN Cut(Total(p)) ELSE 0
  PROVE  /\ Quoted(p) \in Pages /\ PageOK(Quoted(p))
         /\ Quoted(p).at = "checkout" /\ Quoted(p).since = p.since
         /\ Quoted(p).quantity = p.quantity /\ Total(Quoted(p)) = Total(p)
<1> DEFINE base == Total(p) - p.discount
<1>1. base \in Nat /\ Total(p) \in Nat /\ p.discount \in Nat
  BY TotalNat DEF PayPage
<1>2. CASE base <= 0
  <2> DEFINE q == [p EXCEPT !.fee = 0, !.quotes = {}, !.latest = None]
  <2>1. q \in PayPage
    BY DEF PayPage
  <2>2. Quoted(p) = q
    BY <1>2 DEF Quoted
  <2>3. /\ q.at = "checkout" /\ q.since = p.since /\ q.quantity = p.quantity
        /\ q.price = p.price /\ q.discount = p.discount /\ q.fee = 0
        /\ q.applied = p.applied /\ q.latest = None
    BY DEF PayPage
  <2> HIDE DEF q
  <2>4. Total(q) = Total(p) /\ Seen(q)
    BY <2>3 DEF Total, Seen
  <2>5. QuoteOK(q)
    BY <1>1, <1>2, <2>3, <2>4, PercentageOfNothing DEF QuoteOK
  <2> QED
    BY <2>1, <2>2, <2>3, <2>4, <2>5 DEF Pages, PageOK
<1>3. CASE ~(base <= 0)
  <2> DEFINE q == [p EXCEPT !.quotes = @ \cup {base}, !.latest = base,
                            !.loading = TRUE]
  <2>1. q \in PayPage
    BY <1>1 DEF PayPage
  <2>2. Quoted(p) = q
    BY <1>3 DEF Quoted
  <2>3. /\ q.at = "checkout" /\ q.since = p.since /\ q.quantity = p.quantity
        /\ q.price = p.price /\ q.discount = p.discount /\ q.loading = TRUE
        /\ q.applied = p.applied /\ q.latest = base
    BY DEF PayPage
  <2> HIDE DEF q
  <2>4. Total(q) = Total(p) /\ Seen(q)
    BY <2>3 DEF Total, Seen
  <2>5. QuoteOK(q)
    BY <2>3, <2>4 DEF QuoteOK
  <2> QED
    BY <2>1, <2>2, <2>3, <2>4, <2>5 DEF Pages, PageOK
<1> QED
  BY <1>2, <1>3

\* The checkout of a cart that shows what the offer was.
LEMMA CheckoutIsGood ==
  ASSUME NEW k \in CartRow, percent \in Nat, Seen(k)
  PROVE  /\ Quoted(CheckoutPage(k)) \in Pages
         /\ PageOK(Quoted(CheckoutPage(k)))
<1> DEFINE p == CheckoutPage(k)
<1>1. p \in PayPage
  BY DEF PayPage, CartRow, CheckoutPage
<1>2. /\ p.since = k.since /\ p.price = k.price /\ p.discount = 0
      /\ p.applied = FALSE /\ p.price \in Nat /\ p.quantity \in Nat
  BY DEF CheckoutPage, CartRow
<1> HIDE DEF p
<1>3. Total(p) \in Nat
  BY <1>2, TotalNat
<1>4. Seen(p) /\ p.discount <= Total(p)
  BY <1>2, <1>3 DEF Seen
<1> QED
  BY <1>1, <1>2, <1>4, QuotedIsGood DEF p

LEMMA CartStep ==
  ASSUME ShopInv, NEW b \in Tabs, AddToCart(b) \/ OpenCheckout(b)
  PROVE  ShopInv'
<1>1. page[b] \in Pages /\ PageOK(page[b]) /\ percent \in Nat
  BY DEF ShopInv, ShopRows, PagesInv
<1>2. call[b] = None
  BY DEF AddToCart, OpenCheckout, ShopInv, CallsInv, CallOK
<1>3. cart \in CartRow \cup {None} /\ (cart # None => Seen(cart))
  BY DEF ShopInv, ShopRows, CartInv
<1>4. \E k \in CartRow :
        /\ Seen(k) /\ cart' = k
        /\ page' = [page EXCEPT ![b] = Quoted(CheckoutPage(k))]
  <2>1. CASE AddToCart(b)
    <3> DEFINE k == [price |-> page[b].price, quantity |-> page[b].quantity,
                     since |-> page[b].since]
    <3>1. page[b] \in EventPage /\ Seen(page[b])
      BY <1>1, <2>1, PageForms DEF AddToCart, canAddToCart, PageOK
    <3>2. k \in CartRow /\ Seen(k)
      BY <3>1 DEF EventPage, CartRow, Seen
    <3>3. cart' = k /\ page' = [page EXCEPT ![b] = Quoted(CheckoutPage(k))]
      BY <2>1 DEF AddToCart
    <3> QED
      BY <3>2, <3>3
  <2>2. CASE OpenCheckout(b)
    BY <1>3, <2>2 DEF OpenCheckout
  <2> QED
    BY <2>1, <2>2
<1>5. UNCHANGED <<offer, coupon, call, orders>>
  BY DEF AddToCart, OpenCheckout
<1> QED
  BY <1>1, <1>2, <1>4, <1>5, CheckoutIsGood, PageMoves

(***************************************************************************)
(* The checkout page.                                                      *)
(***************************************************************************)
LEMMA Shows ==
  ASSUME ShopInv, NEW b \in Tabs, NEW q \in Pages, PageOK(q), Show(b, q),
         q.at = "checkout", q.since = page[b].since,
         q.quantity = page[b].quantity, Total(q) = Total(page[b])
  PROVE  ShopInv'
<1>1. cart \in CartRow \cup {None} /\ (cart # None => Seen(cart))
  BY DEF ShopInv, ShopRows, CartInv
<1>2. /\ page' = [page EXCEPT ![b] = q] /\ cart' = cart
      /\ UNCHANGED <<offer, coupon, call, orders>>
  BY DEF Show
<1> QED
  BY <1>1, <1>2, PageMoves

LEMMA CheckoutForm ==
  ASSUME ShopInv, NEW b \in Tabs, page[b].at = "checkout"
  PROVE  /\ page[b] \in PayPage /\ Seen(page[b]) /\ QuoteOK(page[b])
         /\ percent \in Nat /\ price \in Nat
         /\ Total(page[b]) \in Nat
<1>1. page[b] \in PayPage /\ Seen(page[b]) /\ QuoteOK(page[b])
  BY PageForms DEF ShopInv, ShopRows, PagesInv, PageOK
<1>2. Total(page[b]) \in Nat
  BY <1>1, TotalNat DEF PayPage
<1> QED
  BY <1>1, <1>2 DEF ShopInv, ShopRows

\* Only the answer to the latest quote sets the fee.
LEMMA AnswerStep ==
  ASSUME ShopInv, NEW b \in Tabs, page[b].at = "checkout",
         NEW base \in page[b].quotes, QuoteAnswered(b, base)
  PROVE  ShopInv'
<1> DEFINE p == page[b]
<1>1. p \in PayPage /\ Seen(p) /\ QuoteOK(p) /\ percent \in Nat
  BY CheckoutForm
<1>2. /\ base \in Nat /\ Fee(base) \in Nat
      /\ Fee(base) = Percentage(base, percent)
  BY <1>1, PercentageNat DEF PayPage, Fee
<1>3. CASE base = p.latest
  <2> DEFINE q == [p EXCEPT !.quotes = @ \ {base}, !.fee = Fee(base),
                            !.latest = None, !.loading = FALSE]
  <2>1. q \in PayPage
    BY <1>1, <1>2 DEF PayPage
  <2>2. /\ q.at = "checkout" /\ q.since = p.since /\ q.quantity = p.quantity
        /\ q.price = p.price /\ q.discount = p.discount
        /\ q.fee = Percentage(base, percent)
        /\ q.applied = p.applied /\ q.latest = None
    BY <1>1, <1>2 DEF PayPage
  <2>3. base = Total(p) - p.discount
    BY <1>1, <1>2, <1>3, ShoppingAssumption DEF QuoteOK
  <2>4. Show(b, q)
    BY <1>3 DEF QuoteAnswered
  <2> HIDE DEF q
  <2>5. Total(q) = Total(p) /\ Seen(q)
    BY <1>1, <2>2 DEF Total, Seen
  <2>6. QuoteOK(q)
    BY <1>1, <2>2, <2>3, <2>5 DEF QuoteOK
  <2>7. q \in Pages /\ PageOK(q)
    BY <2>1, <2>2, <2>5, <2>6 DEF Pages, PageOK
  <2> QED
    BY <2>2, <2>4, <2>5, <2>7, Shows
<1>4. CASE base # p.latest
  <2> DEFINE q == [p EXCEPT !.quotes = @ \ {base}]
  <2>1. q \in PayPage
    BY <1>1 DEF PayPage
  <2>2. /\ q.at = "checkout" /\ q.since = p.since /\ q.quantity = p.quantity
        /\ q.price = p.price /\ q.discount = p.discount /\ q.fee = p.fee
        /\ q.applied = p.applied /\ q.latest = p.latest
        /\ q.loading = p.loading
    BY <1>1 DEF PayPage
  <2>3. Show(b, q)
    BY <1>4 DEF QuoteAnswered
  <2> HIDE DEF q
  <2>4. Total(q) = Total(p) /\ Seen(q)
    BY <1>1, <2>2 DEF Total, Seen
  <2>5. QuoteOK(q)
    BY <1>1, <2>2, <2>4 DEF QuoteOK
  <2>6. q \in Pages /\ PageOK(q)
    BY <2>1, <2>2, <2>4, <2>5 DEF Pages, PageOK
  <2> QED
    BY <2>2, <2>3, <2>4, <2>6, Shows
<1> QED
  BY <1>3, <1>4

\* No fee is known after a failure; a check that begins or ends changes no
\* amount.
LEMMA FormStep ==
  ASSUME ShopInv, NEW b \in Tabs,
         QuoteFails(b) \/ ApplyCoupon(b) \/ CouponRejected(b)
  PROVE  ShopInv'
<1> DEFINE p == page[b]
<1>1. p.at = "checkout"
  BY DEF QuoteFails, ApplyCoupon, Enterable, CouponRejected
<1>2. p \in PayPage /\ Seen(p) /\ QuoteOK(p)
  BY <1>1, CheckoutForm
<1>3. SUFFICES ASSUME NEW q \in PayPage, Show(b, q), q.at = "checkout",
                      q.since = p.since, q.price = p.price,
                      q.quantity = p.quantity, q.discount = p.discount,
                      q.applied = p.applied, q.latest \in {p.latest, None},
                      \/ q.fee = None
                      \/ q.fee = p.fee /\ q.loading = p.loading
               PROVE  ShopInv'
  <2>1. CASE QuoteFails(b)
    <3> DEFINE q == [p EXCEPT !.quotes = @ \ {p.latest}, !.fee = None,
                              !.latest = None, !.loading = FALSE]
    <3>1. q \in PayPage
      BY <1>2 DEF PayPage
    <3>2. /\ q.at = "checkout" /\ q.since = p.since /\ q.price = p.price
          /\ q.quantity = p.quantity /\ q.discount = p.discount
          /\ q.applied = p.applied /\ q.latest = None /\ q.fee = None
      BY <1>2 DEF PayPage
    <3>3. Show(b, q)
      BY <2>1 DEF QuoteFails
    <3> HIDE DEF q
    <3> QED
      BY <1>3, <3>1, <3>2, <3>3
  <2>2. ASSUME NEW v \in BOOLEAN, Show(b, [p EXCEPT !.validating = v])
        PROVE  ShopInv'
    <3> DEFINE q == [p EXCEPT !.validating = v]
    <3>1. q \in PayPage
      BY <1>2 DEF PayPage
    <3>2. /\ q.at = "checkout" /\ q.since = p.since /\ q.price = p.price
          /\ q.quantity = p.quantity /\ q.discount = p.discount
          /\ q.applied = p.applied /\ q.latest = p.latest
          /\ q.fee = p.fee /\ q.loading = p.loading
      BY <1>2 DEF PayPage
    <3> QED
      BY <1>3, <2>2, <3>1, <3>2
  <2> QED
    BY <2>1, <2>2 DEF ApplyCoupon, CouponRejected
<1>4. Total(q) = Total(p) /\ Seen(q)
  BY <1>2, <1>3 DEF Total, Seen
<1>5. QuoteOK(q)
  BY <1>2, <1>3, <1>4 DEF QuoteOK
<1>6. q \in Pages /\ PageOK(q)
  BY <1>3, <1>4, <1>5 DEF Pages, PageOK
<1> QED
  BY <1>3, <1>4, <1>6, Shows

\* The quote is asked for again, a coupon is accepted or taken back.
LEMMA QuoteStep ==
  ASSUME ShopInv, NEW b \in Tabs,
         RetryQuote(b) \/ CouponAccepted(b) \/ RemoveCoupon(b)
  PROVE  ShopInv'
<1> DEFINE p == page[b]
<1>1. p.at = "checkout"
  BY DEF RetryQuote, CouponAccepted, RemoveCoupon
<1>2. /\ p \in PayPage /\ Seen(p) /\ QuoteOK(p) /\ percent \in Nat
      /\ price \in Nat /\ Total(p) \in Nat
  BY <1>1, CheckoutForm
<1>3. SUFFICES ASSUME NEW q \in PayPage, Show(b, Quoted(q)),
                      q.since = p.since, q.price = p.price,
                      q.quantity = p.quantity, q.discount <= Total(p),
                      p.since = changes =>
                        q.discount = IF q.applied THEN Cut(Total(p)) ELSE 0
               PROVE  ShopInv'
  <2>1. CASE RetryQuote(b)
    BY <1>2, <1>3, <2>1 DEF RetryQuote, QuoteOK
  <2>2. CASE CouponAccepted(b)
    <3> DEFINE d == Discount(Total(p), p.quantity)
               q == [p EXCEPT !.validating = FALSE, !.applied = TRUE,
                              !.discount = d]
    <3>1. d \in 0..Total(p)
      BY <1>2, DiscountBound DEF PayPage
    <3>2. p.since = changes => d = Cut(Total(p))
      BY <1>2, DiscountIsCut DEF Seen, Total
    <3> HIDE DEF d
    <3>3. q \in PayPage
      <4>1. d \in Nat
        BY <1>2, <3>1
      <4> QED
        BY <1>2, <4>1 DEF PayPage
    <3>4. /\ q.since = p.since /\ q.price = p.price /\ q.discount = d
          /\ q.quantity = p.quantity /\ q.applied = TRUE
      BY <1>2 DEF PayPage
    <3>5. Show(b, Quoted(q))
      BY <2>2 DEF CouponAccepted, d
    <3> HIDE DEF q
    <3>6. q.discount <= Total(p)
      BY <1>2, <3>1, <3>4
    <3> QED
      BY <1>3, <3>2, <3>3, <3>4, <3>5, <3>6
  <2>3. CASE RemoveCoupon(b)
    <3> DEFINE q == [p EXCEPT !.applied = FALSE, !.discount = 0]
    <3>1. q \in PayPage
      BY <1>2 DEF PayPage
    <3>2. /\ q.since = p.since /\ q.price = p.price /\ q.discount = 0
          /\ q.quantity = p.quantity /\ q.applied = FALSE
      BY <1>2 DEF PayPage
    <3>3. Show(b, Quoted(q))
      BY <2>3 DEF RemoveCoupon
    <3> HIDE DEF q
    <3> QED
      BY <1>2, <1>3, <3>1, <3>2, <3>3
  <2> QED
    BY <2>1, <2>2, <2>3
<1>4. Total(q) = Total(p) /\ Seen(q)
  BY <1>2, <1>3 DEF Total, Seen
<1>5. /\ Quoted(q) \in Pages /\ PageOK(Quoted(q))
      /\ Quoted(q).at = "checkout" /\ Quoted(q).since = q.since
      /\ Quoted(q).quantity = q.quantity /\ Total(Quoted(q)) = Total(q)
  BY <1>2, <1>3, <1>4, QuotedIsGood
<1> HIDE DEF p
<1> QED
  BY <1>3, <1>4, <1>5, Shows DEF p

(***************************************************************************)
(* Calls.                                                                  *)
(***************************************************************************)
LEMMA WrittenOrder ==
  ASSUME ShopInv, NEW x \in Tabs, Written(x)
  PROVE  call[x].order \in DOMAIN orders /\ call[x].order # 0
<1>1. call[x].order \in DOMAIN orders
  BY DEF ShopInv, CallsInv, CallOK, Written
<1> QED
  BY <1>1, OrdersAreRows DEF ShopInv

\* A call begins or goes on.  It writes to its own order only, and leaves it
\* as far as the call is.
LEMMA CallMoves ==
  ASSUME ShopInv, NEW b \in Tabs, NEW k \in CallRow, page[b].at # "events",
         UNCHANGED <<offer, coupon, cart, page>>,
         call' = [call EXCEPT ![b] = k],
         orders' \in Seq(SaleRow), DOMAIN orders \subseteq DOMAIN orders',
         \A m \in DOMAIN orders' :
           m # k.order => m \in DOMAIN orders /\ orders'[m] = orders[m],
         \A m \in DOMAIN orders : orders[m].redeemed => orders'[m].redeemed,
         k.step # "create" =>
           /\ k.order \in DOMAIN orders'
           /\ OrderOK(k, orders'[k.order]) /\ BooksOK(orders'[k.order]),
         k.step = "create" => k.order = 0,
         \A x \in Tabs : x # b /\ Written(x) => call[x].order # k.order,
         page[b].since = changes => ShownOK(k, page[b], orders'[k.order])
  PROVE  ShopInv'
<1>1. ShopRows'
  BY DEF ShopInv, ShopRows, offer
<1>2. CartInv' /\ PagesInv'
  BY DEF ShopInv, CartInv, PagesInv, PageOK, ListOK, Asking, Seen, QuoteOK,
         Total, offer
<1>3. UsesInv'
  <2>1. Redeemed(orders) \subseteq Redeemed(orders')
    BY DEF Redeemed
  <2>2. /\ IsFiniteSet(Redeemed(orders'))
        /\ Cardinality(Redeemed(orders')) \in Nat
        /\ Cardinality(Redeemed(orders)) \in Nat
    BY RedeemedIsFinite DEF ShopInv, ShopRows
  <2>3. Cardinality(Redeemed(orders)) <= Cardinality(Redeemed(orders'))
    BY <2>1, <2>2, FS_Subset
  <2>4. coupon.used \in Nat
    BY DEF ShopInv, ShopRows, CouponRow
  <2> QED
    BY <2>2, <2>3, <2>4 DEF ShopInv, UsesInv
<1>4. BooksInv'
  <2>1. ASSUME NEW m \in DOMAIN orders' PROVE BooksOK(orders'[m])
    <3>1. CASE m # k.order
      BY <3>1 DEF ShopInv, BooksInv
    <3>2. CASE m = k.order
      <4>1. 0 \notin DOMAIN orders'
        BY <1>1, LenProperties
      <4> QED
        BY <3>2, <4>1
    <3> QED
      BY <3>1, <3>2
  <2> QED
    BY <2>1 DEF BooksInv
<1>5. call \in [Tabs -> CallRow \cup {None}]
  BY DEF ShopInv, ShopRows
<1>6. \A x \in Tabs : call'[x] = IF x = b THEN k ELSE call[x]
  BY <1>5
<1>7. CallOK(b)'
  BY <1>6 DEF CallOK, Written, Order, offer, ShownOK
<1>8. ASSUME NEW x \in Tabs, x # b PROVE CallOK(x)'
  <2>1. CallOK(x) /\ call'[x] = call[x]
    BY <1>6, <1>8 DEF ShopInv, CallsInv
  <2>2. CASE Written(x)
    <3>1. orders'[call[x].order] = orders[call[x].order]
      BY <2>1, <2>2, <1>8 DEF CallOK, Written
    <3> QED
      BY <2>1, <2>2, <3>1 DEF CallOK, Written, Order, offer, ShownOK
  <2>3. CASE ~Written(x)
    BY <2>1, <2>3 DEF CallOK, Written, Order, offer, ShownOK
  <2> QED
    BY <2>2, <2>3
<1>9. CallsInv'
  <2>1. \A x \in Tabs : CallOK(x)'
    BY <1>7, <1>8
  <2>2. \A x, y \in Tabs :
          x # y /\ Written(x)' /\ Written(y)'
            => call'[x].order # call'[y].order
    <3>1. \A x \in Tabs : Written(x) => call[x].order # 0
      BY WrittenOrder
    <3> QED
      BY <1>6 DEF Written, ShopInv, CallsInv
  <2> QED
    BY <2>1, <2>2 DEF CallsInv
<1> QED
  BY <1>1, <1>2, <1>3, <1>4, <1>9 DEF ShopInv

LEMMA CallForm ==
  ASSUME ShopInv, NEW b \in Tabs, call[b] # None
  PROVE  /\ call[b] \in CallRow /\ page[b].at # "events"
         /\ price \in Nat /\ percent \in Nat
         /\ orders \in Seq(SaleRow) /\ page[b] \in EventPage \cup PayPage
         /\ Total(page[b]) \in Nat
         /\ Written(b) => /\ call[b].order \in DOMAIN orders
                          /\ Order(b) \in SaleRow
                          /\ OrderOK(call[b], Order(b)) /\ BooksOK(Order(b))
         /\ \A x \in Tabs :
              Written(b) /\ x # b /\ Written(x)
                => call[x].order # call[b].order
         /\ page[b].since = changes => ShownOK(call[b], page[b], Order(b))
<1>1. /\ call[b] \in CallRow /\ page[b].at # "events" /\ page[b] \in Pages
      /\ price \in Nat /\ percent \in Nat /\ orders \in Seq(SaleRow)
  BY DEF ShopInv, ShopRows, CallsInv, CallOK
<1>2. page[b] \in EventPage \cup PayPage
  BY <1>1, PageForms
<1>3. Total(page[b]) \in Nat
  BY <1>2, TotalNat DEF EventPage, PayPage
<1>4. Written(b) => call[b].order \in DOMAIN orders /\ Order(b) \in SaleRow
  BY <1>1 DEF ShopInv, CallsInv, CallOK, Order
<1>5. Written(b) => OrderOK(call[b], Order(b)) /\ BooksOK(Order(b))
  BY <1>4 DEF ShopInv, CallsInv, CallOK, BooksInv, Order
<1> QED
  BY <1>1, <1>2, <1>3, <1>4, <1>5 DEF ShopInv, CallsInv, CallOK

LEMMA PayStep ==
  ASSUME ShopInv, NEW b \in Tabs, Pay(b) PROVE ShopInv'
<1> DEFINE p == page[b]
           k == [step |-> "create", code |-> p.applied, discount |-> 0,
                 shown |-> Total(p) - p.discount + p.fee, order |-> 0]
<1>1. p \in PayPage /\ QuoteOK(p) /\ Total(p) \in Nat /\ percent \in Nat
  BY CheckoutForm DEF Pay, Payable
<1>2. p.fee \in Nat /\ p.discount \in Nat /\ ~p.loading /\ p.fee # None
  BY <1>1 DEF Pay, Payable, PayPage
<1>3. k \in CallRow
  BY <1>1, <1>2 DEF CallRow, PayPage
<1>4. p.since = changes => k.shown = Amount(Total(p), k.code, percent)
  BY <1>1, <1>2 DEF QuoteOK, Amount, Left
<1>5. k.step = "create" /\ k.order = 0
  OBVIOUS
<1>6. /\ UNCHANGED <<offer, coupon, cart, page, orders>> /\ p.at = "checkout"
      /\ call' = [call EXCEPT ![b] = k]
  BY DEF Pay, Payable
<1> HIDE DEF k
<1>7. p.since = changes => ShownOK(k, p, orders'[k.order])
  BY <1>4, <1>5 DEF ShownOK
<1>8. \A x \in Tabs : x # b /\ Written(x) => call[x].order # k.order
  BY <1>5, WrittenOrder
<1>9. orders' \in Seq(SaleRow) /\ orders' = orders
  BY <1>6 DEF ShopInv, ShopRows
<1> HIDE DEF p
<1> QED
  BY <1>3, <1>5, <1>6, <1>7, <1>8, <1>9, CallMoves DEF p

\* Without a coupon the price shown is what is left.
LEMMA QrPayStep ==
  ASSUME ShopInv, NEW b \in Tabs, QrPay(b) PROVE ShopInv'
<1> DEFINE p == page[b]
           k == [step |-> "create", code |-> FALSE, discount |-> 0,
                 shown |-> Total(p) + Fee(Total(p)), order |-> 0]
<1>1. p \in EventPage /\ percent \in Nat
  BY PageForms DEF ShopInv, ShopRows, QrPay, canAddToCart
<1>2. Total(p) \in Nat
  BY <1>1, TotalNat DEF EventPage
<1>3. Fee(Total(p)) = Percentage(Total(p), percent) /\ Fee(Total(p)) \in Nat
  BY <1>1, <1>2, PercentageNat DEF Fee
<1>4. k \in CallRow
  BY <1>2, <1>3 DEF CallRow
<1>5. k.shown = Amount(Total(p), k.code, percent)
  <2>1. Left(Total(p), k.code) = Total(p)
    BY <1>2 DEF Left
  <2> QED
    BY <1>3, <2>1 DEF Amount
<1>6. k.step = "create" /\ k.order = 0
  OBVIOUS
<1>7. /\ UNCHANGED <<offer, coupon, cart, page, orders>> /\ p.at = "event"
      /\ call' = [call EXCEPT ![b] = k]
  BY DEF QrPay, canAddToCart
<1> HIDE DEF k
<1>8. ShownOK(k, p, orders'[k.order])
  BY <1>5, <1>6 DEF ShownOK
<1>9. \A x \in Tabs : x # b /\ Written(x) => call[x].order # k.order
  BY <1>6, WrittenOrder
<1>10. orders' \in Seq(SaleRow) /\ orders' = orders
  BY <1>7 DEF ShopInv, ShopRows
<1> HIDE DEF p
<1> QED
  BY <1>4, <1>6, <1>7, <1>8, <1>9, <1>10, CallMoves DEF p

\* A new order, of nobody else's, at the price of now.
LEMMA CreateOrderStep ==
  ASSUME ShopInv, NEW b \in Tabs, CreateOrder(b) PROVE ShopInv'
<1> DEFINE p == page[b]
           n == Len(orders) + 1
           subtotal == price * p.quantity
           o == [status |-> "PENDING", quantity |-> p.quantity,
                 subtotal |-> subtotal, discount |-> 0, total |-> subtotal,
                 fee |-> 0, coupon |-> FALSE, redeemed |-> FALSE,
                 lines |-> subtotal, charged |-> None]
           k == [call[b] EXCEPT !.order = n,
                   !.step = IF call[b].code THEN "coupon" ELSE "fee"]
<1>1. /\ call[b] \in CallRow /\ p.at # "events" /\ price \in Nat
      /\ orders \in Seq(SaleRow) /\ p \in EventPage \cup PayPage
      /\ p.since = changes => ShownOK(call[b], p, Order(b))
  BY CallForm DEF CreateOrder, At
<1>2. p.quantity \in Nat
  BY <1>1 DEF EventPage, PayPage
<1>3. subtotal \in Nat
  <2>1. \A i, j \in Nat : i * j \in Nat
    OBVIOUS
  <2> QED
    BY <1>1, <1>2, <2>1
<1>4. p.since = changes => subtotal = Total(p)
  BY <1>1, PageForms DEF ShopInv, ShopRows, PagesInv, PageOK, Seen, Total
<1> HIDE DEF subtotal
<1>5. o \in SaleRow
  BY <1>2, <1>3 DEF SaleRow
<1>6. n \in Nat /\ n \notin DOMAIN orders /\ n # 0
  BY <1>1, LenProperties
<1>7. k \in CallRow
  BY <1>1, <1>6 DEF CallRow
<1>8. /\ k.order = n /\ k.step = IF k.code THEN "coupon" ELSE "fee"
      /\ k.code = call[b].code /\ k.shown = call[b].shown /\ k.code \in BOOLEAN
      /\ k.step # "create"
  BY <1>1 DEF CallRow
<1>9. /\ o.charged = None /\ o.fee = 0 /\ o.discount = 0 /\ o.lines = subtotal
      /\ o.total = subtotal /\ o.subtotal = subtotal /\ o.redeemed = FALSE
      /\ o.quantity = p.quantity
  OBVIOUS
<1>10. /\ orders' = Append(orders, o) /\ call' = [call EXCEPT ![b] = k]
       /\ UNCHANGED <<offer, coupon, cart, page>>
  BY DEF CreateOrder, subtotal
<1> HIDE DEF o, k
<1>11. /\ orders' \in Seq(SaleRow) /\ DOMAIN orders' = DOMAIN orders \cup {n}
       /\ orders'[n] = o /\ \A m \in DOMAIN orders : orders'[m] = orders[m]
  BY <1>1, <1>5, <1>10, AppendProperties, LenProperties
<1> HIDE DEF n
<1>12. OrderOK(k, orders'[n]) /\ BooksOK(orders'[n])
  BY <1>3, <1>8, <1>9, <1>11 DEF OrderOK, BooksOK
<1>13. p.since = changes => ShownOK(k, p, orders'[n])
  <2>1. ASSUME p.since = changes, ~k.code
        PROVE  o.lines = Left(Total(p), k.code)
    BY <1>3, <1>4, <1>9, <2>1 DEF Left
  <2> QED
    BY <1>1, <1>4, <1>8, <1>9, <1>11, <2>1 DEF ShownOK
<1>14. \A x \in Tabs : x # b /\ Written(x) => call[x].order # k.order
  BY <1>6, <1>8, WrittenOrder
<1>15. \A m \in DOMAIN orders' :
         m # k.order => m \in DOMAIN orders /\ orders'[m] = orders[m]
  BY <1>8, <1>11
<1>16. /\ DOMAIN orders \subseteq DOMAIN orders' /\ k.order \in DOMAIN orders'
       /\ \A m \in DOMAIN orders : orders[m].redeemed => orders'[m].redeemed
  BY <1>8, <1>11
<1> HIDE DEF p
<1> QED
  BY <1>1, <1>7, <1>8, <1>10, <1>11, <1>12, <1>13, <1>14, <1>15, <1>16,
     CallMoves
     DEF p

LEMMA SaleRowWritten ==
  ASSUME NEW rows \in Seq(SaleRow), NEW n \in DOMAIN rows, NEW o \in SaleRow
  PROVE  LET s == [rows EXCEPT ![n] = o] IN
         /\ s \in Seq(SaleRow) /\ DOMAIN s = DOMAIN rows /\ s[n] = o
         /\ \A m \in DOMAIN rows : m # n => s[m] = rows[m]
BY ExceptSeq, LenProperties

\* The coupon is checked with the order's own subtotal, which is the page's
\* total while the offer is the page's.
LEMMA RevalidateStep ==
  ASSUME ShopInv, NEW b \in Tabs, Revalidate(b) PROVE ShopInv'
<1> DEFINE p == page[b]
           c == call[b]
           o == Order(b)
           d == Discount(o.subtotal, o.quantity)
           k == [c EXCEPT !.step = "discount", !.discount = d]
<1>1. Written(b) /\ c.step = "coupon" /\ c # None
  BY DEF Revalidate, At, Written
<1>2. /\ c \in CallRow /\ p.at # "events" /\ price \in Nat
      /\ orders \in Seq(SaleRow) /\ o \in SaleRow
      /\ OrderOK(c, o) /\ BooksOK(o)
      /\ c.order \in DOMAIN orders /\ p.at \in {"event", "checkout"}
      /\ p.since = changes => ShownOK(c, p, o)
      /\ \A x \in Tabs : x # b /\ Written(x) => call[x].order # c.order
  BY <1>1, CallForm, PageForms DEF ShopInv, ShopRows
<1>3. d \in Nat /\ d <= o.subtotal
  <2>1. o.subtotal \in Nat /\ o.quantity \in Nat
    BY <1>2 DEF SaleRow
  <2>2. d \in 0..o.subtotal
    BY <1>2, <2>1, DiscountBound
  <2> QED
    BY <2>1, <2>2
<1>4. p.since = changes => d = Cut(Total(p))
  <2>1. p.since = changes => p.price = price
    BY <1>2 DEF ShopInv, PagesInv, PageOK, Seen
  <2>2. p.since = changes => o.subtotal = Total(p) /\ o.quantity = p.quantity
    BY <1>1, <1>2 DEF ShownOK
  <2> QED
    BY <2>1, <2>2, DiscountIsCut DEF Total
<1>5. call' = [call EXCEPT ![b] = k] /\ UNCHANGED <<offer, coupon, cart, page>>
      /\ orders' = orders
  BY DEF Revalidate
<1> HIDE DEF d
<1>6. k \in CallRow
  BY <1>2, <1>3 DEF CallRow
<1>7. /\ k.step = "discount" /\ k.discount = d /\ k.order = c.order
      /\ k.code = c.code /\ k.shown = c.shown
  BY <1>2 DEF CallRow
<1> HIDE DEF k, c, p, o
<1>8. orders'[k.order] = o
  BY <1>5, <1>7 DEF o, c, Order
<1>9. OrderOK(k, o)
  BY <1>1, <1>2, <1>3, <1>7 DEF OrderOK
<1>10. p.since = changes => ShownOK(k, p, o)
  BY <1>1, <1>2, <1>4, <1>7 DEF ShownOK
<1>11. /\ k.step # "create" /\ k.order \in DOMAIN orders'
       /\ OrderOK(k, orders'[k.order]) /\ BooksOK(orders'[k.order])
       /\ p.since = changes => ShownOK(k, p, orders'[k.order])
  BY <1>2, <1>5, <1>7, <1>8, <1>9, <1>10
<1>12. \A x \in Tabs : x # b /\ Written(x) => call[x].order # k.order
  BY <1>2, <1>7
<1>13. orders' \in Seq(SaleRow) /\ p.at # "events"
  BY <1>2, <1>5
<1> QED
  BY <1>5, <1>6, <1>11, <1>12, <1>13, CallMoves DEF p

\* The discount is written once, and total and lines go down by it.
LEMMA ApplyDiscountStep ==
  ASSUME ShopInv, NEW b \in Tabs, ApplyDiscount(b) PROVE ShopInv'
<1> DEFINE p == page[b]
           c == call[b]
           r == Order(b)
           n == c.order
           o == [r EXCEPT !.coupon = TRUE, !.total = r.subtotal - c.discount,
                          !.discount = c.discount,
                          !.lines = @ - c.discount]
           k == [c EXCEPT !.step = "fee"]
<1>1. Written(b) /\ c.step = "discount" /\ c # None
  BY DEF ApplyDiscount, Discounted, At, Written
<1>2. /\ c \in CallRow /\ p.at # "events" /\ Total(p) \in Nat
      /\ orders \in Seq(SaleRow) /\ r \in SaleRow
      /\ OrderOK(c, r) /\ BooksOK(r)
      /\ n \in DOMAIN orders
      /\ p.since = changes => ShownOK(c, p, r)
      /\ \A x \in Tabs : x # b /\ Written(x) => call[x].order # n
  BY <1>1, CallForm
<1>3. /\ r.discount = 0 /\ r.fee = 0 /\ r.charged = None
      /\ r.total = r.subtotal /\ r.lines = r.subtotal
      /\ c.discount \in Nat /\ r.subtotal \in Nat
      /\ r.subtotal - c.discount \in Nat
  <2>1. /\ r.discount = 0 /\ r.fee = 0 /\ r.charged = None
        /\ c.discount <= r.subtotal
    BY <1>1, <1>2 DEF OrderOK
  <2>2. /\ c.discount \in Nat /\ r.subtotal \in Nat /\ r.total \in Nat
        /\ r.lines \in Nat
    BY <1>2 DEF CallRow, SaleRow
  <2> QED
    BY <1>2, <2>1, <2>2 DEF BooksOK
<1>4. r = orders[n]
  BY DEF Order
<1>5. /\ orders' = [orders EXCEPT ![n] = o] /\ call' = [call EXCEPT ![b] = k]
      /\ UNCHANGED <<offer, coupon, cart, page>>
  BY <1>2, <1>4 DEF ApplyDiscount, Discounted, Goto
<1>6. o \in SaleRow
  BY <1>2, <1>3 DEF SaleRow
<1>7. /\ o.total = r.subtotal - c.discount /\ o.discount = c.discount
      /\ o.lines = r.subtotal - c.discount /\ o.fee = 0 /\ o.charged = None
      /\ o.subtotal = r.subtotal /\ o.redeemed = r.redeemed
  BY <1>2, <1>3 DEF SaleRow
<1>8. k \in CallRow
  BY <1>2 DEF CallRow
<1>9. /\ k.step = "fee" /\ k.order = n /\ k.code = c.code /\ k.shown = c.shown
  BY <1>2 DEF CallRow
<1> HIDE DEF o, k, r, n, c, p
<1>10. OrderOK(k, o) /\ BooksOK(o)
  BY <1>3, <1>7, <1>9 DEF OrderOK, BooksOK
<1>11. p.since = changes => ShownOK(k, p, o)
  BY <1>1, <1>2, <1>3, <1>7, <1>9 DEF ShownOK, Left
<1>12. /\ orders' \in Seq(SaleRow) /\ DOMAIN orders' = DOMAIN orders
       /\ orders'[n] = o
       /\ \A m \in DOMAIN orders : m # n => orders'[m] = orders[m]
  BY <1>2, <1>5, <1>6, SaleRowWritten
<1>13. \A m \in DOMAIN orders : orders[m].redeemed => orders'[m].redeemed
  BY <1>4, <1>7, <1>12
<1>14. /\ k.step # "create" /\ k.order \in DOMAIN orders'
       /\ OrderOK(k, orders'[k.order]) /\ BooksOK(orders'[k.order])
       /\ p.since = changes => ShownOK(k, p, orders'[k.order])
  BY <1>2, <1>9, <1>10, <1>11, <1>12
<1>15. \A x \in Tabs : x # b /\ Written(x) => call[x].order # k.order
  BY <1>2, <1>9
<1>16. \A m \in DOMAIN orders' :
         m # k.order => m \in DOMAIN orders /\ orders'[m] = orders[m]
  BY <1>9, <1>12
<1> QED
  BY <1>2, <1>5, <1>8, <1>12, <1>13, <1>14, <1>15, <1>16, CallMoves DEF p

\* The fee is that of what is left, and the lines go up by it.
LEMMA ChargeFeeStep ==
  ASSUME ShopInv, NEW b \in Tabs, ChargeFee(b) PROVE ShopInv'
<1> DEFINE p == page[b]
           c == call[b]
           r == Order(b)
           n == c.order
           fee == Fee(r.lines)
           o == [r EXCEPT !.fee = fee, !.lines = @ + fee]
           k == [c EXCEPT !.step = "session"]
<1>1. Written(b) /\ c.step = "fee" /\ c # None
  BY DEF ChargeFee, At, Written
<1>2. /\ c \in CallRow /\ p.at # "events" /\ percent \in Nat
      /\ orders \in Seq(SaleRow) /\ r \in SaleRow
      /\ OrderOK(c, r) /\ BooksOK(r)
      /\ n \in DOMAIN orders
      /\ p.since = changes => ShownOK(c, p, r)
      /\ \A x \in Tabs : x # b /\ Written(x) => call[x].order # n
  BY <1>1, CallForm
<1>3. /\ r.fee = 0 /\ r.charged = None /\ r.lines \in Nat /\ r.total \in Nat
      /\ r.lines = r.total /\ r.total + r.discount = r.subtotal
  <2>1. r.fee = 0 /\ r.charged = None
    BY <1>1, <1>2 DEF OrderOK
  <2>2. r.lines \in Nat /\ r.total \in Nat
    BY <1>2 DEF SaleRow
  <2> QED
    BY <1>2, <2>1, <2>2 DEF BooksOK
<1>4. fee = Percentage(r.lines, percent) /\ fee \in Nat
  BY <1>2, <1>3, PercentageNat DEF Fee
<1>5. r = orders[n]
  BY DEF Order
<1>6. /\ orders' = [orders EXCEPT ![n] = o] /\ call' = [call EXCEPT ![b] = k]
      /\ UNCHANGED <<offer, coupon, cart, page>>
  BY <1>2, <1>5 DEF ChargeFee, Goto
<1> HIDE DEF fee
<1>7. o \in SaleRow
  <2>1. r.lines + fee \in Nat
    BY <1>3, <1>4
  <2> QED
    BY <1>2, <1>4, <2>1 DEF SaleRow
<1>8. /\ o.total = r.total /\ o.discount = r.discount /\ o.fee = fee
      /\ o.lines = r.lines + fee /\ o.charged = None
      /\ o.subtotal = r.subtotal /\ o.redeemed = r.redeemed
  BY <1>2, <1>3 DEF SaleRow
<1>9. k \in CallRow
  BY <1>2 DEF CallRow
<1>10. /\ k.step = "session" /\ k.order = n /\ k.code = c.code
       /\ k.shown = c.shown
  BY <1>2 DEF CallRow
<1> HIDE DEF o, k, r, n, c, p
<1>11. OrderOK(k, o) /\ BooksOK(o)
  BY <1>3, <1>4, <1>8, <1>10 DEF OrderOK, BooksOK
<1>12. p.since = changes => ShownOK(k, p, o)
  BY <1>1, <1>2, <1>4, <1>8, <1>10 DEF ShownOK, Amount
<1>13. /\ orders' \in Seq(SaleRow) /\ DOMAIN orders' = DOMAIN orders
       /\ orders'[n] = o
       /\ \A m \in DOMAIN orders : m # n => orders'[m] = orders[m]
  BY <1>2, <1>6, <1>7, SaleRowWritten
<1>14. \A m \in DOMAIN orders : orders[m].redeemed => orders'[m].redeemed
  BY <1>5, <1>8, <1>13
<1>15. /\ k.step # "create" /\ k.order \in DOMAIN orders'
       /\ OrderOK(k, orders'[k.order]) /\ BooksOK(orders'[k.order])
       /\ p.since = changes => ShownOK(k, p, orders'[k.order])
  BY <1>2, <1>10, <1>11, <1>12, <1>13
<1>16. \A x \in Tabs : x # b /\ Written(x) => call[x].order # k.order
  BY <1>2, <1>10
<1>17. \A m \in DOMAIN orders' :
         m # k.order => m \in DOMAIN orders /\ orders'[m] = orders[m]
  BY <1>10, <1>13
<1> QED
  BY <1>2, <1>6, <1>9, <1>13, <1>14, <1>15, <1>16, <1>17, CallMoves DEF p

\* A call ends, with its page or without.  What it has charged are the lines.
LEMMA CallEnds ==
  ASSUME ShopInv, NEW b \in Tabs, call' = [call EXCEPT ![b] = None],
         NEW q \in Pages, PageOK(q), page' = [page EXCEPT ![b] = q],
         UNCHANGED <<offer, coupon>>, cart' \in {cart, None},
         orders' \in Seq(SaleRow), DOMAIN orders' = DOMAIN orders,
         \A m \in DOMAIN orders : orders'[m].redeemed = orders[m].redeemed,
         \A m \in DOMAIN orders : BooksOK(orders'[m]),
         \A m \in DOMAIN orders :
           orders'[m] = orders[m] \/ (Written(b) /\ m = call[b].order)
  PROVE  ShopInv'
<1>1. /\ call \in [Tabs -> CallRow \cup {None}] /\ page \in [Tabs -> Pages]
      /\ cart \in CartRow \cup {None}
  BY DEF ShopInv, ShopRows
<1>2. ShopRows'
  BY <1>1 DEF ShopInv, ShopRows, offer
<1>3. UsesInv'
  <2>1. Redeemed(orders') = Redeemed(orders)
    BY DEF Redeemed
  <2> QED
    BY <2>1 DEF ShopInv, UsesInv
<1>4. CartInv'
  BY DEF ShopInv, CartInv, Seen, offer
<1>5. PagesInv'
  <2>1. ASSUME NEW x \in Tabs PROVE PageOK(page[x])'
    <3>1. PageOK(page[x]) /\ page'[x] = IF x = b THEN q ELSE page[x]
      BY <1>1 DEF ShopInv, PagesInv
    <3>2. PageOK(page'[x])
      BY <3>1
    <3> QED
      BY <3>2 DEF PageOK, ListOK, Asking, Seen, QuoteOK, Total, offer
  <2> QED
    BY <2>1 DEF PagesInv
<1>6. BooksInv'
  BY DEF BooksInv
<1>7. \A x \in Tabs : /\ call'[x] = IF x = b THEN None ELSE call[x]
                      /\ x # b => page'[x] = page[x]
  BY <1>1
<1>8. ASSUME NEW x \in Tabs PROVE CallOK(x)'
  <2>1. CASE x = b
    BY <1>7, <2>1 DEF CallOK
  <2>2. CASE x # b
    <3>1. CallOK(x) /\ call'[x] = call[x] /\ page'[x] = page[x]
      BY <1>7, <2>2 DEF ShopInv, CallsInv
    <3>2. Written(x) => orders'[call[x].order] = orders[call[x].order]
      BY <2>2 DEF ShopInv, CallsInv, CallOK, Written
    <3>3. CASE Written(x)
      BY <3>1, <3>2, <3>3 DEF CallOK, Written, Order, offer, ShownOK
    <3>4. CASE ~Written(x)
      BY <3>1, <3>4 DEF CallOK, Written, Order, offer, ShownOK
    <3> QED
      BY <3>3, <3>4
  <2> QED
    BY <2>1, <2>2
<1>9. CallsInv'
  <2>1. \A x, y \in Tabs :
          x # y /\ Written(x)' /\ Written(y)'
            => call'[x].order # call'[y].order
    BY <1>7 DEF Written, ShopInv, CallsInv
  <2> QED
    BY <1>8, <2>1 DEF CallsInv
<1> QED
  BY <1>2, <1>3, <1>4, <1>5, <1>6, <1>9 DEF ShopInv

LEMMA EventsAreGood ==
  ASSUME NEW p \in Events PROVE p \in Pages /\ PageOK(p)
<1> DEFINE nothing == [g \in BOOLEAN |-> 0]
<1>1. nothing \in [BOOLEAN -> Nat]
  OBVIOUS
<1>2. PICK f \in BOOLEAN, l \in BOOLEAN, s \in {"shown", "failed"} :
        p = [at |-> "events", filter |-> f, listed |-> l, list |-> s,
             asked |-> nothing]
  BY DEF Events
<1> HIDE DEF nothing
<1>3. p \in ListPage /\ p.at = "events" /\ p.list # "loading"
  BY <1>1, <1>2 DEF ListPage
<1> QED
  BY <1>3 DEF Pages, PageOK, ListOK

\* The session is for the lines, of an order that was charged nothing.
LEMMA SessionStep ==
  ASSUME ShopInv, NEW b \in Tabs, OpenSession(b)
  PROVE  /\ ShopInv'
         /\ Written(b) /\ call[b].order \in DOMAIN orders
         /\ orders'[call[b].order].charged = Order(b).lines
         /\ \A m \in DOMAIN orders :
              m # call[b].order => orders'[m] = orders[m]
<1> DEFINE n == call[b].order
           o == [orders[n] EXCEPT !.charged = Order(b).lines]
<1>1. Written(b) /\ call[b] # None
  BY DEF OpenSession, At, Written
<1>2. /\ orders \in Seq(SaleRow) /\ Order(b) \in SaleRow /\ BooksOK(Order(b))
      /\ n \in DOMAIN orders
  BY <1>1, CallForm
<1>3. Order(b) = orders[n] /\ orders' = [orders EXCEPT ![n] = o]
  BY <1>2 DEF Order, OpenSession
<1>4. o \in SaleRow /\ o.charged = Order(b).lines
  BY <1>2, <1>3 DEF SaleRow
<1>5. BooksOK(o) /\ o.redeemed = orders[n].redeemed
  BY <1>2, <1>3 DEF SaleRow, BooksOK
<1> HIDE DEF o
<1>6. /\ orders' \in Seq(SaleRow) /\ DOMAIN orders' = DOMAIN orders
      /\ orders'[n] = o
      /\ \A m \in DOMAIN orders : m # n => orders'[m] = orders[m]
  BY <1>2, <1>3, <1>4, SaleRowWritten
<1>7. /\ \A m \in DOMAIN orders : orders'[m].redeemed = orders[m].redeemed
      /\ \A m \in DOMAIN orders : BooksOK(orders'[m])
      /\ \A m \in DOMAIN orders :
           orders'[m] = orders[m] \/ (Written(b) /\ m = call[b].order)
  <2>1. \A m \in DOMAIN orders : BooksOK(orders[m])
    BY DEF ShopInv, BooksInv
  <2>2. ASSUME NEW m \in DOMAIN orders
        PROVE  /\ orders'[m].redeemed = orders[m].redeemed
               /\ BooksOK(orders'[m])
               /\ orders'[m] = orders[m] \/ (Written(b) /\ m = n)
    <3>1. CASE m = n
      BY <1>1, <1>5, <1>6, <3>1
    <3>2. CASE m # n
      <4>1. orders'[m] = orders[m]
        BY <1>6, <3>2
      <4> QED
        BY <2>1, <4>1 DEF BooksOK
    <3> QED
      BY <3>1, <3>2
  <2> QED
    BY <2>2
<1>8. PICK q \in Events : page' = [page EXCEPT ![b] = q]
  BY DEF OpenSession
<1>9. /\ q \in Pages /\ PageOK(q) /\ cart' \in {cart, None}
      /\ call' = [call EXCEPT ![b] = None] /\ UNCHANGED <<offer, coupon>>
  BY <1>8, EventsAreGood DEF OpenSession
<1>10. ShopInv'
  BY <1>6, <1>7, <1>8, <1>9, CallEnds
<1> QED
  BY <1>1, <1>2, <1>4, <1>6, <1>10

LEMMA LeaveStep ==
  ASSUME ShopInv, NEW b \in Tabs, Leave(b) \/ CheckoutFails(b)
  PROVE  ShopInv'
<1>1. page \in [Tabs -> Pages] /\ PageOK(page[b]) /\ orders \in Seq(SaleRow)
  BY DEF ShopInv, ShopRows, PagesInv
<1>2. /\ call' = [call EXCEPT ![b] = None] /\ cart' \in {cart, None}
      /\ UNCHANGED <<offer, coupon>> /\ orders' = orders
  BY DEF Leave, CheckoutFails
<1>3. \E q \in Pages : PageOK(q) /\ page' = [page EXCEPT ![b] = q]
  <2>1. CASE Leave(b)
    BY <2>1, EventsAreGood DEF Leave
  <2>2. CASE CheckoutFails(b)
    <3>1. page' = [page EXCEPT ![b] = page[b]]
      BY <1>1, <2>2 DEF CheckoutFails
    <3> QED
      BY <1>1, <3>1
  <2> QED
    BY <2>1, <2>2
<1>4. \A m \in DOMAIN orders : BooksOK(orders'[m])
  BY <1>2 DEF ShopInv, BooksInv
<1>5. /\ orders' \in Seq(SaleRow) /\ DOMAIN orders' = DOMAIN orders
      /\ \A m \in DOMAIN orders : orders'[m].redeemed = orders[m].redeemed
      /\ \A m \in DOMAIN orders :
           orders'[m] = orders[m] \/ (Written(b) /\ m = call[b].order)
  <2>1. orders' = orders /\ orders \in Seq(SaleRow)
    BY <1>1, <1>2
  <2>2. DOMAIN orders' = DOMAIN orders
    BY <2>1
  <2>3. \A m \in DOMAIN orders : orders'[m] = orders[m]
    BY <2>1
  <2> QED
    BY <2>1, <2>2, <2>3
<1>6. PICK q \in Pages : PageOK(q) /\ page' = [page EXCEPT ![b] = q]
  BY <1>3
<1> QED
  BY <1>2, <1>4, <1>5, <1>6, CallEnds

\* Status, redemption and the coupon's deletion leave the amounts alone.
LEMMA AmountsStay ==
  ASSUME ShopInv, UNCHANGED <<offer, cart, page, call>>,
         coupon' \in CouponRow, UsesInv',
         orders' \in Seq(SaleRow), DOMAIN orders' = DOMAIN orders,
         \A m \in DOMAIN orders :
           /\ orders'[m].quantity = orders[m].quantity
           /\ orders'[m].subtotal = orders[m].subtotal
           /\ orders'[m].discount = orders[m].discount
           /\ orders'[m].total = orders[m].total
           /\ orders'[m].fee = orders[m].fee
           /\ orders'[m].lines = orders[m].lines
           /\ orders'[m].charged = orders[m].charged
  PROVE  ShopInv'
<1>1. ShopRows'
  BY DEF ShopInv, ShopRows, offer
<1>2. CartInv' /\ PagesInv'
  BY DEF ShopInv, CartInv, PagesInv, PageOK, ListOK, Asking, Seen, QuoteOK,
         Total, offer
<1>3. BooksInv'
  BY DEF ShopInv, BooksInv, BooksOK
<1>4. ASSUME NEW x \in Tabs PROVE CallOK(x)'
  <2>1. CallOK(x)
    BY DEF ShopInv, CallsInv
  <2>2. CASE Written(x)
    BY <2>1, <2>2 DEF CallOK, Written, OrderOK, Order, ShownOK, offer
  <2>3. CASE ~Written(x)
    BY <2>1, <2>3 DEF CallOK, Written, ShownOK, offer
  <2> QED
    BY <2>2, <2>3
<1>5. CallsInv'
  BY <1>4 DEF ShopInv, CallsInv, Written
<1> QED
  BY <1>1, <1>2, <1>3, <1>5 DEF ShopInv

(***************************************************************************)
(* Orders and the coupon.                                                  *)
(***************************************************************************)
\* A step on one order that changes its status, its coupon or its redemption.
LEMMA RowStays ==
  ASSUME ShopInv, UNCHANGED <<offer, cart, page, call>>,
         NEW n \in DOMAIN orders, NEW o \in SaleRow,
         orders' = [orders EXCEPT ![n] = o],
         o.quantity = orders[n].quantity, o.subtotal = orders[n].subtotal,
         o.discount = orders[n].discount, o.total = orders[n].total,
         o.fee = orders[n].fee, o.lines = orders[n].lines,
         o.charged = orders[n].charged,
         coupon' \in CouponRow, UsesInv'
  PROVE  ShopInv'
<1>1. orders \in Seq(SaleRow)
  BY DEF ShopInv, ShopRows
<1>2. /\ orders' \in Seq(SaleRow) /\ DOMAIN orders' = DOMAIN orders
      /\ orders'[n] = o
      /\ \A m \in DOMAIN orders : m # n => orders'[m] = orders[m]
  BY <1>1, SaleRowWritten
<1>3. ASSUME NEW m \in DOMAIN orders
      PROVE  /\ orders'[m].quantity = orders[m].quantity
             /\ orders'[m].subtotal = orders[m].subtotal
             /\ orders'[m].discount = orders[m].discount
             /\ orders'[m].total = orders[m].total
             /\ orders'[m].fee = orders[m].fee
             /\ orders'[m].lines = orders[m].lines
             /\ orders'[m].charged = orders[m].charged
  BY <1>2
<1> QED
  BY <1>2, <1>3, AmountsStay

LEMMA StatusStep ==
  ASSUME ShopInv, NEW n \in DOMAIN orders, FulfillOrder(n) \/ ExpireOrder(n)
  PROVE  ShopInv'
<1>1. orders \in Seq(SaleRow) /\ orders[n] \in SaleRow
  BY OrdersAreRows DEF ShopInv, ShopRows
<1>2. /\ UNCHANGED <<offer, coupon, cart, page, call>>
      /\ \E s \in {"PAID", "CANCELLED"} :
           orders' = [orders EXCEPT ![n].status = s]
  BY DEF FulfillOrder, ExpireOrder, SetStatus
<1>3. PICK s \in {"PAID", "CANCELLED"} :
        orders' = [orders EXCEPT ![n].status = s]
  BY <1>2
<1> DEFINE o == [orders[n] EXCEPT !.status = s]
<1>4. orders' = [orders EXCEPT ![n] = o]
  BY <1>3
<1>5. /\ o \in SaleRow /\ o.redeemed = orders[n].redeemed
      /\ o.quantity = orders[n].quantity /\ o.subtotal = orders[n].subtotal
      /\ o.discount = orders[n].discount /\ o.total = orders[n].total
      /\ o.fee = orders[n].fee /\ o.lines = orders[n].lines
      /\ o.charged = orders[n].charged
  BY <1>1 DEF SaleRow
<1> HIDE DEF o
<1>6. UsesInv' /\ coupon' \in CouponRow
  <2>1. /\ DOMAIN orders' = DOMAIN orders /\ orders'[n] = o
        /\ \A m \in DOMAIN orders : m # n => orders'[m] = orders[m]
    BY <1>1, <1>4, <1>5, SaleRowWritten
  <2>2. Redeemed(orders') = Redeemed(orders)
    BY <1>5, <2>1 DEF Redeemed
  <2> QED
    BY <1>2, <2>2 DEF ShopInv, ShopRows, UsesInv
<1> QED
  BY <1>2, <1>4, <1>5, <1>6, RowStays

\* An order is redeemed once, and counted once.
LEMMA RedeemStep ==
  ASSUME ShopInv, NEW n \in DOMAIN orders, RedeemForPaidOrder(n)
  PROVE  ShopInv'
<1>1. /\ orders \in Seq(SaleRow) /\ orders[n] \in SaleRow
      /\ coupon \in CouponRow /\ ~orders[n].redeemed
  BY OrdersAreRows DEF ShopInv, ShopRows, RedeemForPaidOrder
<1> DEFINE o == [orders[n] EXCEPT !.redeemed = TRUE]
<1>2. /\ UNCHANGED <<offer, cart, page, call>>
      /\ coupon' = [coupon EXCEPT !.used = @ + 1]
      /\ orders' = [orders EXCEPT ![n] = o]
  BY DEF RedeemForPaidOrder
<1>3. /\ o \in SaleRow /\ o.redeemed
      /\ o.quantity = orders[n].quantity /\ o.subtotal = orders[n].subtotal
      /\ o.discount = orders[n].discount /\ o.total = orders[n].total
      /\ o.fee = orders[n].fee /\ o.lines = orders[n].lines
      /\ o.charged = orders[n].charged
  BY <1>1 DEF SaleRow
<1> HIDE DEF o
<1>4. coupon' \in CouponRow /\ coupon'.used = coupon.used + 1
  BY <1>1, <1>2 DEF CouponRow
<1>5. UsesInv'
  <2>1. /\ DOMAIN orders' = DOMAIN orders /\ orders'[n] = o
        /\ \A m \in DOMAIN orders : m # n => orders'[m] = orders[m]
    BY <1>1, <1>2, <1>3, SaleRowWritten
  <2>2. /\ Redeemed(orders') = Redeemed(orders) \cup {n}
        /\ n \notin Redeemed(orders)
    BY <1>1, <1>3, <2>1 DEF Redeemed
  <2>3. IsFiniteSet(Redeemed(orders)) /\ Cardinality(Redeemed(orders)) \in Nat
    BY <1>1, RedeemedIsFinite
  <2>4. Cardinality(Redeemed(orders')) = Cardinality(Redeemed(orders)) + 1
    BY <2>2, <2>3, FS_AddElement
  <2>5. coupon.used \in Nat
    BY <1>1 DEF CouponRow
  <2> QED
    BY <1>4, <2>3, <2>4, <2>5 DEF ShopInv, UsesInv
<1> QED
  BY <1>2, <1>3, <1>4, <1>5, RowStays

\* The deleted coupon leaves its orders, with what they were charged.
LEMMA DeleteCouponStep ==
  ASSUME ShopInv, DeleteCoupon PROVE ShopInv'
<1> DEFINE row(m) == [orders[m] EXCEPT !.coupon = FALSE]
<1>1. /\ orders \in Seq(SaleRow) /\ coupon \in CouponRow
      /\ \A m \in DOMAIN orders : orders[m] \in SaleRow
      /\ DOMAIN orders = 1..Len(orders) /\ Len(orders) \in Nat
  BY OrdersAreRows DEF ShopInv, ShopRows
<1>2. /\ UNCHANGED <<offer, cart, page, call>>
      /\ coupon' = [coupon EXCEPT !.state = "gone", !.used = 0]
      /\ orders' = [m \in DOMAIN orders |-> row(m)]
  BY DEF DeleteCoupon
<1>3. ASSUME NEW m \in DOMAIN orders
      PROVE  /\ row(m) \in SaleRow
             /\ row(m).quantity = orders[m].quantity
             /\ row(m).subtotal = orders[m].subtotal
             /\ row(m).discount = orders[m].discount
             /\ row(m).total = orders[m].total
             /\ row(m).fee = orders[m].fee /\ row(m).lines = orders[m].lines
             /\ row(m).charged = orders[m].charged
  BY <1>1 DEF SaleRow
<1> HIDE DEF row
<1>4. orders' \in [1..Len(orders) -> SaleRow]
  BY <1>1, <1>2, <1>3
<1>5. orders' \in Seq(SaleRow) /\ DOMAIN orders' = DOMAIN orders
  BY <1>1, <1>4, SeqDef
<1>6. coupon' \in CouponRow /\ coupon'.used = 0
  BY <1>1, <1>2 DEF CouponRow
<1>7. UsesInv'
  BY <1>5, <1>6, RedeemedIsFinite DEF UsesInv
<1>8. ASSUME NEW m \in DOMAIN orders
      PROVE  /\ orders'[m].quantity = orders[m].quantity
             /\ orders'[m].subtotal = orders[m].subtotal
             /\ orders'[m].discount = orders[m].discount
             /\ orders'[m].total = orders[m].total
             /\ orders'[m].fee = orders[m].fee
             /\ orders'[m].lines = orders[m].lines
             /\ orders'[m].charged = orders[m].charged
  <2>1. orders'[m] = row(m)
    BY <1>2
  <2> QED
    BY <1>3, <2>1
<1> QED
  BY <1>2, <1>5, <1>6, <1>7, <1>8, AmountsStay

(***************************************************************************)
(* The theorems.                                                           *)
(***************************************************************************)
LEMMA ShopInitially == Init => ShopInv
<1> SUFFICES ASSUME Init PROVE ShopInv
  OBVIOUS
<1>1. \A b \in Tabs : page[b] \in Events /\ call[b] = None
  BY DEF Init
<1>2. price \in Nat /\ percent \in Nat /\ changes \in Nat
  <2>1. Prices \subseteq Nat /\ Percents \subseteq Nat
    BY ShoppingAssumption
  <2> QED
    BY <2>1 DEF Init
<1>3. coupon \in CouponRow /\ coupon.used = 0
  BY DEF Init, NoCoupon, NewCoupon, CouponRow
<1>4. orders = <<>> /\ orders \in Seq(SaleRow) /\ DOMAIN orders = {}
  BY DEF Init
<1>5. page \in [Tabs -> Pages] /\ PagesInv
  BY <1>1, EventsAreGood DEF Init, PagesInv
<1>6. ShopRows
  BY <1>2, <1>3, <1>4, <1>5 DEF ShopRows, Init
<1>7. UsesInv
  <2>1. Cardinality(Redeemed(orders)) \in Nat
    BY <1>6, RedeemedIsFinite DEF ShopRows
  <2> QED
    BY <1>3, <2>1 DEF UsesInv
<1>8. CartInv /\ BooksInv /\ CallsInv
  BY <1>1, <1>4
     DEF Init, CartInv, BooksInv, CallsInv, CallOK, Written
<1> QED
  BY <1>5, <1>6, <1>7, <1>8 DEF ShopInv

LEMMA ShopStep ==
  ASSUME ShopInv, [Next]_vars PROVE ShopInv'
<1>1. CASE UNCHANGED vars
  <2>1. UNCHANGED <<offer, coupon, panel, cart, page, call, orders>>
    BY <1>1 DEF vars, offer
  <2>2. orders \in Seq(SaleRow) /\ coupon' \in CouponRow /\ UsesInv'
    BY <2>1 DEF ShopInv, ShopRows, UsesInv
  <2> QED
    BY <2>1, <2>2, AmountsStay
<1>2. CASE ChangePrice \/ ChangeFee
  BY <1>2, OfferStep
<1>3. CASE LoadCoupons \/ CreateCoupon \/ FindUnusedCoupon \/ DeleteCoupon
  BY <1>3, CouponStep, DeleteCouponStep
<1>4. ASSUME NEW b \in Tabs,
             \/ ChooseFilter(b) \/ RetryList(b) \/ ListAnswered(b)
             \/ OpenEvent(b) \/ AdjustQty(b) \/ SelectTermin(b)
             \/ AddToCart(b) \/ OpenCheckout(b) \/ Leave(b)
      PROVE  ShopInv'
  BY <1>4, ListStep, EventStep, CartStep, LeaveStep
<1>5. ASSUME NEW b \in Tabs,
             \/ page[b].at = "checkout"
                  /\ \E base \in page[b].quotes : QuoteAnswered(b, base)
             \/ QuoteFails(b) \/ RetryQuote(b)
             \/ ApplyCoupon(b) \/ CouponAccepted(b) \/ CouponRejected(b)
             \/ RemoveCoupon(b)
      PROVE  ShopInv'
  BY <1>5, AnswerStep, FormStep, QuoteStep
<1>6. ASSUME NEW b \in Tabs,
             \/ Pay(b) \/ QrPay(b) \/ CreateOrder(b) \/ Revalidate(b)
             \/ ApplyDiscount(b) \/ ChargeFee(b) \/ OpenSession(b)
             \/ CheckoutFails(b)
      PROVE  ShopInv'
  BY <1>6, PayStep, QrPayStep, CreateOrderStep, RevalidateStep,
     ApplyDiscountStep, ChargeFeeStep, SessionStep, LeaveStep
<1>7. ASSUME NEW n \in DOMAIN orders,
             FulfillOrder(n) \/ ExpireOrder(n) \/ RedeemForPaidOrder(n)
      PROVE  ShopInv'
  BY <1>7, StatusStep, RedeemStep
<1> QED
  BY <1>1, <1>2, <1>3, <1>4, <1>5, <1>6, <1>7 DEF Next

THEOREM ShopInvariant == Spec => []ShopInv
BY ShopInitially, ShopStep, PTL DEF Spec

\* Amounts are never negative, the coupon is used once per order at most, calls
\* belong to pages of their tab, and a list that loads waits for an answer.
THEOREM ShoppingTypeCorrect == Spec => []ShoppingTypeOK
<1>1. ASSUME ShopInv PROVE ShoppingTypeOK
  <2>1. /\ coupon \in CouponRow /\ orders \in Seq(SaleRow)
        /\ coupon.used <= Cardinality(Redeemed(orders))
    BY <1>1 DEF ShopInv, ShopRows, UsesInv
  <2>2. coupon.used \in 0..Len(orders)
    <3>1. coupon.used \in Nat
      BY <2>1 DEF CouponRow
    <3>2. /\ Cardinality(Redeemed(orders)) \in Nat
          /\ Cardinality(Redeemed(orders)) <= Len(orders)
          /\ Len(orders) \in Nat
      BY <2>1, RedeemedIsFinite, LenProperties
    <3> QED
      BY <2>1, <3>1, <3>2
  <2>3. coupon \in [state : {"none", "active", "removing", "gone"},
                    scope : {"SHOW", "TICKET_TYPE"}, used : 0..Len(orders)]
    BY <2>1, <2>2 DEF CouponRow
  <2>4. ASSUME NEW n \in DOMAIN orders
        PROVE  /\ orders[n].status \in {"PENDING", "PAID", "CANCELLED"}
               /\ {orders[n].discount, orders[n].total, orders[n].fee}
                    \subseteq Nat
               /\ orders[n].charged \in Nat \cup {None}
    <3>1. orders[n] \in SaleRow
      BY <1>1, OrdersAreRows DEF ShopInv
    <3> QED
      BY <3>1 DEF SaleRow
  <2>5. ASSUME NEW b \in Tabs, call[b] # None
        PROVE  page[b].at # "events" /\ call[b].order \in 0..Len(orders)
    <3>1. /\ page[b].at # "events" /\ Len(orders) \in Nat
          /\ DOMAIN orders = 1..Len(orders)
      BY <1>1, <2>5, OrdersAreRows DEF ShopInv, CallsInv, CallOK
    <3>2. CASE Written(b)
      BY <1>1, <3>1, <3>2, WrittenOrder
    <3>3. CASE ~Written(b)
      BY <1>1, <2>5, <3>1, <3>3 DEF ShopInv, CallsInv, CallOK
    <3> QED
      BY <3>1, <3>2, <3>3
  <2>6. ASSUME NEW b \in Tabs, page[b].at = "events", page[b].list = "loading"
        PROVE  Asking(page[b]) # {}
    BY <1>1, <2>6 DEF ShopInv, PagesInv, PageOK, ListOK
  <2> QED
    BY <2>3, <2>4, <2>5, <2>6 DEF ShoppingTypeOK
<1> QED
  BY <1>1, ShopInvariant, PTL

\* What a session takes is the order's total and fee, and total and discount
\* make up the price of the tickets.
THEOREM BooksAgree == Spec => []ChargedAsRecorded
<1>1. ASSUME ShopInv PROVE ChargedAsRecorded
  <2> SUFFICES ASSUME NEW n \in DOMAIN orders, orders[n].charged # None
               PROVE  /\ orders[n].charged = orders[n].total + orders[n].fee
                      /\ orders[n].total + orders[n].discount
                           = orders[n].subtotal
    BY DEF ChargedAsRecorded
  <2> QED
    BY <1>1 DEF ShopInv, BooksInv, BooksOK
<1> QED
  BY <1>1, ShopInvariant, PTL

\* Only a session writes what is charged.
LEMMA ChargedStays ==
  ASSUME ShopInv, [Next]_vars, NEW n \in DOMAIN orders
  PROVE  \/ orders'[n].charged = orders[n].charged
         \/ \E c \in Tabs : OpenSession(c)
<1>1. /\ orders \in Seq(SaleRow) /\ DOMAIN orders = 1..Len(orders)
      /\ Len(orders) \in Nat /\ \A m \in DOMAIN orders : orders[m] \in SaleRow
  BY OrdersAreRows DEF ShopInv, ShopRows
<1>2. ASSUME NEW o, orders' = Append(orders, o) PROVE orders'[n] = orders[n]
  BY <1>1, <1>2, AppendProperties
<1>3. ASSUME NEW b \in Tabs, CreateOrder(b) PROVE orders'[n] = orders[n]
  BY <1>2, <1>3 DEF CreateOrder
<1>4. ASSUME NEW b \in Tabs, ApplyDiscount(b) \/ ChargeFee(b)
      PROVE  orders'[n].charged = orders[n].charged
  <2>1. CASE ApplyDiscount(b)
    BY <1>1, <2>1 DEF ApplyDiscount, Discounted, SaleRow
  <2>2. CASE ChargeFee(b)
    BY <1>1, <2>2 DEF ChargeFee, SaleRow
  <2> QED
    BY <1>4, <2>1, <2>2
<1>5. ASSUME NEW m \in DOMAIN orders,
             FulfillOrder(m) \/ ExpireOrder(m) \/ RedeemForPaidOrder(m)
      PROVE  orders'[n].charged = orders[n].charged
  <2>1. \E o \in SaleRow :
          orders' = [orders EXCEPT ![m] = o] /\ o.charged = orders[m].charged
    <3>1. CASE FulfillOrder(m)
      <4> DEFINE o == [orders[m] EXCEPT !.status = "PAID"]
      <4>1. o \in SaleRow /\ o.charged = orders[m].charged
        BY <1>1 DEF SaleRow
      <4>2. orders' = [orders EXCEPT ![m] = o]
        BY <3>1 DEF FulfillOrder, SetStatus
      <4> QED
        BY <4>1, <4>2
    <3>2. CASE ExpireOrder(m)
      <4> DEFINE o == [orders[m] EXCEPT !.status = "CANCELLED"]
      <4>1. o \in SaleRow /\ o.charged = orders[m].charged
        BY <1>1 DEF SaleRow
      <4>2. orders' = [orders EXCEPT ![m] = o]
        BY <3>2 DEF ExpireOrder, SetStatus
      <4> QED
        BY <4>1, <4>2
    <3>3. CASE RedeemForPaidOrder(m)
      <4> DEFINE o == [orders[m] EXCEPT !.redeemed = TRUE]
      <4>1. o \in SaleRow /\ o.charged = orders[m].charged
        BY <1>1 DEF SaleRow
      <4>2. orders' = [orders EXCEPT ![m] = o]
        BY <3>3 DEF RedeemForPaidOrder
      <4> QED
        BY <4>1, <4>2
    <3> QED
      BY <1>5, <3>1, <3>2, <3>3
  <2> QED
    BY <1>1, <2>1, SaleRowWritten
<1>6. DeleteCoupon => orders'[n].charged = orders[n].charged
  BY <1>1 DEF DeleteCoupon, SaleRow
<1>7. ChangePrice \/ ChangeFee \/ LoadCoupons \/ CreateCoupon
        \/ FindUnusedCoupon \/ UNCHANGED vars
      => orders' = orders
  BY DEF ChangePrice, ChangeFee, LoadCoupons, CreateCoupon, FindUnusedCoupon,
         vars
<1>8. ASSUME NEW b \in Tabs,
             \/ ChooseFilter(b) \/ RetryList(b) \/ ListAnswered(b)
             \/ OpenEvent(b) \/ AdjustQty(b) \/ SelectTermin(b)
             \/ AddToCart(b) \/ OpenCheckout(b) \/ Leave(b)
             \/ Pay(b) \/ QrPay(b) \/ Revalidate(b) \/ CheckoutFails(b)
      PROVE  orders' = orders
  BY <1>8
     DEF ChooseFilter, RetryList, ListAnswered, Ask, ShowList, OpenEvent,
         AdjustQty, SelectTermin, AddToCart, OpenCheckout, Leave, Pay, QrPay,
         Revalidate, CheckoutFails
<1>9. ASSUME NEW b \in Tabs,
             \/ page[b].at = "checkout"
                  /\ \E base \in page[b].quotes : QuoteAnswered(b, base)
             \/ QuoteFails(b) \/ RetryQuote(b)
             \/ ApplyCoupon(b) \/ CouponAccepted(b) \/ CouponRejected(b)
             \/ RemoveCoupon(b)
      PROVE  orders' = orders
  BY <1>9
     DEF QuoteAnswered, QuoteFails, RetryQuote, ApplyCoupon, CouponAccepted,
         CouponRejected, RemoveCoupon, Show
<1> QED
  BY <1>3, <1>4, <1>5, <1>6, <1>7, <1>8, <1>9 DEF Next

\* Whatever coupons and quotes came and went, and whatever answers were late,
\* the customer is charged the amount on the button, unless the offer changed
\* since the event was opened.
THEOREM ButtonIsCharge == Spec => ChargedAsShown
<1> DEFINE Shown ==
      \A b \in Tabs, n \in DOMAIN orders :
        /\ At(b, "session") /\ call[b].order = n
        /\ orders[n].charged = None /\ orders'[n].charged # None
        /\ page[b].since = changes
        => orders'[n].charged = call[b].shown
<1>1. ASSUME ShopInv, [Next]_vars PROVE Shown
  <2> SUFFICES ASSUME NEW b \in Tabs, NEW n \in DOMAIN orders,
                      At(b, "session"), call[b].order = n,
                      orders[n].charged = None, orders'[n].charged # None,
                      page[b].since = changes
               PROVE  orders'[n].charged = call[b].shown
    OBVIOUS
  <2>1. Written(b) /\ call[b] # None /\ call[b].step = "session"
    BY DEF At, Written
  <2>2. Order(b).lines = call[b].shown /\ orders \in Seq(SaleRow)
    BY <1>1, <2>1, CallForm DEF ShownOK
  <2>3. orders'[n].charged = orders[n].charged
          \/ \E c \in Tabs : OpenSession(c)
    BY <1>1, ChargedStays
  <2>4. ASSUME NEW c \in Tabs, OpenSession(c)
        PROVE  orders'[n].charged = call[b].shown
    <3>1. CASE c = b
      BY <1>1, <2>2, <2>4, <3>1, SessionStep
    <3>2. CASE c # b
      <4>1. Written(c) /\ call[c].order # n
        BY <1>1, <2>1, <2>4, <3>2, SessionStep DEF ShopInv, CallsInv
      <4> QED
        BY <1>1, <2>4, <4>1, SessionStep
    <3> QED
      BY <3>1, <3>2
  <2> QED
    BY <2>3, <2>4
<1> QED
  BY <1>1, ShopInvariant, PTL DEF Spec, ChargedAsShown

-----------------------------------------------------------------------------
(***************************************************************************)
(* Delivery.                                                               *)
(***************************************************************************)
OrderStates == {"NEW", "PENDING", "PAID", "CANCELLED", "REFUNDED"}
ReceiptStates == {"NONE", "PENDING", "REGISTERED", "OFFLINE", "FAILED"}
OrderRow ==
  [channel: AllChannels, status: OrderStates, address: Addresses \cup {Null},
   attempts: Nat, emailed: BOOLEAN, receipt: ReceiptStates]
JobSteps == {"idle", "count", "build", "send", "stamp", "fail", "show"}
JobRow == [step: JobSteps, to: Addresses \cup {Null}]
ViewSteps ==
  {"start", "wait", "tickets", "unconfirmed", "stalled", "receipt", "answer",
   "done", "next", "lost"}
Views == [at: ViewSteps, polls: Nat]
Budgets == [switches: Nat, resends: Nat, crashes: Nat]

DeliveryRows ==
  /\ order \in OrderRow
  /\ jobs \in [Callers -> JobRow]
  /\ view \in Views
  /\ budget \in Budgets

Sent == order.status \in {"PAID", "REFUNDED"}

\* A delivery belongs to a sold order; after the mail its address is one the
\* tickets were mailed to, and only the administrator's waits for the badge.
JobOK(c) ==
  /\ jobs[c].step = "idle" => jobs[c] = Idle
  /\ jobs[c] # Idle => Sent
  /\ jobs[c].step = "stamp" => jobs[c].to \in mailed
  /\ jobs[c].step = "show" =>
       /\ c = "desk" /\ order.channel # "counter" /\ order.emailed
       /\ jobs[c].to \in mailed

JobsInv == \A c \in Callers : JobOK(c)

\* At the counter the page goes on with the sale, and there is no badge.
CounterInv ==
  order.channel = "counter" =>
    /\ view.at # "start" => Sent
    /\ badge = "away"

\* Stamp and receipt tell the truth.
StampInv ==
  /\ order.emailed => mailed # {}
  /\ order.receipt = "REGISTERED" => receipted

\* Attempts still to be counted.
Due(c) == IF jobs[c].step = "count" THEN 1 ELSE 0
SaleDue ==
  IF order.status \in {"NEW", "PENDING"} THEN 1 ELSE Due("sale")

AttemptsInv ==
  /\ budget.resends + Due("desk") <= MaxResends
  /\ order.attempts + SaleDue + Due("retry") + Due("desk") + budget.resends
       <= MaxAttempts + MaxResends + 1

DeliveryInv ==
  DeliveryRows /\ JobsInv /\ CounterInv /\ StampInv /\ AttemptsInv

\* A step that only the settings, the session or a page takes part in.
Quietly ==
  /\ UNCHANGED <<order, jobs, mailed, receipted>>
  /\ budget'.resends = budget.resends

\* Every other step changes the order, a delivery or the receipt.
LEMMA Loudness ==
  ASSUME DeliveryRows, [DeliveryNext]_deliveryVars
  PROVE  \/ Quietly
         \/ StartSession \/ Webhook \/ ExpireUnpaid \/ CompOrder \/ PosOrder
         \/ RegisterSale \/ RegisterAnswers \/ RetryTicketDelivery
         \/ PosEmailTickets \/ ResendTickets \/ ShowFresh \/ ShowFails
         \/ RefundOrder \/ Restart
         \/ \E c \in Callers :
              \/ CountAttempt(c) \/ CountFails(c) \/ BuildMail(c)
              \/ SendTickets(c) \/ SendFails(c)
              \/ StampDelivered(c) \/ StampFails(c) \/ DeliveryFails(c)
<1>1. UNCHANGED deliveryVars => Quietly
  BY DEF deliveryVars, Quietly
<1>2. SetActiveGateway => Quietly
  BY DEF SetActiveGateway, Quietly, Switch, DeliveryRows, Budgets
<1>3. UpdateDevice => Quietly
  BY DEF UpdateDevice, Quietly, aside
<1>4. CompleteSession => Quietly
  BY DEF CompleteSession, Quietly, world, aside
<1>5. WebhookWithoutSecret => Quietly
  BY DEF WebhookWithoutSecret, Quietly, world, aside
<1>6. SaleAnswered => Quietly
  BY DEF SaleAnswered, Quietly, world, aside
<1>7. NewSale => Quietly
  BY DEF NewSale, Quietly, world, aside
<1>8. LoadList => Quietly
  BY DEF LoadList, Quietly, world
<1>9. OpenPanel => Quietly
  BY DEF OpenPanel, Quietly, world
<1>10. ResendRefused => Quietly
  BY DEF ResendRefused, Quietly, world, aside
<1>11. Poll => Quietly
  BY DEF Poll, Quietly, world, aside
<1>12. PollFails => Quietly
  BY DEF PollFails, Quietly, world, aside
<1> QED
  BY <1>1, <1>2, <1>3, <1>4, <1>5, <1>6, <1>7, <1>8, <1>9, <1>10, <1>11,
       <1>12 DEF DeliveryNext, Deliver

\* The order, the deliveries and the pages keep their types.
LEMMA DeliveryRowsStep ==
  ASSUME DeliveryRows, [DeliveryNext]_deliveryVars
  PROVE  DeliveryRows'
<1> USE DEF DeliveryRows, OrderRow, OrderStates, ReceiptStates, JobSteps,
          JobRow, ViewSteps, Views, Budgets, Callers, Idle
<1>1. CASE UNCHANGED deliveryVars
  BY <1>1 DEF deliveryVars
<1>2. CASE SetActiveGateway
  BY <1>2, DeliveryAssumption DEF SetActiveGateway, Switch
<1>3. CASE UpdateDevice
  BY <1>3, DeliveryAssumption DEF UpdateDevice, aside
<1>4. CASE StartSession
  BY <1>4, DeliveryAssumption DEF StartSession, world, aside
<1>5. CASE CompleteSession
  BY <1>5, DeliveryAssumption DEF CompleteSession, Opened, world, aside
<1>6. CASE WebhookWithoutSecret
  BY <1>6, DeliveryAssumption DEF WebhookWithoutSecret, Received, Opened,
       Acknowledge, world, aside
<1>7. CASE Webhook
  BY <1>7, DeliveryAssumption DEF Webhook, Verified, Received, Opened,
       Acknowledge, Fulfill, Sold, Job, world, aside
<1>8. CASE ExpireUnpaid
  BY <1>8, DeliveryAssumption DEF ExpireUnpaid, world, aside
<1>9. CASE CompOrder
  <2>1. PICK a \in Addresses :
          Sold([order EXCEPT !.status = "PAID", !.address = a], TRUE)
    BY <1>9 DEF CompOrder
  <2>2. [order EXCEPT !.status = "PAID", !.address = a] \in OrderRow
    OBVIOUS
  <2>3. order' \in OrderRow /\ jobs' \in [Callers -> JobRow]
    BY <2>1, <2>2 DEF Sold, Job
  <2> QED
    BY <2>3, <1>9 DEF CompOrder, aside
<1>10. CASE PosOrder
  <2>1. PICK a \in Addresses \cup {Null} :
          Sold([order EXCEPT !.status = "PAID", !.address = a], HasEmail(a))
    BY <1>10 DEF PosOrder
  <2>2. [order EXCEPT !.status = "PAID", !.address = a] \in OrderRow
    OBVIOUS
  <2>3. order' \in OrderRow /\ jobs' \in [Callers -> JobRow]
    BY <2>1, <2>2 DEF Sold, Job
  <2> QED
    BY <2>3, <1>10 DEF PosOrder, aside
<1>11. CASE RegisterSale
  BY <1>11, DeliveryAssumption DEF RegisterSale, AtCounter, Receipt, world,
       aside
<1>12. CASE RegisterAnswers
  BY <1>12, DeliveryAssumption DEF RegisterAnswers, AtCounter, Receipt,
       Parsed, world, aside
<1>13. CASE SaleAnswered
  BY <1>13, DeliveryAssumption DEF SaleAnswered, AtCounter, HasEmail, world,
       aside
<1>14. CASE NewSale
  BY <1>14, DeliveryAssumption DEF NewSale, Finished, AtCounter, world,
       aside
<1>15. ASSUME NEW c \in Callers, CountAttempt(c) PROVE DeliveryRows'
  BY <1>15, DeliveryAssumption DEF CountAttempt, JobAt, Proceed, world,
       aside
<1>16. ASSUME NEW c \in Callers, CountFails(c) PROVE DeliveryRows'
  BY <1>16, DeliveryAssumption DEF CountFails, JobAt, End, Tell, world,
       aside
<1>17. ASSUME NEW c \in Callers, BuildMail(c) PROVE DeliveryRows'
  BY <1>17, DeliveryAssumption DEF BuildMail, JobAt, world, aside
<1>18. ASSUME NEW c \in Callers, SendTickets(c) PROVE DeliveryRows'
  BY <1>18, DeliveryAssumption DEF SendTickets, JobAt, Proceed, world, aside
<1>19. ASSUME NEW c \in Callers, SendFails(c) PROVE DeliveryRows'
  BY <1>19, DeliveryAssumption DEF SendFails, JobAt, Proceed, world, aside
<1>20. ASSUME NEW c \in Callers, StampDelivered(c) PROVE DeliveryRows'
  <2>1. order' \in OrderRow /\ view' = view /\ budget' = budget
    BY <1>20 DEF StampDelivered, aside
  <2>2. jobs' \in [Callers -> JobRow]
    BY <1>20 DEF StampDelivered, Proceed, End, Tell
  <2> QED
    BY <2>1, <2>2
<1>21. ASSUME NEW c \in Callers, StampFails(c) PROVE DeliveryRows'
  BY <1>21, DeliveryAssumption DEF StampFails, JobAt, Proceed, world, aside
<1>22. ASSUME NEW c \in Callers, DeliveryFails(c) PROVE DeliveryRows'
  BY <1>22, DeliveryAssumption DEF DeliveryFails, RecordFailure, JobAt, End,
       Tell, world, aside
<1>23. CASE RetryTicketDelivery
  BY <1>23, DeliveryAssumption DEF RetryTicketDelivery, JobAt, Retryable,
       Job, world, aside
<1>24. CASE PosEmailTickets
  BY <1>24, DeliveryAssumption DEF PosEmailTickets, Finished, AtCounter,
       AskMail, JobAt, Job, world
<1>25. CASE LoadList
  BY <1>25, DeliveryAssumption DEF LoadList, Looks, JobAt, Undelivered,
       world
<1>26. CASE OpenPanel
  BY <1>26, DeliveryAssumption DEF OpenPanel, InList, Looks, JobAt,
       TicketsDelivery, world
<1>27. CASE ResendTickets
  BY <1>27, DeliveryAssumption DEF ResendTickets, Pressed, Looks, AskMail,
       JobAt, Job, world
<1>28. CASE ResendRefused
  BY <1>28, DeliveryAssumption DEF ResendRefused, Pressed, Looks, JobAt,
       world, aside
<1>29. CASE ShowFresh
  BY <1>29, DeliveryAssumption DEF ShowFresh, JobAt, End, Tell,
       TicketsDelivery, world
<1>30. CASE ShowFails
  BY <1>30, DeliveryAssumption DEF ShowFails, JobAt, End, Tell, world, aside
<1>31. CASE Poll
  BY <1>31, DeliveryAssumption DEF Poll, BuyerWaits, world, aside
<1>32. CASE PollFails
  BY <1>32, DeliveryAssumption DEF PollFails, BuyerWaits, world, aside
<1>33. CASE RefundOrder
  BY <1>33, DeliveryAssumption DEF RefundOrder, world, aside
<1>34. CASE Restart
  BY <1>34, DeliveryAssumption DEF Restart, JobAt, world
<1> QED
  BY <1>1, <1>2, <1>3, <1>4, <1>5, <1>6, <1>7, <1>8, <1>9, <1>10, <1>11,
       <1>12, <1>13, <1>14, <1>15, <1>16, <1>17, <1>18, <1>19, <1>20, <1>21,
       <1>22, <1>23, <1>24, <1>25, <1>26, <1>27, <1>28, <1>29, <1>30, <1>31,
       <1>32, <1>33, <1>34 DEF DeliveryNext, Deliver

\* A sale at the counter is behind its page, and nobody opens its panel.
LEMMA CounterStep ==
  ASSUME DeliveryRows, JobsInv, CounterInv, [DeliveryNext]_deliveryVars
  PROVE  CounterInv'
<1> USE DEF DeliveryRows, OrderRow, JobRow, Views, Callers
<1>1. CASE UNCHANGED deliveryVars
  BY <1>1 DEF deliveryVars, CounterInv, Sent
<1>2. CASE SetActiveGateway
  BY <1>2 DEF SetActiveGateway, Switch, CounterInv, Sent
<1>3. CASE UpdateDevice
  BY <1>3 DEF UpdateDevice, aside, CounterInv, Sent
<1>4. CASE StartSession
  BY <1>4 DEF StartSession, world, aside, CounterInv, Sent
<1>5. CASE CompleteSession
  BY <1>5 DEF CompleteSession, Opened, world, aside, CounterInv, Sent
<1>6. CASE WebhookWithoutSecret
  BY <1>6 DEF WebhookWithoutSecret, Received, Opened, Acknowledge, world,
       aside, CounterInv, Sent
<1>7. CASE Webhook
  BY <1>7 DEF Webhook, Verified, Received, Opened, Acknowledge, Fulfill,
       Sold, Job, world, aside, CounterInv, Sent
<1>8. CASE ExpireUnpaid
  BY <1>8 DEF ExpireUnpaid, world, aside, CounterInv, Sent
<1>9. CASE CompOrder
  BY <1>9 DEF CompOrder, Sold, Job, world, aside, CounterInv, Sent
<1>10. CASE PosOrder
  BY <1>10 DEF PosOrder, AtCounter, Sold, Job, HasEmail, world, aside,
       CounterInv, Sent
<1>11. CASE RegisterSale
  BY <1>11 DEF RegisterSale, AtCounter, Receipt, world, aside, CounterInv,
       Sent
<1>12. CASE RegisterAnswers
  BY <1>12 DEF RegisterAnswers, AtCounter, Receipt, Parsed, world, aside,
       CounterInv, Sent
<1>13. CASE SaleAnswered
  BY <1>13 DEF SaleAnswered, AtCounter, HasEmail, world, aside, CounterInv,
       Sent
<1>14. CASE NewSale
  BY <1>14 DEF NewSale, Finished, AtCounter, world, aside, CounterInv, Sent
<1>15. ASSUME NEW c \in Callers, CountAttempt(c) PROVE CounterInv'
  BY <1>15 DEF CountAttempt, JobAt, Proceed, world, aside, CounterInv, Sent
<1>16. ASSUME NEW c \in Callers, CountFails(c) PROVE CounterInv'
  BY <1>16 DEF CountFails, JobAt, End, Tell, world, aside, CounterInv, Sent
<1>17. ASSUME NEW c \in Callers, BuildMail(c) PROVE CounterInv'
  BY <1>17 DEF BuildMail, JobAt, world, aside, CounterInv, Sent
<1>18. ASSUME NEW c \in Callers, SendTickets(c) PROVE CounterInv'
  BY <1>18 DEF SendTickets, JobAt, Proceed, world, aside, CounterInv, Sent
<1>19. ASSUME NEW c \in Callers, SendFails(c) PROVE CounterInv'
  BY <1>19 DEF SendFails, JobAt, Proceed, world, aside, CounterInv, Sent
<1>20. ASSUME NEW c \in Callers, StampDelivered(c) PROVE CounterInv'
  BY <1>20 DEF StampDelivered, JobAt, Proceed, End, Tell, world, aside,
       CounterInv, Sent
<1>21. ASSUME NEW c \in Callers, StampFails(c) PROVE CounterInv'
  BY <1>21 DEF StampFails, JobAt, Proceed, world, aside, CounterInv, Sent
<1>22. ASSUME NEW c \in Callers, DeliveryFails(c) PROVE CounterInv'
  BY <1>22 DEF DeliveryFails, RecordFailure, JobAt, End, Tell, world, aside,
       CounterInv, Sent
<1>23. CASE RetryTicketDelivery
  BY <1>23 DEF RetryTicketDelivery, JobAt, Retryable, Job, world, aside,
       CounterInv, Sent
<1>24. CASE PosEmailTickets
  BY <1>24 DEF PosEmailTickets, Finished, AtCounter, AskMail, JobAt, Job,
       world, CounterInv, Sent
<1>25. CASE LoadList
  BY <1>25 DEF LoadList, Looks, JobAt, Undelivered, world, CounterInv, Sent
<1>26. CASE OpenPanel
  BY <1>26 DEF OpenPanel, InList, Looks, JobAt, TicketsDelivery, world,
       CounterInv, Sent
<1>27. CASE ResendTickets
  BY <1>27 DEF ResendTickets, Pressed, Looks, AskMail, JobAt, Job, world,
       CounterInv, Sent
<1>28. CASE ResendRefused
  BY <1>28 DEF ResendRefused, Pressed, Looks, JobAt, world, aside,
       CounterInv, Sent
<1>29. CASE ShowFresh
  BY <1>29 DEF ShowFresh, JobAt, End, JobsInv, JobOK, CounterInv
<1>30. CASE ShowFails
  BY <1>30 DEF ShowFails, JobAt, End, Tell, world, aside, CounterInv, Sent
<1>31. CASE Poll
  BY <1>31 DEF Poll, BuyerWaits, world, aside, CounterInv, Sent
<1>32. CASE PollFails
  BY <1>32 DEF PollFails, BuyerWaits, world, aside, CounterInv, Sent
<1>33. CASE RefundOrder
  BY <1>33 DEF RefundOrder, world, aside, CounterInv, Sent
<1>34. CASE Restart
  BY <1>34 DEF Restart, JobAt, world, CounterInv, Sent
<1> QED
  BY <1>1, <1>2, <1>3, <1>4, <1>5, <1>6, <1>7, <1>8, <1>9, <1>10, <1>11,
       <1>12, <1>13, <1>14, <1>15, <1>16, <1>17, <1>18, <1>19, <1>20, <1>21,
       <1>22, <1>23, <1>24, <1>25, <1>26, <1>27, <1>28, <1>29, <1>30, <1>31,
       <1>32, <1>33, <1>34 DEF DeliveryNext, Deliver

\* Only sold orders get a delivery, which remembers what it has mailed.
LEMMA JobsStep ==
  ASSUME DeliveryRows, JobsInv, CounterInv, [DeliveryNext]_deliveryVars
  PROVE  JobsInv'
<1> USE DEF DeliveryRows, OrderRow, JobRow, Callers, Idle
<1>1. CASE Quietly
  BY <1>1 DEF Quietly, JobsInv, JobOK, Sent
<1>2. CASE StartSession
  BY <1>2 DEF StartSession, world, aside, JobsInv, JobOK, Sent
<1>3. CASE Webhook
  BY <1>3 DEF Webhook, Verified, Received, Opened, Acknowledge, Fulfill,
       Sold, Job, world, aside, JobsInv, JobOK, Sent
<1>4. CASE ExpireUnpaid
  BY <1>4 DEF ExpireUnpaid, world, aside, JobsInv, JobOK, Sent
<1>5. CASE CompOrder
  BY <1>5 DEF CompOrder, Sold, Job, world, aside, JobsInv, JobOK, Sent
<1>6. CASE PosOrder
  BY <1>6 DEF PosOrder, AtCounter, Sold, Job, HasEmail, world, aside,
       JobsInv, JobOK, Sent
<1>7. CASE RegisterSale
  BY <1>7 DEF RegisterSale, AtCounter, Receipt, world, aside, JobsInv,
       JobOK, Sent
<1>8. CASE RegisterAnswers
  BY <1>8 DEF RegisterAnswers, AtCounter, Receipt, Parsed, world, aside,
       JobsInv, JobOK, Sent
<1>9. ASSUME NEW c \in Callers, CountAttempt(c) PROVE JobsInv'
  BY <1>9 DEF CountAttempt, JobAt, Proceed, world, aside, JobsInv, JobOK,
       Sent
<1>10. ASSUME NEW c \in Callers, CountFails(c) PROVE JobsInv'
  BY <1>10 DEF CountFails, JobAt, End, Tell, world, aside, JobsInv, JobOK,
       Sent
<1>11. ASSUME NEW c \in Callers, BuildMail(c) PROVE JobsInv'
  BY <1>11 DEF BuildMail, JobAt, world, aside, JobsInv, JobOK, Sent
<1>12. ASSUME NEW c \in Callers, SendTickets(c) PROVE JobsInv'
  BY <1>12 DEF SendTickets, JobAt, Proceed, world, aside, JobsInv, JobOK,
       Sent
<1>13. ASSUME NEW c \in Callers, SendFails(c) PROVE JobsInv'
  BY <1>13 DEF SendFails, JobAt, Proceed, world, aside, JobsInv, JobOK, Sent
<1>14. ASSUME NEW c \in Callers, StampDelivered(c) PROVE JobsInv'
  BY <1>14 DEF StampDelivered, JobAt, Proceed, End, Tell, world, aside,
       JobsInv, JobOK, Sent
<1>15. ASSUME NEW c \in Callers, StampFails(c) PROVE JobsInv'
  BY <1>15 DEF StampFails, JobAt, Proceed, world, aside, JobsInv, JobOK,
       Sent
<1>16. ASSUME NEW c \in Callers, DeliveryFails(c) PROVE JobsInv'
  BY <1>16 DEF DeliveryFails, RecordFailure, JobAt, End, Tell, world, aside,
       JobsInv, JobOK, Sent
<1>17. CASE RetryTicketDelivery
  BY <1>17 DEF RetryTicketDelivery, JobAt, Retryable, Job, world, aside,
       JobsInv, JobOK, Sent
<1>18. CASE PosEmailTickets
  BY <1>18 DEF PosEmailTickets, Finished, AtCounter, AskMail, JobAt, Job,
           JobsInv, JobOK, Sent, CounterInv
<1>19. CASE ResendTickets
  BY <1>19 DEF ResendTickets, Pressed, Looks, AskMail, JobAt, Job, world,
       JobsInv, JobOK, Sent
<1>20. CASE ShowFresh
  BY <1>20 DEF ShowFresh, JobAt, End, Tell, TicketsDelivery, world, JobsInv,
       JobOK, Sent
<1>21. CASE ShowFails
  BY <1>21 DEF ShowFails, JobAt, End, Tell, world, aside, JobsInv, JobOK,
       Sent
<1>22. CASE RefundOrder
  BY <1>22 DEF RefundOrder, world, aside, JobsInv, JobOK, Sent
<1>23. CASE Restart
  BY <1>23 DEF Restart, JobAt, world, JobsInv, JobOK, Sent
<1> QED
  BY Loudness, <1>1, <1>2, <1>3, <1>4, <1>5, <1>6, <1>7, <1>8, <1>9, <1>10,
       <1>11, <1>12, <1>13, <1>14, <1>15, <1>16, <1>17, <1>18, <1>19, <1>20,
       <1>21, <1>22, <1>23

\* The stamp follows the mail, "registered" the register's word.
LEMMA StampStep ==
  ASSUME DeliveryRows, JobsInv, StampInv, [DeliveryNext]_deliveryVars
  PROVE  StampInv'
<1> USE DEF DeliveryRows, OrderRow, JobRow, Callers
<1>1. CASE Quietly
  BY <1>1 DEF Quietly, JobsInv, JobOK, StampInv
<1>2. CASE StartSession
  BY <1>2 DEF StartSession, world, aside, JobsInv, JobOK, StampInv
<1>3. CASE Webhook
  BY <1>3 DEF Webhook, Verified, Received, Opened, Acknowledge, Fulfill,
       Sold, Job, world, aside, JobsInv, JobOK, StampInv
<1>4. CASE ExpireUnpaid
  BY <1>4 DEF ExpireUnpaid, world, aside, JobsInv, JobOK, StampInv
<1>5. CASE CompOrder
  BY <1>5 DEF CompOrder, Sold, Job, world, aside, JobsInv, JobOK, StampInv
<1>6. CASE PosOrder
  BY <1>6 DEF PosOrder, AtCounter, Sold, Job, HasEmail, world, aside,
       JobsInv, JobOK, StampInv
<1>7. CASE RegisterSale
  BY <1>7 DEF RegisterSale, AtCounter, Receipt, world, aside, JobsInv,
       JobOK, StampInv
<1>8. CASE RegisterAnswers
  BY <1>8 DEF RegisterAnswers, AtCounter, Receipt, Parsed, world, aside,
       JobsInv, JobOK, StampInv
<1>9. ASSUME NEW c \in Callers, CountAttempt(c) PROVE StampInv'
  BY <1>9 DEF CountAttempt, JobAt, Proceed, world, aside, JobsInv, JobOK,
       StampInv
<1>10. ASSUME NEW c \in Callers, CountFails(c) PROVE StampInv'
  BY <1>10 DEF CountFails, JobAt, End, Tell, world, aside, JobsInv, JobOK,
       StampInv
<1>11. ASSUME NEW c \in Callers, BuildMail(c) PROVE StampInv'
  BY <1>11 DEF BuildMail, JobAt, world, aside, JobsInv, JobOK, StampInv
<1>12. ASSUME NEW c \in Callers, SendTickets(c) PROVE StampInv'
  BY <1>12 DEF SendTickets, JobAt, Proceed, world, aside, JobsInv, JobOK,
       StampInv
<1>13. ASSUME NEW c \in Callers, SendFails(c) PROVE StampInv'
  BY <1>13 DEF SendFails, JobAt, Proceed, world, aside, JobsInv, JobOK,
       StampInv
<1>14. ASSUME NEW c \in Callers, StampDelivered(c) PROVE StampInv'
  BY <1>14 DEF StampDelivered, JobAt, Proceed, End, Tell, world, aside,
       JobsInv, JobOK, StampInv
<1>15. ASSUME NEW c \in Callers, StampFails(c) PROVE StampInv'
  BY <1>15 DEF StampFails, JobAt, Proceed, world, aside, JobsInv, JobOK,
       StampInv
<1>16. ASSUME NEW c \in Callers, DeliveryFails(c) PROVE StampInv'
  BY <1>16 DEF DeliveryFails, RecordFailure, JobAt, End, Tell, world, aside,
       JobsInv, JobOK, StampInv
<1>17. CASE RetryTicketDelivery
  BY <1>17 DEF RetryTicketDelivery, JobAt, Retryable, Job, world, aside,
       JobsInv, JobOK, StampInv
<1>18. CASE PosEmailTickets
  BY <1>18 DEF PosEmailTickets, Finished, AtCounter, AskMail, JobAt, Job,
       world, JobsInv, JobOK, StampInv
<1>19. CASE ResendTickets
  BY <1>19 DEF ResendTickets, Pressed, Looks, AskMail, JobAt, Job, world,
       JobsInv, JobOK, StampInv
<1>20. CASE ShowFresh
  BY <1>20 DEF ShowFresh, JobAt, End, Tell, TicketsDelivery, world, JobsInv,
       JobOK, StampInv
<1>21. CASE ShowFails
  BY <1>21 DEF ShowFails, JobAt, End, Tell, world, aside, JobsInv, JobOK,
       StampInv
<1>22. CASE RefundOrder
  BY <1>22 DEF RefundOrder, world, aside, JobsInv, JobOK, StampInv
<1>23. CASE Restart
  BY <1>23 DEF Restart, JobAt, world, JobsInv, JobOK, StampInv
<1> QED
  BY Loudness, <1>1, <1>2, <1>3, <1>4, <1>5, <1>6, <1>7, <1>8, <1>9, <1>10,
       <1>11, <1>12, <1>13, <1>14, <1>15, <1>16, <1>17, <1>18, <1>19, <1>20,
       <1>21, <1>22, <1>23

\* Every attempt was due: once for the sale, per mail asked for, per retry.
LEMMA AttemptsStep ==
  ASSUME DeliveryRows, JobsInv, AttemptsInv, [DeliveryNext]_deliveryVars
  PROVE  AttemptsInv'
<1> USE DEF DeliveryRows, OrderRow, JobRow, Budgets, Callers, Idle
<1>1. CASE Quietly
  BY <1>1 DEF Quietly, AttemptsInv, Due, SaleDue, JobsInv, JobOK, Sent
<1>2. CASE StartSession
  BY <1>2, DeliveryAssumption DEF StartSession, world, aside, AttemptsInv,
       Due, SaleDue, JobsInv, JobOK, Sent
<1>3. CASE Webhook
  BY <1>3, DeliveryAssumption DEF Webhook, Verified, Received, Opened,
       Acknowledge, Fulfill, Sold, Job, world, aside, AttemptsInv, Due,
       SaleDue, JobsInv, JobOK, Sent
<1>4. CASE ExpireUnpaid
  BY <1>4, DeliveryAssumption DEF ExpireUnpaid, world, aside, AttemptsInv,
       Due, SaleDue, JobsInv, JobOK, Sent
<1>5. CASE CompOrder
  BY <1>5, DeliveryAssumption DEF CompOrder, Sold, Job, world, aside,
       AttemptsInv, Due, SaleDue, JobsInv, JobOK, Sent
<1>6. CASE PosOrder
  BY <1>6, DeliveryAssumption DEF PosOrder, AtCounter, Sold, Job, HasEmail,
       world, aside, AttemptsInv, Due, SaleDue, JobsInv, JobOK, Sent
<1>7. CASE RegisterSale
  BY <1>7, DeliveryAssumption DEF RegisterSale, AtCounter, Receipt, world,
       aside, AttemptsInv, Due, SaleDue, JobsInv, JobOK, Sent
<1>8. CASE RegisterAnswers
  BY <1>8, DeliveryAssumption DEF RegisterAnswers, AtCounter, Receipt,
       Parsed, world, aside, AttemptsInv, Due, SaleDue, JobsInv, JobOK, Sent
<1>9. ASSUME NEW c \in Callers, CountAttempt(c) PROVE AttemptsInv'
  BY <1>9, DeliveryAssumption DEF CountAttempt, JobAt, Proceed, world,
       aside, AttemptsInv, Due, SaleDue, JobsInv, JobOK, Sent
<1>10. ASSUME NEW c \in Callers, CountFails(c) PROVE AttemptsInv'
  BY <1>10, DeliveryAssumption DEF CountFails, JobAt, End, Tell, world,
       aside, AttemptsInv, Due, SaleDue, JobsInv, JobOK, Sent
<1>11. ASSUME NEW c \in Callers, BuildMail(c) PROVE AttemptsInv'
  BY <1>11, DeliveryAssumption DEF BuildMail, JobAt, world, aside,
       AttemptsInv, Due, SaleDue, JobsInv, JobOK, Sent
<1>12. ASSUME NEW c \in Callers, SendTickets(c) PROVE AttemptsInv'
  BY <1>12, DeliveryAssumption DEF SendTickets, JobAt, Proceed, world,
       aside, AttemptsInv, Due, SaleDue, JobsInv, JobOK, Sent
<1>13. ASSUME NEW c \in Callers, SendFails(c) PROVE AttemptsInv'
  BY <1>13, DeliveryAssumption DEF SendFails, JobAt, Proceed, world, aside,
       AttemptsInv, Due, SaleDue, JobsInv, JobOK, Sent
<1>14. ASSUME NEW c \in Callers, StampDelivered(c) PROVE AttemptsInv'
  BY <1>14, DeliveryAssumption DEF StampDelivered, JobAt, Proceed, End,
       Tell, world, aside, AttemptsInv, Due, SaleDue, JobsInv, JobOK, Sent
<1>15. ASSUME NEW c \in Callers, StampFails(c) PROVE AttemptsInv'
  BY <1>15, DeliveryAssumption DEF StampFails, JobAt, Proceed, world, aside,
       AttemptsInv, Due, SaleDue, JobsInv, JobOK, Sent
<1>16. ASSUME NEW c \in Callers, DeliveryFails(c) PROVE AttemptsInv'
  BY <1>16, DeliveryAssumption DEF DeliveryFails, RecordFailure, JobAt, End,
       Tell, world, aside, AttemptsInv, Due, SaleDue, JobsInv, JobOK, Sent
<1>17. CASE RetryTicketDelivery
  BY <1>17, DeliveryAssumption DEF RetryTicketDelivery, JobAt, Retryable,
       Job, world, aside, AttemptsInv, Due, SaleDue, JobsInv, JobOK, Sent
<1>18. CASE PosEmailTickets
  BY <1>18, DeliveryAssumption DEF PosEmailTickets, Finished, AtCounter,
       AskMail, JobAt, Job, world, AttemptsInv, Due, SaleDue, JobsInv,
       JobOK, Sent
<1>19. CASE ResendTickets
  BY <1>19, DeliveryAssumption DEF ResendTickets, Pressed, Looks, AskMail,
       JobAt, Job, world, AttemptsInv, Due, SaleDue, JobsInv, JobOK, Sent
<1>20. CASE ShowFresh
  BY <1>20, DeliveryAssumption DEF ShowFresh, JobAt, End, Tell,
       TicketsDelivery, world, AttemptsInv, Due, SaleDue, JobsInv, JobOK,
       Sent
<1>21. CASE ShowFails
  BY <1>21, DeliveryAssumption DEF ShowFails, JobAt, End, Tell, world,
       aside, AttemptsInv, Due, SaleDue, JobsInv, JobOK, Sent
<1>22. CASE RefundOrder
  BY <1>22, DeliveryAssumption DEF RefundOrder, world, aside, AttemptsInv,
       Due, SaleDue, JobsInv, JobOK, Sent
<1>23. CASE Restart
  BY <1>23, DeliveryAssumption DEF Restart, JobAt, world, AttemptsInv, Due,
       SaleDue, JobsInv, JobOK, Sent
<1> QED
  BY Loudness, <1>1, <1>2, <1>3, <1>4, <1>5, <1>6, <1>7, <1>8, <1>9, <1>10,
       <1>11, <1>12, <1>13, <1>14, <1>15, <1>16, <1>17, <1>18, <1>19, <1>20,
       <1>21, <1>22, <1>23

LEMMA DeliveryInitially == DeliveryInit => DeliveryInv
<1> SUFFICES ASSUME DeliveryInit PROVE DeliveryInv
  OBVIOUS
<1> USE DEF DeliveryInit, Callers, Idle
<1>1. PICK c \in Channels :
        order = [channel |-> c, status |-> "NEW", address |-> Null,
                 attempts |-> 0, emailed |-> FALSE, receipt |-> "NONE"]
  OBVIOUS
<1>2. DeliveryRows
  BY <1>1, DeliveryAssumption
     DEF DeliveryRows, OrderRow, OrderStates, ReceiptStates, JobRow, JobSteps,
         Views, ViewSteps, Budgets
<1>3. JobsInv /\ CounterInv /\ StampInv
  BY <1>1 DEF JobsInv, JobOK, CounterInv, StampInv
<1>4. AttemptsInv
  BY <1>1, DeliveryAssumption DEF AttemptsInv, Due, SaleDue
<1> QED
  BY <1>2, <1>3, <1>4 DEF DeliveryInv

LEMMA DeliveryStep ==
  ASSUME DeliveryInv, [DeliveryNext]_deliveryVars PROVE DeliveryInv'
BY DeliveryRowsStep, JobsStep, CounterStep, StampStep, AttemptsStep
   DEF DeliveryInv

THEOREM DeliveryInvariant == DeliverySpec => []DeliveryInv
BY DeliveryInitially, DeliveryStep, PTL DEF DeliverySpec

\* The filter of the list and the badge of a row are written twice in the code.
LEMMA FilterIsBadge ==
  ASSUME DeliveryRows
  PROVE  Undelivered <=> TicketsDelivery \in {"retrying", "failed"}
BY DeliveryAssumption DEF DeliveryRows, OrderRow, Undelivered, TicketsDelivery

LEMMA AttemptsBound ==
  ASSUME DeliveryInv
  PROVE  order.attempts \in 0..(MaxAttempts + MaxResends + 1)
<1> USE DEF Due, SaleDue
<1>1. /\ order.attempts \in Nat /\ budget.resends \in Nat
      /\ MaxAttempts \in Nat /\ MaxResends \in Nat
  BY DeliveryAssumption DEF DeliveryInv, DeliveryRows, OrderRow, Budgets
<1>2. order.attempts + SaleDue + Due("retry") + Due("desk") + budget.resends
        <= MaxAttempts + MaxResends + 1
  BY DEF DeliveryInv, AttemptsInv
<1> QED
  BY <1>1, <1>2

\* A stamped order was mailed to somebody, a receipt recorded as registered is
\* in the register, deliveries belong to sold orders, and nobody is mailed more
\* often than attempts and requests allow.
THEOREM DeliveryTypeCorrect == DeliverySpec => []DeliveryTypeOK
<1>1. ASSUME DeliveryInv PROVE DeliveryTypeOK
  <2>1. order.status \in OrderStates
    BY <1>1 DEF DeliveryInv, DeliveryRows, OrderRow
  <2>2. /\ order.emailed => mailed # {}
        /\ order.receipt = "REGISTERED" => receipted
    BY <1>1 DEF DeliveryInv, StampInv
  <2>3. \A c \in Callers :
          jobs[c] # Idle => order.status \in {"PAID", "REFUNDED"}
    BY <1>1 DEF DeliveryInv, JobsInv, JobOK, Sent
  <2> QED
    BY <1>1, <2>1, <2>2, <2>3, AttemptsBound, FilterIsBadge
       DEF DeliveryTypeOK, OrderStates, DeliveryInv
<1> QED
  BY <1>1, DeliveryInvariant, PTL

\* An event whose gateway has its secret is answered only with its order paid
\* or no longer waiting: no switch of the gateway makes a payment disappear.
THEOREM NoPaymentAnsweredAway == DeliverySpec => AcknowledgedIsSettled
<1> DEFINE Settled ==
      /\ Received /\ active \in Secrets
      /\ session'.event = "acknowledged"
      => order'.status # "PENDING"
<1>1. ASSUME DeliveryInv, [DeliveryNext]_deliveryVars PROVE Settled
  <2> SUFFICES ASSUME Received, active \in Secrets,
                      session'.event = "acknowledged"
               PROVE  order'.status # "PENDING"
    OBVIOUS
  <2>1. order \in OrderRow
    BY <1>1 DEF DeliveryInv, DeliveryRows
  <2>2. session.event = "due"
    BY DEF Received
  <2>3. CASE Webhook
    BY <2>1, <2>3 DEF Webhook, Fulfill, Sold, OrderRow
  <2>4. CASE StartSession
    BY <2>4 DEF StartSession
  <2>5. CASE session' = session
    BY <2>2, <2>5
  <2>6. CASE CompleteSession \/ WebhookWithoutSecret
    BY <2>2, <2>6 DEF CompleteSession, WebhookWithoutSecret
  <2>7. \/ session' = session
        \/ Webhook \/ StartSession \/ CompleteSession \/ WebhookWithoutSecret
    <3>1. [DeliveryNext]_deliveryVars
      BY <1>1
    <3> QED
      BY <3>1
         DEF DeliveryNext, Deliver, deliveryVars, SetActiveGateway,
             UpdateDevice, ExpireUnpaid, CompOrder, PosOrder, RegisterSale,
             RegisterAnswers, SaleAnswered, NewSale, CountAttempt, CountFails,
             BuildMail, SendTickets, SendFails, StampDelivered, StampFails,
             DeliveryFails, RecordFailure, RetryTicketDelivery,
             PosEmailTickets, LoadList, OpenPanel, ResendTickets, ResendRefused,
             ShowFresh, ShowFails, Poll, PollFails, RefundOrder, Restart
  <2> QED
    BY <2>3, <2>4, <2>5, <2>6, <2>7
<1> QED
  BY <1>1, DeliveryInvariant, PTL
     DEF DeliverySpec, AcknowledgedIsSettled

\* The desk reads "sent" only when its own call has mailed the tickets to the
\* order's address of the moment, and no warning stands beside it.
THEOREM DeskIsToldTheTruth == DeliverySpec => SentByTheDesk
<1> DEFINE Truth ==
      jobs["desk"] # Idle /\ jobs'["desk"] = Idle /\ message' = "sent"
      => /\ jobs["desk"].to \in mailed
         /\ badge' \notin {"retrying", "failed"}
<1>1. ASSUME DeliveryInv, [DeliveryNext]_deliveryVars PROVE Truth
  <2> SUFFICES ASSUME jobs["desk"] # Idle, jobs'["desk"] = Idle,
                      message' = "sent"
               PROVE  /\ jobs["desk"].to \in mailed
                      /\ badge' \notin {"retrying", "failed"}
    OBVIOUS
  <2> USE DEF Callers
  <2>1. DeliveryRows /\ JobsInv /\ CounterInv /\ [DeliveryNext]_deliveryVars
    BY <1>1 DEF DeliveryInv
  <2>2. jobs["desk"].step # "idle"
    BY <2>1 DEF JobsInv, JobOK
  <2>3. CASE StampDelivered("desk")
    <3>1. order.channel = "counter" /\ badge' = badge
      BY <2>3, <2>1
         DEF StampDelivered, Proceed, aside, DeliveryRows, JobRow, Idle
    <3> QED
      BY <2>3, <2>1, <3>1 DEF StampDelivered, JobAt, JobsInv, JobOK, CounterInv
  <2>4. CASE ShowFresh
    BY <2>4, <2>1
       DEF ShowFresh, JobAt, TicketsDelivery, JobsInv, JobOK, DeliveryRows,
           OrderRow
  <2>5. CASE CountFails("desk") \/ DeliveryFails("desk") \/ ShowFails
    BY <2>5 DEF CountFails, DeliveryFails, RecordFailure, ShowFails, Tell
  <2>6. CASE Restart
    BY <2>2, <2>6 DEF Restart, JobAt
  <2>7. ~(PosEmailTickets \/ ResendTickets)
    BY <2>2 DEF PosEmailTickets, ResendTickets, AskMail, JobAt
  <2>8. jobs \in [Callers -> JobRow]
    BY <2>1 DEF DeliveryRows
  <2>9. ~(Webhook \/ CompOrder \/ PosOrder \/ RetryTicketDelivery)
    BY <2>8
       DEF Webhook, Fulfill, CompOrder, PosOrder, Sold, RetryTicketDelivery
  <2>10. ~(\/ Quietly \/ StartSession \/ ExpireUnpaid \/ RegisterSale
           \/ RegisterAnswers \/ RefundOrder)
    BY DEF Quietly, StartSession, ExpireUnpaid, RegisterSale, RegisterAnswers,
           RefundOrder
  <2>11. ASSUME NEW c \in Callers
         PROVE  ~(\/ CountAttempt(c) \/ BuildMail(c) \/ SendTickets(c)
                  \/ SendFails(c) \/ StampFails(c))
    BY <2>2, <2>8
       DEF CountAttempt, BuildMail, SendTickets, SendFails, StampFails,
           Proceed, Idle, JobRow
  <2>12. ASSUME NEW c \in Callers,
                CountFails(c) \/ DeliveryFails(c) \/ StampDelivered(c)
         PROVE  c = "desk"
    BY <2>8, <2>12
       DEF CountFails, DeliveryFails, RecordFailure, StampDelivered, Proceed,
           End
  <2> QED
    BY Loudness, <2>1, <2>3, <2>4, <2>5, <2>6, <2>7, <2>9, <2>10, <2>11, <2>12
<1> QED
  BY <1>1, DeliveryInvariant, PTL DEF DeliverySpec, SentByTheDesk

=============================================================================
