------------------------------ MODULE Refunds ------------------------------
(***************************************************************************)
(* What happens to the paid orders of one occurrence: refund requests and  *)
(* their review (RefundsService), the organizer's cancelOccurrence and the *)
(* superadmin's cancelEvent, the scanners at the gate and the coupon       *)
(* redeemed after the payment.                                             *)
(*                                                                         *)
(* A call starts from a page that shows what it once read: the customer's  *)
(* order, the refund list, the show, the scanner.  An answer that is an    *)
(* error, or lost, leaves the form or dialog open for another try; a call  *)
(* the server refuses at once changes nothing and is no step.              *)
(*                                                                         *)
(* Every operation reads first and writes later, in a transaction of its   *)
(* own.  All transactions but the cancellations change rows they name by   *)
(* id: they hold the locks until they commit, so one step, the commit,     *)
(* stands for each.  A cancellation chooses its rows by status, one        *)
(* statement after another; revoked and doomed are the rows it has locked, *)
(* and whoever wants one of them waits.                                    *)
(***************************************************************************)
EXTENDS Integers, FiniteSets

CONSTANTS
  Orders,     \* paid orders of the occurrence, each with a seat and a ticket
  Requests,   \* refund request ids; each also names the customer's page
  Staff,      \* pages with the list of refund requests
  Scanners,   \* scanner pages, each with one validateScan call at a time
  Organizer,  \* the page of the show, for cancelOccurrence
  Superadmin, \* the same page, for cancelEvent
  Nobody      \* null

Cancellers == {Organizer, Superadmin}
Procs == Requests \cup Staff \cup Scanners \cup Cancellers

\* A page is of one kind.
ASSUME RefundsAssumption ==
  /\ Requests \cap Staff = {}
  /\ (Requests \cup Staff) \cap Scanners = {}
  /\ (Requests \cup Staff \cup Scanners) \cap Cancellers = {}

VARIABLES
  show,      \* status of the event
  termin,    \* status of its occurrence
  status,    \* Order.status
  provider,  \* Order.paymentProvider: "stripe" (or the counter) or "comp"
  request,   \* RefundRequest rows: order and status
  ticket,    \* Ticket.status
  seat,      \* TerminSeat.status
  usedCount, \* Coupon.usedCount of the one coupon all orders used
  redeemed,  \* orders with a CouponRedemption row
  due,       \* orders whose redeemForPaidOrder has not run yet
  okScans,   \* ScanLog rows with result OK, per ticket
  pc,        \* what a page shows, or the next step of its call
  target,    \* staff: the request; scanner, requestRefund: the order
  loaded,    \* mark-refunded: the order had a redemption when it was read
  revoked,   \* cancellation: tickets its UPDATE has matched
  doomed     \* cancellation: new status of the orders matched so far

rows == <<show, termin, status, provider, request, ticket, seat, usedCount,
          redeemed, due, okScans>>
calls == <<pc, target, loaded>>
cancellation == <<revoked, doomed>>
vars == <<rows, calls, cancellation>>

Goto(p, label) == pc' = [pc EXCEPT ![p] = label]

\* The scanner shows the answer and the camera is paused.
Answer(x) == Goto(x, "paused") /\ target' = [target EXCEPT ![x] = Nobody]

\* The call has ended and its form or dialog is closed.
Leave(p) ==
  /\ Goto(p, IF p \in Requests THEN "done" ELSE "idle")
  /\ target' = [target EXCEPT ![p] = Nobody]
  /\ loaded' = loaded \ {p}
OrderOf(r) == request[r].order

Init ==
  /\ show = "PUBLISHED"
  /\ termin = "ON_SALE"
  /\ status = [o \in Orders |-> "PAID"]
  /\ provider \in [Orders -> {"stripe", "comp"}]
  /\ request = [r \in Requests |-> [order |-> Nobody, st |-> "NONE"]]
  /\ ticket = [o \in Orders |-> "VALID"]
  /\ seat = [o \in Orders |-> "SOLD"]
  /\ usedCount = 0
  /\ redeemed = {}
  /\ due = Orders
  /\ okScans = [o \in Orders |-> 0]
  /\ pc = [p \in Procs |-> IF p \in Scanners THEN "choosing" ELSE "idle"]
  /\ target = [p \in Procs |-> Nobody]
  /\ loaded = {}
  /\ revoked = {}
  /\ doomed = [o \in Orders |-> Nobody]

\* No cancellation holds the row of o, nor its ticket.
OrderFree(o) == doomed[o] = Nobody
TicketFree(o) == o \notin revoked

(***************************************************************************)
(* requestRefund, from the page of the order.                              *)
(***************************************************************************)
Opened(r, o) == request[r] = [order |-> o, st |-> "REQUESTED"]

CanRequestRefund(o) ==
  status[o] = "PAID" /\ \A q \in Requests : ~Opened(q, o)

OpenForm(r, o) ==
  /\ pc[r] = "idle"
  /\ CanRequestRefund(o)
  /\ target' = [target EXCEPT ![r] = o]
  /\ Goto(r, "form")
  /\ UNCHANGED <<rows, loaded, cancellation>>

ReadPaidOrder(r) ==
  /\ pc[r] = "form"
  /\ status[target[r]] = "PAID"
  /\ Goto(r, "open")
  /\ UNCHANGED <<rows, target, loaded, cancellation>>

CheckNoneOpen(r) ==
  /\ pc[r] = "open"
  /\ Goto(r, IF \E q \in Requests : Opened(q, target[r]) THEN "form" \* 409
                                                          ELSE "create")
  /\ UNCHANGED <<rows, target, loaded, cancellation>>

CreateRequest(r) ==
  LET o == target[r] IN
  /\ pc[r] = "create"
  /\ OrderFree(o)
  /\ request' = [request EXCEPT ![r] = [order |-> o, st |-> "REQUESTED"]]
  /\ status' = [status EXCEPT ![o] = "REFUND_REQUESTED"]
  /\ Leave(r)
  /\ UNCHANGED <<show, termin, provider, ticket, seat, usedCount, redeemed,
                 due, okScans, cancellation>>

(***************************************************************************)
(* review and markRefunded: a dialog opened from the list of requests, the *)
(* status read again by loadScoped, the transaction.                       *)
(***************************************************************************)
Needed == [approve |-> "REQUESTED", reject |-> "REQUESTED",
           refund |-> "APPROVED"]
Dialog == [approve |-> "ask_approve", reject |-> "ask_reject",
           refund |-> "ask_refund"]

\* A row of the list, with the buttons its status asks for.
Awaiting(r, action) == request[r].st = Needed[action]

LoadScoped(c) == request[target[c]]

OpenModal(c, r, action) ==
  /\ pc[c] = "idle"
  /\ Awaiting(r, action)
  /\ target' = [target EXCEPT ![c] = r]
  /\ Goto(c, Dialog[action])
  /\ UNCHANGED <<rows, loaded, cancellation>>

Load(c, action) ==
  /\ pc[c] = Dialog[action]
  /\ LoadScoped(c).st = Needed[action]
  /\ loaded' = IF action = "refund" /\ OrderOf(target[c]) \in redeemed
               THEN loaded \cup {c} ELSE loaded
  /\ Goto(c, action)
  /\ UNCHANGED <<rows, target, cancellation>>

\* Both writes are by id: what was read may have changed since.
Review(c, label, requestStatus, orderStatus) ==
  LET r == target[c] IN
  /\ pc[c] = label
  /\ OrderFree(OrderOf(r))
  /\ request' = [request EXCEPT ![r].st = requestStatus]
  /\ status' = [status EXCEPT ![OrderOf(r)] = orderStatus]
  /\ Leave(c)
  /\ UNCHANGED <<show, termin, provider, ticket, seat, usedCount, redeemed,
                 due, okScans, cancellation>>

Approve(c) == Review(c, "approve", "APPROVED", "REFUND_APPROVED")
Reject(c) == Review(c, "reject", "REJECTED", "PAID")

CloseRefund(c) ==
  LET r == target[c]
      o == OrderOf(r)
  IN
  /\ pc[c] = "refund"
  /\ OrderFree(o)
  /\ request' = [request EXCEPT ![r].st = "REFUNDED"]
  /\ status' = [status EXCEPT ![o] = "REFUNDED"]
  /\ Leave(c)
  /\ UNCHANGED <<show, termin, provider, due, okScans, cancellation>>

\* Tickets to invalidate.  (mutants: not the used ones; all of them)
UnusedTicket(o) == ticket[o] = "VALID"
AnyTicket(o) == TRUE
LiveTicket(o) == ticket[o] \in {"VALID", "USED"}

\* (mutant: deleteMany in place of delete)
RefundWithDeleteMany(c) ==
  LET o == OrderOf(target[c]) IN
  /\ CloseRefund(c)
  /\ LiveTicket(o) => TicketFree(o)
  /\ ticket' = [ticket EXCEPT ![o] = IF LiveTicket(o) THEN "REFUNDED" ELSE @]
  /\ seat' = [seat EXCEPT ![o] = "AVAILABLE"]
  /\ usedCount' = IF c \in loaded THEN usedCount - 1 ELSE usedCount
  /\ redeemed' = IF c \in loaded THEN redeemed \ {o} ELSE redeemed

\* couponRedemption.delete fails when the row is gone, and the transaction
\* with it (CouponGone).
MarkRefunded(c) ==
  LET o == OrderOf(target[c]) IN
  /\ CloseRefund(c)
  /\ LiveTicket(o) => TicketFree(o)
  /\ ticket' = [ticket EXCEPT ![o] = IF LiveTicket(o) THEN "REFUNDED" ELSE @]
  /\ seat' = [seat EXCEPT ![o] = "AVAILABLE"]
  /\ c \in loaded => o \in redeemed
  /\ usedCount' = IF c \in loaded THEN usedCount - 1 ELSE usedCount
  /\ redeemed' = IF c \in loaded THEN redeemed \ {o} ELSE redeemed

CouponGone(c) ==
  LET o == OrderOf(target[c]) IN
  /\ pc[c] = "refund"
  /\ OrderFree(o)
  /\ LiveTicket(o) => TicketFree(o)
  /\ c \in loaded
  /\ o \notin redeemed
  /\ Goto(c, "ask_refund")
  /\ loaded' = loaded \ {c}
  /\ UNCHANGED <<rows, target, cancellation>>

(***************************************************************************)
(* redeemForPaidOrder: started by the fulfilment and not awaited; it may   *)
(* run late or, after a failure or a restart, never.                       *)
(***************************************************************************)
RedeemForPaidOrder(o) ==
  /\ o \in due
  /\ usedCount' = usedCount + 1
  /\ redeemed' = redeemed \cup {o}
  /\ due' = due \ {o}
  /\ UNCHANGED <<show, termin, status, provider, request, ticket, seat,
                 okScans, calls, cancellation>>

(***************************************************************************)
(* The scanner: the list of occurrences, the camera, validateScan (steps   *)
(* 5 to 7), the answer.  The camera is paused until the answer is          *)
(* dismissed.                                                              *)
(***************************************************************************)
\* getTerminy lists the occurrences on sale.  The page keeps the list it got,
\* and the scanner the occurrence it has chosen, whatever becomes of it.
\* (A page with another occurrence refuses every ticket of this one; one with
\* an empty list scans nothing, as an idle one may.)
Listed == termin = "ON_SALE"

Choosing(x) == pc[x] = "choosing"

SelectTermin(x) ==
  /\ Choosing(x)
  /\ Goto(x, "idle")
  /\ UNCHANGED <<rows, target, loaded, cancellation>>

\* The frame of the camera, with the buttons beside it.
Scanning(x) == pc[x] = "idle"

ChangeTermin(x) ==
  /\ Scanning(x)
  /\ Listed
  /\ Goto(x, "choosing")
  /\ UNCHANGED <<rows, target, loaded, cancellation>>

\* "Enter code manually" pauses the page too; its button calls
\* handleQrDetected, which does nothing on a paused page.
EnterManually(x) ==
  /\ Scanning(x)
  /\ Goto(x, "paused")
  /\ UNCHANGED <<rows, target, loaded, cancellation>>

ReadTicket(x, o) ==
  /\ Scanning(x)
  /\ \/ /\ ticket[o] = "VALID"
        /\ Goto(x, "use")
        /\ target' = [target EXCEPT ![x] = o]
     \/ ticket[o] # "VALID" /\ Answer(x)
  /\ UNCHANGED <<rows, loaded, cancellation>>

\* (mutant: the status is not tested again by the UPDATE)
UseTicketRead(x) ==
  LET o == target[x] IN
  /\ pc[x] = "use"
  /\ TicketFree(o)
  /\ ticket' = [ticket EXCEPT ![o] = "USED"]
  /\ okScans' = [okScans EXCEPT ![o] = @ + 1]
  /\ Answer(x)
  /\ UNCHANGED <<show, termin, status, provider, request, seat, usedCount,
                 redeemed, due, loaded, cancellation>>

UseTicket(x) ==
  LET o == target[x] IN
  /\ pc[x] = "use"
  /\ ticket[o] = "VALID"
  /\ TicketFree(o)
  /\ ticket' = [ticket EXCEPT ![o] = "USED"]
  /\ okScans' = [okScans EXCEPT ![o] = @ + 1]
  /\ Answer(x)
  /\ UNCHANGED <<show, termin, status, provider, request, seat, usedCount,
                 redeemed, due, loaded, cancellation>>

\* result.count = 0: logged as ALREADY_USED
NoLongerValid(x) ==
  /\ pc[x] = "use"
  /\ ticket[target[x]] # "VALID"
  /\ Answer(x)
  /\ UNCHANGED <<rows, loaded, cancellation>>

(***************************************************************************)
(* cancelOccurrence and cancelEvent: the same statements, one guarded by   *)
(* the status of the occurrence and the other by that of the event.        *)
(***************************************************************************)
Cancelled(p) == (IF p = Organizer THEN termin ELSE show) = "CANCELLED"

\* The page of the show has the button as long as it shows no cancellation.
CancelOffered(p) == pc[p] = "idle" /\ ~Cancelled(p)

\* confirmed in the dialog of the page
CheckNotCancelled(p) ==
  /\ CancelOffered(p)
  /\ Goto(p, "tickets")
  /\ UNCHANGED <<rows, target, loaded, cancellation>>

\* The row of the occurrence is the first both change.
TerminFree ==
  \A p \in Cancellers : pc[p] \notin {"paid", "free", "requested", "commit"}

\* the occurrence, its VALID and USED tickets and its seats
RevokeTickets(p) ==
  /\ pc[p] = "tickets"
  /\ TerminFree
  /\ revoked' = {o \in Orders : LiveTicket(o)}
  /\ Goto(p, "paid")
  /\ UNCHANGED <<rows, target, loaded, doomed>>

Doom(p, label, next, from, providers, to) ==
  /\ pc[p] = label
  /\ doomed' = [o \in Orders |->
                  IF status[o] \in from /\ provider[o] \in providers
                     /\ OrderFree(o)
                  THEN to ELSE doomed[o]]
  /\ Goto(p, next)
  /\ UNCHANGED <<rows, target, loaded, revoked>>

\* one statement each: paid by card or cash, free, with a request
DoomPaid(p) == Doom(p, "paid", "free", {"PAID"}, {"stripe"}, "REFUND_PENDING")
DoomFree(p) == Doom(p, "free", "requested", {"PAID"}, {"comp"}, "CANCELLED")
DoomRequested(p) ==
  Doom(p, "requested", "commit", {"REFUND_REQUESTED", "REFUND_APPROVED"},
       {"stripe", "comp"}, "REFUND_PENDING")

CommitCancellation(p) ==
  /\ pc[p] = "commit"
  /\ show' = IF p = Superadmin THEN "CANCELLED" ELSE show
  /\ termin' = "CANCELLED"
  /\ ticket' = [o \in Orders |-> IF o \in revoked THEN "CANCELLED"
                                                  ELSE ticket[o]]
  /\ seat' = [o \in Orders |-> "AVAILABLE"]
  /\ status' = [o \in Orders |-> IF OrderFree(o) THEN status[o]
                                                 ELSE doomed[o]]
  /\ revoked' = {}
  /\ doomed' = [o \in Orders |-> Nobody]
  /\ Leave(p)
  /\ UNCHANGED <<provider, request, usedCount, redeemed, due, okScans>>

\* The page a call goes back to when it fails.
PageOf ==
  [open |-> "form", create |-> "form",
   approve |-> "ask_approve", reject |-> "ask_reject",
   refund |-> "ask_refund",
   use |-> "paused",
   tickets |-> "idle", paid |-> "idle", free |-> "idle",
   requested |-> "idle", commit |-> "idle"]

\* A transaction is a deadlock's victim or fails, or the backend restarts:
\* nothing of it is kept and its caller gets an error.
Fail(p) ==
  /\ pc[p] \in DOMAIN PageOf
  /\ Goto(p, PageOf[pc[p]])
  /\ loaded' = loaded \ {p}
  /\ IF p \in Cancellers /\ pc[p] # "tickets"
     THEN revoked' = {} /\ doomed' = [o \in Orders |-> Nobody]
     ELSE UNCHANGED cancellation
  /\ target' = [target EXCEPT ![p] = IF p \in Scanners THEN Nobody ELSE @]
  /\ UNCHANGED rows

\* The form, dialog or answer is closed.
Dismiss(p) ==
  /\ pc[p] \in {PageOf[l] : l \in DOMAIN PageOf} \ {"idle"}
  /\ Goto(p, "idle")
  /\ target' = [target EXCEPT ![p] = Nobody]
  /\ UNCHANGED <<rows, loaded, cancellation>>

RequestRefund(r) ==
  \/ \E o \in Orders : OpenForm(r, o)
  \/ ReadPaidOrder(r) \/ CheckNoneOpen(r) \/ CreateRequest(r)
Process(c) ==
  \/ \E action \in DOMAIN Needed :
       Load(c, action) \/ \E r \in Requests : OpenModal(c, r, action)
  \/ Approve(c) \/ Reject(c) \/ MarkRefunded(c) \/ CouponGone(c)
ValidateScan(x) ==
  \/ SelectTermin(x) \/ ChangeTermin(x) \/ EnterManually(x)
  \/ \E o \in Orders : ReadTicket(x, o)
  \/ UseTicket(x) \/ NoLongerValid(x)
Cancel(p) ==
  \/ CheckNotCancelled(p) \/ RevokeTickets(p)
  \/ DoomPaid(p) \/ DoomFree(p) \/ DoomRequested(p) \/ CommitCancellation(p)

Next ==
  \/ \E r \in Requests : RequestRefund(r)
  \/ \E c \in Staff : Process(c)
  \/ \E o \in Orders : RedeemForPaidOrder(o)
  \/ \E x \in Scanners : ValidateScan(x)
  \/ \E p \in Cancellers : Cancel(p)
  \/ \E p \in Procs : Fail(p) \/ Dismiss(p)

Spec == Init /\ [][Next]_vars

-----------------------------------------------------------------------------
(***************************************************************************)
(* Properties.                                                             *)
(***************************************************************************)
OrderStatuses == {"PAID", "REFUND_REQUESTED", "REFUND_APPROVED", "REFUNDED",
                  "REFUND_PENDING", "CANCELLED"}

\* Rows and local values are well formed; the coupon's counter is never
\* negative, however often a refund is closed.
RefundsTypeOK ==
  /\ show \in {"PUBLISHED", "CANCELLED"}
  /\ termin \in {"ON_SALE", "CANCELLED"}
  /\ status \in [Orders -> OrderStatuses]
  /\ provider \in [Orders -> {"stripe", "comp"}]
  /\ request \in [Requests ->
       [order : Orders \cup {Nobody},
        st : {"NONE", "REQUESTED", "APPROVED", "REJECTED", "REFUNDED"}]]
  /\ ticket \in [Orders -> {"VALID", "USED", "CANCELLED", "REFUNDED"}]
  /\ seat \in [Orders -> {"SOLD", "AVAILABLE"}]
  /\ usedCount \in Nat
  /\ redeemed \subseteq Orders
  /\ due \subseteq Orders
  /\ okScans \in [Orders -> Nat]
  /\ pc \in [Procs -> {PageOf[l] : l \in DOMAIN PageOf} \cup DOMAIN PageOf
                        \cup {"choosing", "done"}]
  /\ target \in [Procs -> Orders \cup Requests \cup {Nobody}]
  /\ loaded \subseteq Staff
  /\ revoked \subseteq Orders
  /\ doomed \in [Orders -> {Nobody, "REFUND_PENDING", "CANCELLED"}]

\* One ticket lets one person in: of any number of scanners reading it at the
\* same time, while it is cancelled or refunded or not, one logs OK at most.
EnteredOnce == \A o \in Orders : okScans[o] <= 1

\* A CANCELLED or REFUNDED ticket never opens the gate again and keeps the
\* reason it was revoked for: no late scan, cancellation or refund overwrites
\* it.
RevokedForGood ==
  [][\A o \in Orders : ticket[o] \in {"CANCELLED", "REFUNDED"} =>
       ticket'[o] = ticket[o]]_vars

\* A refund that was closed, by the request or by the order, leaves no ticket
\* for the gate (a used one included) and no seat taken.
RefundedIsClosed ==
  \A o \in Orders :
    (status[o] = "REFUNDED" \/ [order |-> o, st |-> "REFUNDED"]
                                 \in {request[r] : r \in Requests}) =>
      /\ ticket[o] \in {"CANCELLED", "REFUNDED"}
      /\ seat[o] = "AVAILABLE"

\* usedCount, which limits the coupon, is the number of its redemptions: two
\* refunds closed at the same time give one use back, once.
CouponLedger == usedCount = Cardinality(redeemed)

\* "Requests in progress are subsumed by the cancellation": an order the
\* cancellation made due for a refund does not become a PAID order again.
SubsumedByCancellation ==
  [][\A o \in Orders :
       termin = "CANCELLED" /\ status[o] = "REFUND_PENDING" =>
         status'[o] # "PAID"]_vars

=============================================================================
