--------------------------- MODULE Refunds_proofs ---------------------------
(***************************************************************************)
(* The safety of Refunds for any number of orders, requests, staff and     *)
(* scanners.                                                               *)
(***************************************************************************)
EXTENDS Refunds, FiniteSetTheorems, TLAPS

\* What a page shows, or its call is about to do, is about rows that exist.
CustomerInv ==
  \A r \in Requests :
    /\ pc[r] \in {"idle", "form", "open", "create", "done"}
    /\ pc[r] \in {"form", "open", "create"} => target[r] \in Orders

StaffInv ==
  \A c \in Staff :
    /\ pc[c] \in {"idle", "ask_approve", "ask_reject", "ask_refund",
                  "approve", "reject", "refund"}
    /\ pc[c] # "idle" => target[c] \in Requests /\ OrderOf(target[c]) \in Orders

ScannerInv ==
  \A x \in Scanners :
    /\ pc[x] \in {"choosing", "idle", "use", "paused"}
    /\ pc[x] = "use" => target[x] \in Orders

CancellerInv ==
  \A p \in Cancellers :
    pc[p] \in {"idle", "tickets", "paid", "free", "requested", "commit"}

CallsInv == CustomerInv /\ StaffInv /\ ScannerInv /\ CancellerInv

\* A request that was made is about an order.
RequestInv ==
  \A r \in Requests : request[r].st # "NONE" => OrderOf(r) \in Orders

\* Nobody has entered with a ticket that is still VALID, and a cancellation
\* under way holds live tickets only.
TicketInv ==
  \A o \in Orders :
    /\ ticket[o] = "VALID" => okScans[o] = 0
    /\ okScans[o] <= 1
    /\ o \in revoked => LiveTicket(o)

\* An order is redeemed once: it stops being due when its row is made.
CouponInv ==
  /\ IsFiniteSet(redeemed)
  /\ redeemed \cap due = {}
  /\ usedCount = Cardinality(redeemed)

IInv ==
  /\ RefundsTypeOK
  /\ CallsInv
  /\ RequestInv
  /\ TicketInv
  /\ CouponInv
  /\ RefundedIsClosed

-----------------------------------------------------------------------------
(***************************************************************************)
(* The labels of the pages, and the parts of a step.                       *)
(***************************************************************************)
Labels == {"open", "create", "approve", "reject", "refund", "use", "tickets",
           "paid", "free", "requested", "commit"}
Shown == {"form", "ask_approve", "ask_reject", "ask_refund", "paused", "idle"}

LEMMA PageLabels ==
  /\ DOMAIN PageOf = Labels
  /\ {PageOf[l] : l \in DOMAIN PageOf} = Shown
<1>1. DOMAIN PageOf = Labels
  BY DEF PageOf, Labels
<1>2. \A l \in Labels : PageOf[l] \in Shown
  BY DEF PageOf, Labels, Shown
<1>3. \A s \in Shown : \E l \in Labels : PageOf[l] = s
  <2>1. /\ PageOf["open"] = "form" /\ PageOf["approve"] = "ask_approve"
        /\ PageOf["reject"] = "ask_reject" /\ PageOf["refund"] = "ask_refund"
        /\ PageOf["use"] = "paused" /\ PageOf["tickets"] = "idle"
    BY DEF PageOf
  <2> QED
    BY <2>1 DEF Shown, Labels
<1> QED
  BY <1>1, <1>2, <1>3

AllLabels == Shown \cup Labels \cup {"choosing", "done"}

LEMMA PcType ==
  RefundsTypeOK => pc \in [Procs -> AllLabels]
  BY PageLabels DEF RefundsTypeOK, AllLabels

\* The pages and calls are well formed.
CallsOK ==
  /\ pc \in [Procs -> AllLabels]
  /\ target \in [Procs -> Orders \cup Requests \cup {Nobody}]
  /\ loaded \subseteq Staff
  /\ CallsInv

\* A step that writes no row: only the pages, and what a cancellation holds.
LEMMA CallStep ==
  ASSUME IInv, UNCHANGED rows, CallsOK', UNCHANGED cancellation
  PROVE  IInv'
<1> USE DEF IInv
<1>1. RefundsTypeOK'
  BY PageLabels DEF RefundsTypeOK, CallsOK, AllLabels, rows, cancellation
<1>2. CallsInv'
  BY DEF CallsOK
<1>3. RequestInv' /\ TicketInv' /\ CouponInv' /\ RefundedIsClosed'
  BY DEF RequestInv, TicketInv, CouponInv, RefundedIsClosed, rows,
         cancellation, OrderOf, LiveTicket
<1> QED
  BY <1>1, <1>2, <1>3

\* Every step that only moves a page, by the kind of page it is on.
LEMMA OpenFormStep ==
  ASSUME IInv, NEW r \in Requests, NEW o \in Orders, OpenForm(r, o)
  PROVE  IInv'
<1>1. CallsOK'
  BY PcType, RefundsAssumption
  DEF IInv, RefundsTypeOK, CallsOK, CallsInv, CustomerInv, StaffInv,
      ScannerInv, CancellerInv, OpenForm, Goto, OrderOf, rows,
      AllLabels, Shown, Labels, Procs, Cancellers
<1> QED
  BY <1>1, CallStep DEF OpenForm

LEMMA ReadPaidOrderStep ==
  ASSUME IInv, NEW r \in Requests, ReadPaidOrder(r)
  PROVE  IInv'
<1>1. CallsOK'
  BY PcType, RefundsAssumption
  DEF IInv, RefundsTypeOK, CallsOK, CallsInv, CustomerInv, StaffInv,
      ScannerInv, CancellerInv, ReadPaidOrder, Goto, OrderOf, rows,
      AllLabels, Shown, Labels, Procs, Cancellers
<1> QED
  BY <1>1, CallStep DEF ReadPaidOrder

LEMMA CheckNoneOpenStep ==
  ASSUME IInv, NEW r \in Requests, CheckNoneOpen(r)
  PROVE  IInv'
<1>1. CallsOK'
  BY PcType, RefundsAssumption
  DEF IInv, RefundsTypeOK, CallsOK, CallsInv, CustomerInv, StaffInv,
      ScannerInv, CancellerInv, CheckNoneOpen, Goto, OrderOf, rows,
      AllLabels, Shown, Labels, Procs, Cancellers
<1> QED
  BY <1>1, CallStep DEF CheckNoneOpen

LEMMA OpenModalStep ==
  ASSUME IInv, NEW c \in Staff, NEW r \in Requests,
         NEW action \in DOMAIN Needed, OpenModal(c, r, action)
  PROVE  IInv'
<1>1. CallsOK'
  BY PcType, RefundsAssumption
  DEF IInv, RefundsTypeOK, CallsOK, CallsInv, CustomerInv, StaffInv,
      ScannerInv, CancellerInv, RequestInv,
      OpenModal, Awaiting, Needed, Dialog, Goto, OrderOf, rows,
      AllLabels, Shown, Labels, Procs, Cancellers
<1> QED
  BY <1>1, CallStep DEF OpenModal

LEMMA LoadStep ==
  ASSUME IInv, NEW c \in Staff, NEW action \in DOMAIN Needed, Load(c, action)
  PROVE  IInv'
<1>1. CallsOK'
  BY PcType, RefundsAssumption
  DEF IInv, RefundsTypeOK, CallsOK, CallsInv, CustomerInv, StaffInv,
      ScannerInv, CancellerInv, Load, LoadScoped, Needed, Dialog,
      Goto, OrderOf, rows,
      AllLabels, Shown, Labels, Procs, Cancellers
<1> QED
  BY <1>1, CallStep DEF Load

LEMMA CouponGoneStep ==
  ASSUME IInv, NEW c \in Staff, CouponGone(c)
  PROVE  IInv'
<1>1. CallsOK'
  BY PcType, RefundsAssumption
  DEF IInv, RefundsTypeOK, CallsOK, CallsInv, CustomerInv, StaffInv,
      ScannerInv, CancellerInv, CouponGone, Goto, OrderOf, rows,
      AllLabels, Shown, Labels, Procs, Cancellers
<1> QED
  BY <1>1, CallStep DEF CouponGone

LEMMA SelectTerminStep ==
  ASSUME IInv, NEW x \in Scanners, SelectTermin(x)
  PROVE  IInv'
<1>1. CallsOK'
  BY PcType, RefundsAssumption
  DEF IInv, RefundsTypeOK, CallsOK, CallsInv, CustomerInv, StaffInv,
      ScannerInv, CancellerInv, SelectTermin, Choosing, Goto, OrderOf, rows,
      AllLabels, Shown, Labels, Procs, Cancellers
<1> QED
  BY <1>1, CallStep DEF SelectTermin

LEMMA ChangeTerminStep ==
  ASSUME IInv, NEW x \in Scanners, ChangeTermin(x)
  PROVE  IInv'
<1>1. CallsOK'
  BY PcType, RefundsAssumption
  DEF IInv, RefundsTypeOK, CallsOK, CallsInv, CustomerInv, StaffInv,
      ScannerInv, CancellerInv, ChangeTermin, Scanning, Goto, OrderOf, rows,
      AllLabels, Shown, Labels, Procs, Cancellers
<1> QED
  BY <1>1, CallStep DEF ChangeTermin

LEMMA EnterManuallyStep ==
  ASSUME IInv, NEW x \in Scanners, EnterManually(x)
  PROVE  IInv'
<1>1. CallsOK'
  BY PcType, RefundsAssumption
  DEF IInv, RefundsTypeOK, CallsOK, CallsInv, CustomerInv, StaffInv,
      ScannerInv, CancellerInv, EnterManually, Scanning, Goto, OrderOf, rows,
      AllLabels, Shown, Labels, Procs, Cancellers
<1> QED
  BY <1>1, CallStep DEF EnterManually

LEMMA ReadTicketStep ==
  ASSUME IInv, NEW x \in Scanners, NEW o \in Orders, ReadTicket(x, o)
  PROVE  IInv'
<1>1. CallsOK'
  BY PcType, RefundsAssumption
  DEF IInv, RefundsTypeOK, CallsOK, CallsInv, CustomerInv, StaffInv,
      ScannerInv, CancellerInv, ReadTicket, Scanning, Answer,
      Goto, OrderOf, rows,
      AllLabels, Shown, Labels, Procs, Cancellers
<1> QED
  BY <1>1, CallStep DEF ReadTicket

LEMMA NoLongerValidStep ==
  ASSUME IInv, NEW x \in Scanners, NoLongerValid(x)
  PROVE  IInv'
<1>1. CallsOK'
  BY PcType, RefundsAssumption
  DEF IInv, RefundsTypeOK, CallsOK, CallsInv, CustomerInv, StaffInv,
      ScannerInv, CancellerInv, NoLongerValid, Answer, Goto, OrderOf, rows,
      AllLabels, Shown, Labels, Procs, Cancellers
<1> QED
  BY <1>1, CallStep DEF NoLongerValid

LEMMA CheckNotCancelledStep ==
  ASSUME IInv, NEW p \in Cancellers, CheckNotCancelled(p)
  PROVE  IInv'
<1>1. CallsOK'
  BY PcType, RefundsAssumption
  DEF IInv, RefundsTypeOK, CallsOK, CallsInv, CustomerInv, StaffInv,
      ScannerInv, CancellerInv, CheckNotCancelled,
      CancelOffered, Goto, OrderOf, rows,
      AllLabels, Shown, Labels, Procs, Cancellers
<1> QED
  BY <1>1, CallStep DEF CheckNotCancelled

LEMMA DismissStep ==
  ASSUME IInv, NEW p \in Procs, Dismiss(p)
  PROVE  IInv'
<1>1. CallsOK'
  BY PcType, RefundsAssumption
  DEF IInv, RefundsTypeOK, CallsOK, CallsInv, CustomerInv, StaffInv,
      ScannerInv, CancellerInv, Dismiss, Goto, OrderOf, rows,
      AllLabels, Shown, Labels, Procs, Cancellers
<1> QED
  BY <1>1, CallStep DEF Dismiss

-----------------------------------------------------------------------------
(***************************************************************************)
(* The transactions.                                                       *)
(***************************************************************************)
\* A step that writes orders and requests of the refund list, and the ticket,
\* the seat and the coupon of none.
LEMMA DeskStep ==
  ASSUME IInv, CallsOK',
         status' \in [Orders -> OrderStatuses],
         request' \in [Requests ->
           [order : Orders \cup {Nobody},
            st : {"NONE", "REQUESTED", "APPROVED", "REJECTED", "REFUNDED"}]],
         RequestInv',
         \A o \in Orders : status'[o] = "REFUNDED" => status[o] = "REFUNDED",
         \A r \in Requests : request'[r].st = "REFUNDED" =>
                               request'[r] = request[r],
         UNCHANGED <<show, termin, provider, ticket, seat, usedCount,
                     redeemed, due, okScans, cancellation>>
  PROVE  IInv'
<1> USE DEF IInv
<1>1. RefundsTypeOK'
  BY PageLabels DEF RefundsTypeOK, CallsOK, AllLabels, cancellation
<1>2. TicketInv' /\ CouponInv'
  BY DEF TicketInv, CouponInv, cancellation, LiveTicket
<1>3. RefundedIsClosed'
  <2> SUFFICES ASSUME NEW o \in Orders,
                      \/ status'[o] = "REFUNDED"
                      \/ \E r \in Requests :
                           request'[r] = [order |-> o, st |-> "REFUNDED"]
               PROVE  /\ ticket'[o] \in {"CANCELLED", "REFUNDED"}
                      /\ seat'[o] = "AVAILABLE"
    BY DEF RefundedIsClosed
  <2>1. \/ status[o] = "REFUNDED"
        \/ \E r \in Requests : request[r] = [order |-> o, st |-> "REFUNDED"]
    OBVIOUS
  <2> QED
    BY <2>1 DEF RefundedIsClosed
<1> QED
  BY <1>1, <1>2, <1>3 DEF CallsOK

LEMMA CreateRequestStep ==
  ASSUME IInv, NEW r \in Requests, CreateRequest(r)
  PROVE  IInv'
<1>1. target[r] \in Orders
  BY DEF IInv, CallsInv, CustomerInv, CreateRequest
<1>2. CallsOK'
  BY <1>1, PcType, RefundsAssumption
  DEF IInv, RefundsTypeOK, CallsOK, CallsInv, CustomerInv, StaffInv,
      ScannerInv, CancellerInv, CreateRequest, Leave, Goto, OrderOf,
      AllLabels, Shown, Labels, Procs, Cancellers
<1>3. /\ status' \in [Orders -> OrderStatuses]
      /\ request' \in [Requests ->
           [order : Orders \cup {Nobody},
            st : {"NONE", "REQUESTED", "APPROVED", "REJECTED", "REFUNDED"}]]
  BY <1>1 DEF IInv, RefundsTypeOK, OrderStatuses, CreateRequest
<1>4. RequestInv'
  BY <1>1 DEF IInv, RefundsTypeOK, RequestInv, CreateRequest, OrderOf
<1>5. /\ \A o \in Orders : status'[o] = "REFUNDED" => status[o] = "REFUNDED"
      /\ \A q \in Requests : request'[q].st = "REFUNDED" =>
                               request'[q] = request[q]
  BY <1>1 DEF IInv, RefundsTypeOK, CreateRequest
<1> QED
  BY <1>2, <1>3, <1>4, <1>5, DeskStep DEF CreateRequest

\* A dialog of the staff is about a request that was made.
LEMMA DialogTarget ==
  ASSUME IInv, NEW c \in Staff, pc[c] # "idle"
  PROVE  /\ target[c] \in Requests
         /\ OrderOf(target[c]) \in Orders
  BY DEF IInv, CallsInv, StaffInv

LEMMA ReviewStep ==
  ASSUME IInv, NEW c \in Staff,
         NEW label \in {"approve", "reject"},
         NEW requestStatus \in {"APPROVED", "REJECTED"},
         NEW orderStatus \in {"REFUND_APPROVED", "PAID"},
         Review(c, label, requestStatus, orderStatus)
  PROVE  IInv'
<1> DEFINE q == target[c]
           o == OrderOf(q)
<1>1. q \in Requests /\ o \in Orders
  BY DialogTarget DEF Review
<1>2. /\ request' = [request EXCEPT ![q].st = requestStatus]
      /\ status' = [status EXCEPT ![o] = orderStatus]
  BY DEF Review
<1>3. \A p \in Requests : OrderOf(p)' = OrderOf(p)
  BY <1>1, <1>2 DEF IInv, RefundsTypeOK, OrderOf
<1> HIDE DEF q, o
<1>4. CallsOK'
  BY <1>1, <1>3, PcType, RefundsAssumption
  DEF IInv, RefundsTypeOK, CallsOK, CallsInv, CustomerInv, StaffInv,
      ScannerInv, CancellerInv, Review, Leave, Goto,
      AllLabels, Shown, Labels, Procs, Cancellers
<1>5. /\ status' \in [Orders -> OrderStatuses]
      /\ request' \in [Requests ->
           [order : Orders \cup {Nobody},
            st : {"NONE", "REQUESTED", "APPROVED", "REJECTED", "REFUNDED"}]]
  BY <1>1, <1>2 DEF IInv, RefundsTypeOK, OrderStatuses
<1>6. RequestInv'
  BY <1>1, <1>2, <1>3, DialogTarget
  DEF IInv, RefundsTypeOK, RequestInv, q, o, Review
<1>7. /\ \A p \in Orders : status'[p] = "REFUNDED" => status[p] = "REFUNDED"
      /\ \A p \in Requests : request'[p].st = "REFUNDED" =>
                               request'[p] = request[p]
  BY <1>1, <1>2 DEF IInv, RefundsTypeOK
<1> QED
  BY <1>4, <1>5, <1>6, <1>7, DeskStep DEF Review

\* The one step that gives a coupon's use back: of a row it still finds.
LEMMA MarkRefundedStep ==
  ASSUME IInv, NEW c \in Staff, MarkRefunded(c)
  PROVE  IInv'
<1> DEFINE q == target[c]
           o == OrderOf(q)
<1>1. q \in Requests /\ o \in Orders
  BY DialogTarget DEF MarkRefunded, CloseRefund
<1>2. /\ request' = [request EXCEPT ![q].st = "REFUNDED"]
      /\ status' = [status EXCEPT ![o] = "REFUNDED"]
      /\ ticket' = [ticket EXCEPT ![o] = IF LiveTicket(o) THEN "REFUNDED"
                                                          ELSE @]
      /\ seat' = [seat EXCEPT ![o] = "AVAILABLE"]
      /\ UNCHANGED <<show, termin, provider, due, okScans, revoked, doomed>>
      /\ LiveTicket(o) => o \notin revoked
  BY DEF MarkRefunded, CloseRefund, cancellation, TicketFree
<1>3. \A r \in Requests : OrderOf(r)' = OrderOf(r)
  BY <1>1, <1>2 DEF IInv, RefundsTypeOK, OrderOf
<1>4. CouponInv' /\ usedCount' \in Nat /\ redeemed' \subseteq Orders
  <2>1. CASE c \in loaded
    <3>1. o \in redeemed /\ redeemed' = redeemed \ {o}
          /\ usedCount' = usedCount - 1
      BY <2>1 DEF MarkRefunded
    <3>2. IsFiniteSet(redeemed') /\ Cardinality(redeemed') = usedCount - 1
      BY <3>1, FS_RemoveElement DEF IInv, CouponInv
    <3>3. Cardinality(redeemed') \in Nat
      BY <3>2, FS_CardinalityType
    <3> QED
      BY <1>2, <3>1, <3>2, <3>3 DEF IInv, CouponInv, RefundsTypeOK
  <2>2. CASE c \notin loaded
    BY <1>2, <2>2 DEF IInv, CouponInv, RefundsTypeOK, MarkRefunded
  <2> QED
    BY <2>1, <2>2
<1> HIDE DEF q, o
<1>5. CallsOK'
  BY <1>1, <1>3, PcType, RefundsAssumption
  DEF IInv, RefundsTypeOK, CallsOK, CallsInv, CustomerInv, StaffInv,
      ScannerInv, CancellerInv, MarkRefunded, CloseRefund, Leave, Goto,
      AllLabels, Shown, Labels, Procs, Cancellers
<1>6. TicketInv'
  BY <1>1, <1>2 DEF IInv, RefundsTypeOK, TicketInv, LiveTicket
<1>7. RequestInv'
  BY <1>1, <1>2, <1>3 DEF IInv, RefundsTypeOK, RequestInv, o
<1>8. /\ status' \in [Orders -> OrderStatuses]
      /\ request' \in [Requests ->
           [order : Orders \cup {Nobody},
            st : {"NONE", "REQUESTED", "APPROVED", "REJECTED", "REFUNDED"}]]
      /\ ticket' \in [Orders -> {"VALID", "USED", "CANCELLED", "REFUNDED"}]
      /\ seat' \in [Orders -> {"SOLD", "AVAILABLE"}]
  BY <1>1, <1>2 DEF IInv, RefundsTypeOK, OrderStatuses
<1>9. RefundsTypeOK'
  BY <1>2, <1>4, <1>5, <1>8, PageLabels
  DEF IInv, RefundsTypeOK, CallsOK, AllLabels
<1>10. RefundedIsClosed'
  <2> SUFFICES ASSUME NEW k \in Orders,
                      \/ status'[k] = "REFUNDED"
                      \/ \E r \in Requests :
                           request'[r] = [order |-> k, st |-> "REFUNDED"]
               PROVE  /\ ticket'[k] \in {"CANCELLED", "REFUNDED"}
                      /\ seat'[k] = "AVAILABLE"
    BY DEF RefundedIsClosed
  <2>1. CASE k = o
    BY <1>1, <1>2, <2>1 DEF IInv, RefundsTypeOK, LiveTicket
  <2>2. CASE k # o
    <3>1. \/ status[k] = "REFUNDED"
          \/ \E r \in Requests : request[r] = [order |-> k, st |-> "REFUNDED"]
      BY <1>1, <1>2, <1>3, <2>2 DEF IInv, RefundsTypeOK, OrderOf, o
    <3> QED
      BY <1>1, <1>2, <2>2, <3>1 DEF IInv, RefundsTypeOK, RefundedIsClosed
  <2> QED
    BY <2>1, <2>2
<1> QED
  BY <1>4, <1>5, <1>6, <1>7, <1>9, <1>10 DEF IInv, CallsOK

LEMMA RedeemForPaidOrderStep ==
  ASSUME IInv, NEW o \in Orders, RedeemForPaidOrder(o)
  PROVE  IInv'
<1>1. o \notin redeemed
  BY DEF IInv, CouponInv, RedeemForPaidOrder
<1>2. /\ IsFiniteSet(redeemed')
      /\ Cardinality(redeemed') = Cardinality(redeemed) + 1
  BY <1>1, FS_AddElement DEF IInv, CouponInv, RedeemForPaidOrder
<1>3. CouponInv' /\ usedCount' \in Nat /\ redeemed' \subseteq Orders
  BY <1>2 DEF IInv, CouponInv, RefundsTypeOK, RedeemForPaidOrder
<1>4. RefundsTypeOK'
  BY <1>3 DEF IInv, RefundsTypeOK, RedeemForPaidOrder, calls, cancellation
<1>5. CallsInv' /\ RequestInv' /\ TicketInv' /\ RefundedIsClosed'
  BY DEF IInv, CallsInv, CustomerInv, StaffInv, ScannerInv, CancellerInv,
     RequestInv, TicketInv, RefundedIsClosed, RedeemForPaidOrder, calls,
     cancellation, OrderOf, LiveTicket
<1> QED
  BY <1>3, <1>4, <1>5 DEF IInv

LEMMA UseTicketStep ==
  ASSUME IInv, NEW x \in Scanners, UseTicket(x)
  PROVE  IInv'
<1> DEFINE o == target[x]
<1>1. /\ o \in Orders
      /\ ticket[o] = "VALID"
      /\ ticket' = [ticket EXCEPT ![o] = "USED"]
      /\ okScans' = [okScans EXCEPT ![o] = @ + 1]
      /\ UNCHANGED <<show, termin, status, provider, request, seat, usedCount,
                     redeemed, due, loaded, revoked, doomed>>
  BY DEF IInv, CallsInv, ScannerInv, UseTicket, cancellation
<1> HIDE DEF o
<1>2. CallsOK'
  BY <1>1, PcType, RefundsAssumption
  DEF IInv, RefundsTypeOK, CallsOK, CallsInv, CustomerInv, StaffInv,
      ScannerInv, CancellerInv, UseTicket, Answer, Goto, OrderOf,
      AllLabels, Shown, Labels, Procs, Cancellers
<1>3. TicketInv'
  BY <1>1 DEF IInv, RefundsTypeOK, TicketInv, LiveTicket
<1>4. RefundedIsClosed'
  BY <1>1 DEF IInv, RefundsTypeOK, RefundedIsClosed
<1>5. /\ ticket' \in [Orders -> {"VALID", "USED", "CANCELLED", "REFUNDED"}]
      /\ okScans' \in [Orders -> Nat]
  BY <1>1 DEF IInv, RefundsTypeOK
<1>6. RefundsTypeOK'
  BY <1>1, <1>2, <1>5, PageLabels
  DEF IInv, RefundsTypeOK, CallsOK, AllLabels
<1>7. RequestInv' /\ CouponInv'
  BY <1>1 DEF IInv, RequestInv, CouponInv, OrderOf
<1> QED
  BY <1>2, <1>3, <1>4, <1>6, <1>7 DEF IInv, CallsOK

\* A step of a cancellation before its commit, or the end of its transaction:
\* the rows it holds change, and no row.
LEMMA CancellationStep ==
  ASSUME IInv, CallsOK', UNCHANGED rows,
         revoked' \subseteq Orders,
         \A o \in revoked' : LiveTicket(o),
         doomed' \in [Orders -> {Nobody, "REFUND_PENDING", "CANCELLED"}]
  PROVE  IInv'
<1> USE DEF IInv
<1>1. RefundsTypeOK'
  BY PageLabels DEF RefundsTypeOK, CallsOK, AllLabels, rows
<1>2. TicketInv'
  BY DEF TicketInv, rows, LiveTicket
<1>3. RequestInv' /\ CouponInv' /\ RefundedIsClosed'
  BY DEF RequestInv, CouponInv, RefundedIsClosed, rows, OrderOf
<1> QED
  BY <1>1, <1>2, <1>3 DEF CallsOK

LEMMA RevokeTicketsStep ==
  ASSUME IInv, NEW p \in Cancellers, RevokeTickets(p)
  PROVE  IInv'
<1>1. CallsOK'
  BY PcType, RefundsAssumption
  DEF IInv, RefundsTypeOK, CallsOK, CallsInv, CustomerInv, StaffInv,
      ScannerInv, CancellerInv, RevokeTickets, Goto, rows, OrderOf,
      AllLabels, Shown, Labels, Procs, Cancellers
<1>2. revoked' \subseteq Orders /\ \A o \in revoked' : LiveTicket(o)
  BY DEF RevokeTickets
<1>3. doomed' \in [Orders -> {Nobody, "REFUND_PENDING", "CANCELLED"}]
  BY DEF IInv, RefundsTypeOK, RevokeTickets
<1> QED
  BY <1>1, <1>2, <1>3, CancellationStep DEF RevokeTickets

LEMMA DoomStep ==
  ASSUME IInv, NEW p \in Cancellers,
         NEW label \in {"paid", "free", "requested"},
         NEW next \in {"free", "requested", "commit"},
         NEW from, NEW providers,
         NEW to \in {"REFUND_PENDING", "CANCELLED"},
         Doom(p, label, next, from, providers, to)
  PROVE  IInv'
<1>1. CallsOK'
  BY PcType, RefundsAssumption
  DEF IInv, RefundsTypeOK, CallsOK, CallsInv, CustomerInv, StaffInv,
      ScannerInv, CancellerInv, Doom, Goto, rows, OrderOf,
      AllLabels, Shown, Labels, Procs, Cancellers
<1>2. revoked' \subseteq Orders /\ \A o \in revoked' : LiveTicket(o)
  BY DEF IInv, RefundsTypeOK, TicketInv, Doom
<1>3. doomed' \in [Orders -> {Nobody, "REFUND_PENDING", "CANCELLED"}]
  BY DEF IInv, RefundsTypeOK, Doom
<1> QED
  BY <1>1, <1>2, <1>3, CancellationStep DEF Doom

LEMMA FailStep ==
  ASSUME IInv, NEW p \in Procs, Fail(p)
  PROVE  IInv'
<1>1. CallsOK'
  <2>1. pc[p] \in Labels /\ PageOf[pc[p]] \in Shown
    BY PageLabels DEF Fail
  <2>2. /\ pc[p] \in {"open", "create"} => PageOf[pc[p]] = "form"
        /\ pc[p] = "approve" => PageOf[pc[p]] = "ask_approve"
        /\ pc[p] = "reject" => PageOf[pc[p]] = "ask_reject"
        /\ pc[p] = "refund" => PageOf[pc[p]] = "ask_refund"
        /\ pc[p] = "use" => PageOf[pc[p]] = "paused"
        /\ pc[p] \in {"tickets", "paid", "free", "requested", "commit"} =>
             PageOf[pc[p]] = "idle"
    BY DEF PageOf
  <2>3. /\ pc' = [pc EXCEPT ![p] = PageOf[pc[p]]]
        /\ loaded' = loaded \ {p}
        /\ target' = [target EXCEPT ![p] = IF p \in Scanners THEN Nobody
                                                             ELSE @]
        /\ UNCHANGED request
    BY DEF Fail, Goto, rows
  <2> QED
    BY <2>1, <2>2, <2>3, PcType, RefundsAssumption
    DEF IInv, RefundsTypeOK, CallsOK, CallsInv, CustomerInv, StaffInv,
        ScannerInv, CancellerInv, OrderOf, AllLabels, Shown, Labels, Procs,
        Cancellers
<1>2. revoked' \subseteq Orders /\ \A o \in revoked' : LiveTicket(o)
  BY DEF IInv, RefundsTypeOK, TicketInv, Fail, cancellation
<1>3. doomed' \in [Orders -> {Nobody, "REFUND_PENDING", "CANCELLED"}]
  BY DEF IInv, RefundsTypeOK, Fail, cancellation
<1> QED
  BY <1>1, <1>2, <1>3, CancellationStep DEF Fail

LEMMA CommitCancellationStep ==
  ASSUME IInv, NEW p \in Cancellers, CommitCancellation(p)
  PROVE  IInv'
<1>1. CallsOK'
  BY PcType, RefundsAssumption
  DEF IInv, RefundsTypeOK, CallsOK, CallsInv, CustomerInv, StaffInv,
      ScannerInv, CancellerInv, CommitCancellation, Leave, Goto, OrderOf,
      AllLabels, Shown, Labels, Procs, Cancellers
<1>2. /\ show' \in {"PUBLISHED", "CANCELLED"}
      /\ status' \in [Orders -> OrderStatuses]
      /\ ticket' \in [Orders -> {"VALID", "USED", "CANCELLED", "REFUNDED"}]
      /\ seat' \in [Orders -> {"SOLD", "AVAILABLE"}]
      /\ doomed' \in [Orders -> {Nobody, "REFUND_PENDING", "CANCELLED"}]
  BY DEF IInv, RefundsTypeOK, OrderStatuses, OrderFree, CommitCancellation
<1>3. RefundsTypeOK'
  BY <1>1, <1>2, PageLabels
  DEF IInv, RefundsTypeOK, CallsOK, AllLabels, CommitCancellation
<1>4. TicketInv'
  BY DEF IInv, RefundsTypeOK, TicketInv, CommitCancellation
<1>5. RequestInv' /\ CouponInv'
  BY DEF IInv, RequestInv, CouponInv, OrderOf, CommitCancellation
<1>6. RefundedIsClosed'
  BY DEF IInv, RefundsTypeOK, RefundedIsClosed, OrderFree, CommitCancellation
<1> QED
  BY <1>1, <1>3, <1>4, <1>5, <1>6 DEF IInv, CallsOK

-----------------------------------------------------------------------------
(***************************************************************************)
(* The induction.                                                          *)
(***************************************************************************)
LEMMA InitInv == Init => IInv
<1> SUFFICES ASSUME Init PROVE IInv
  OBVIOUS
<1>1. RefundsTypeOK
  BY PageLabels DEF Init, RefundsTypeOK, OrderStatuses, Procs, Shown
<1>2. CallsInv
  BY RefundsAssumption
  DEF Init, CallsInv, CustomerInv, StaffInv, ScannerInv, CancellerInv, Procs,
      Cancellers
<1>3. RequestInv /\ TicketInv /\ RefundedIsClosed
  BY DEF Init, RequestInv, TicketInv, RefundedIsClosed
<1>4. CouponInv
  BY FS_EmptySet DEF Init, CouponInv
<1> QED
  BY <1>1, <1>2, <1>3, <1>4 DEF IInv

LEMMA NextInv == IInv /\ [Next]_vars => IInv'
<1> SUFFICES ASSUME IInv, [Next]_vars PROVE IInv'
  OBVIOUS
<1>1. ASSUME NEW r \in Requests, RequestRefund(r) PROVE IInv'
  BY <1>1, OpenFormStep, ReadPaidOrderStep, CheckNoneOpenStep,
     CreateRequestStep DEF RequestRefund
<1>2. ASSUME NEW c \in Staff, Process(c) PROVE IInv'
  <2>1. CASE Approve(c) \/ Reject(c)
    BY <2>1, ReviewStep DEF Approve, Reject
  <2> QED
    BY <1>2, <2>1, LoadStep, OpenModalStep, MarkRefundedStep, CouponGoneStep,
       Zenon DEF Process
<1>3. ASSUME NEW o \in Orders, RedeemForPaidOrder(o) PROVE IInv'
  BY <1>3, RedeemForPaidOrderStep
<1>4. ASSUME NEW x \in Scanners, ValidateScan(x) PROVE IInv'
  BY <1>4, SelectTerminStep, ChangeTerminStep, EnterManuallyStep,
     ReadTicketStep, UseTicketStep, NoLongerValidStep DEF ValidateScan
<1>5. ASSUME NEW p \in Cancellers, Cancel(p) PROVE IInv'
  <2>1. CASE DoomPaid(p) \/ DoomFree(p) \/ DoomRequested(p)
    BY <2>1, DoomStep DEF DoomPaid, DoomFree, DoomRequested
  <2> QED
    BY <1>5, <2>1, CheckNotCancelledStep, RevokeTicketsStep,
       CommitCancellationStep DEF Cancel
<1>6. ASSUME NEW p \in Procs, Fail(p) \/ Dismiss(p) PROVE IInv'
  BY <1>6, FailStep, DismissStep
<1>7. CASE UNCHANGED vars
  <2>1. CallsOK'
    BY <1>7, PcType
    DEF IInv, RefundsTypeOK, CallsOK, CallsInv, CustomerInv, StaffInv,
        ScannerInv, CancellerInv, OrderOf, vars, rows, calls
  <2> QED
    BY <1>7, <2>1, CallStep DEF vars, calls
<1> QED
  BY <1>1, <1>2, <1>3, <1>4, <1>5, <1>6, <1>7 DEF Next

LEMMA SpecInv == Spec => []IInv
  BY InitInv, NextInv, PTL DEF Spec

-----------------------------------------------------------------------------
(***************************************************************************)
(* What refunds, scans and cancellations promise.                          *)
(***************************************************************************)
\* Every row, page and call keeps its type, and the counter of the coupon is
\* never negative.
THEOREM RowsWellFormed == Spec => []RefundsTypeOK
<1>1. IInv => RefundsTypeOK
  BY DEF IInv
<1> QED
  BY <1>1, SpecInv, PTL

\* validateScan logs OK for a ticket once, however many scanners read it.
THEOREM OneEntryPerTicket == Spec => []EnteredOnce
<1>1. IInv => EnteredOnce
  BY DEF IInv, TicketInv, EnteredOnce
<1> QED
  BY <1>1, SpecInv, PTL

\* markRefunded leaves neither a ticket for the gate nor a seat taken, and
\* nothing that scans, cancels or reviews afterwards gives either back.
THEOREM RefundsStayClosed == Spec => []RefundedIsClosed
<1>1. IInv => RefundedIsClosed
  BY DEF IInv
<1> QED
  BY <1>1, SpecInv, PTL

\* redeemForPaidOrder and markRefunded keep the counter of the coupon equal
\* to the number of its redemption rows.
THEOREM CouponCounted == Spec => []CouponLedger
<1>1. IInv => CouponLedger
  BY DEF IInv, CouponInv, CouponLedger
<1> QED
  BY <1>1, SpecInv, PTL

\* A transaction invalidates live tickets only: the refund by its condition,
\* the cancellation because it holds the rows it has found live.
LEMMA StepKeepsRevoked ==
  ASSUME IInv, [Next]_vars,
         NEW o \in Orders, ticket[o] \in {"CANCELLED", "REFUNDED"}
  PROVE  ticket'[o] = ticket[o]
<1> USE DEF IInv, RefundsTypeOK
<1>1. ASSUME NEW r \in Requests, RequestRefund(r) PROVE ticket' = ticket
  BY <1>1 DEF RequestRefund, OpenForm, ReadPaidOrder, CheckNoneOpen,
              CreateRequest, rows
<1>2. ASSUME NEW c \in Staff, Process(c) PROVE ticket'[o] = ticket[o]
  <2>1. CASE MarkRefunded(c)
    BY <2>1 DEF MarkRefunded, LiveTicket
  <2> QED
    BY <1>2, <2>1 DEF Process, Load, OpenModal, Approve, Reject, Review,
                      CouponGone, rows
<1>3. ASSUME NEW k \in Orders, RedeemForPaidOrder(k) PROVE ticket' = ticket
  BY <1>3 DEF RedeemForPaidOrder
<1>4. ASSUME NEW x \in Scanners, ValidateScan(x) PROVE ticket'[o] = ticket[o]
  <2>1. CASE UseTicket(x)
    BY <2>1 DEF UseTicket
  <2> QED
    BY <1>4, <2>1 DEF ValidateScan, SelectTermin, ChangeTermin, EnterManually,
                      ReadTicket, NoLongerValid, rows
<1>5. ASSUME NEW p \in Cancellers, Cancel(p) PROVE ticket'[o] = ticket[o]
  <2>1. CASE CommitCancellation(p)
    BY <2>1 DEF CommitCancellation, TicketInv, LiveTicket
  <2> QED
    BY <1>5, <2>1 DEF Cancel, CheckNotCancelled, RevokeTickets, DoomPaid,
                      DoomFree, DoomRequested, Doom, rows
<1>6. ASSUME NEW p \in Procs, Fail(p) \/ Dismiss(p) PROVE ticket' = ticket
  BY <1>6 DEF Fail, Dismiss, rows
<1>7. CASE UNCHANGED vars
  BY <1>7 DEF vars, rows
<1> QED
  BY <1>1, <1>2, <1>3, <1>4, <1>5, <1>6, <1>7 DEF Next

\* No scan, refund or cancellation brings a revoked ticket back to life or
\* changes the reason it was revoked for.
THEOREM RevokedTicketsStay == Spec => RevokedForGood
<1>1. IInv /\ [Next]_vars =>
        [\A o \in Orders : ticket[o] \in {"CANCELLED", "REFUNDED"} =>
           ticket'[o] = ticket[o]]_vars
  BY StepKeepsRevoked
<1> QED
  BY <1>1, SpecInv, PTL DEF Spec, RevokedForGood

=============================================================================
