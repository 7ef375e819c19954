------------------------------ MODULE Delivery ------------------------------
(***************************************************************************)
(* From a sale to the tickets in the buyer's hands, for one order of any   *)
(* channel: the webhook under a switch of the payment gateway, the counter *)
(* with its fiscal receipt, the mail with the tickets in its three callers *)
(* (the sale itself, the retry cron, the desk) and the pages that tell     *)
(* buyer, cashier and administrator how far it is.  The order's own        *)
(* transaction is SeatCheckout's; here it is one step.                     *)
(***************************************************************************)
EXTENDS Integers, FiniteSets

CONSTANTS
  Channels,     \* channels of the order: a subset of AllChannels
  Secrets,      \* gateways whose webhook secret is set
  Addresses,    \* addresses a buyer may give
  MaxAttempts,  \* MAX_ATTEMPTS
  MaxPolls,     \* POLL_MAX_ATTEMPTS
  MaxSwitches,  \* bound: switches of the gateway or the cash register
  MaxResends,   \* bound: mails the desk asks for
  MaxCrashes,   \* bound: restarts of the backend
  Null

AllChannels == {"online", "comp", "counter"}
Gateways == {"STRIPE_LIVE", "STRIPE_SANDBOX"}

ASSUME DeliveryAssumption ==
  /\ Channels \subseteq AllChannels /\ Secrets \subseteq Gateways
  /\ Null \notin Addresses
  /\ {MaxAttempts, MaxPolls, MaxSwitches, MaxResends, MaxCrashes} \subseteq Nat

VARIABLES
  active,    \* PaymentGatewayConfig.activeGateway
  device,    \* the organizer has an active EkasaDevice
  session,   \* the gateway's session: [gateway, event], or None
  order,     \* the Order row
  jobs,      \* deliveries under way, one per caller
  mailed,    \* addresses the tickets were mailed to
  receipted, \* the fiscal register holds a receipt of the order
  view,      \* the success page, or the counter's page
  badge,     \* the administrator's: away, at the list, or the badge shown
  message,   \* what the desk's page says of its last mail
  budget     \* what is left of the bounds

world == <<active, device>>
aside == <<badge, budget>>
deliveryVars == <<active, device, session, order, jobs, mailed, receipted,
                  view, badge, message, budget>>

Callers == {"sale", "retry", "desk"}
Idle == [step |-> "idle", to |-> Null]
Job(step) == [step |-> step, to |-> Null]

DeliveryInit ==
  /\ session = Null
  /\ \E c \in Channels :
       order = [channel |-> c, status |-> "NEW", address |-> Null,
                attempts |-> 0, emailed |-> FALSE, receipt |-> "NONE"]
  /\ active \in IF order.channel = "online" THEN Gateways ELSE {"STRIPE_LIVE"}
  /\ device \in IF order.channel = "counter" THEN BOOLEAN ELSE {FALSE}
  /\ jobs = [c \in Callers |-> Idle]
  /\ mailed = {}
  /\ receipted = FALSE
  /\ view = [at |-> "start", polls |-> 0]
  /\ badge = "away"
  /\ message = Null
  /\ budget = [switches |-> MaxSwitches, resends |-> MaxResends,
               crashes |-> MaxCrashes]

(***************************************************************************)
(* The platform's and the organizer's settings.                            *)
(***************************************************************************)
Switch(gateway) ==
  /\ active' = gateway
  /\ budget' = [budget EXCEPT !.switches = @ - 1]

\* Only configured gateways can be activated, ComGate never is.  (Settings
\* change only while the order may still read them: a bound.)
SetActiveGateway ==
  /\ order.channel = "online" /\ order.status \in {"NEW", "PENDING"}
  /\ budget.switches > 0
  /\ \E g \in Gateways \ {active} : Switch(g)
  /\ UNCHANGED <<device, session, order, jobs, mailed, receipted, view, badge,
                 message>>

\* The register is created, switched or deleted.
UpdateDevice ==
  /\ order.channel = "counter" /\ order.status = "NEW"
  /\ device' = ~device
  /\ UNCHANGED <<active, session, order, jobs, mailed, receipted, view, message,
                 aside>>

(***************************************************************************)
(* Online: session, payment, webhook.                                      *)
(***************************************************************************)
Opened == session # Null

\* The session belongs to the gateway of the moment.
StartSession ==
  /\ order.channel = "online" /\ order.status = "NEW"
  /\ \E a \in Addresses :
       order' = [order EXCEPT !.status = "PENDING", !.address = a]
  /\ session' = [gateway |-> active, event |-> "none"]
  /\ view' = [view EXCEPT !.at = "wait"]
  /\ UNCHANGED <<world, jobs, mailed, receipted, message, aside>>

CompleteSession ==
  /\ Opened /\ session.event = "none"
  /\ session' = [session EXCEPT !.event = "due"]
  /\ UNCHANGED <<world, order, jobs, mailed, receipted, view, message, aside>>

\* The sale starts a delivery and does not wait for it.
Sold(o, deliver) ==
  /\ order' = o
  /\ jobs' = IF deliver THEN [jobs EXCEPT !["sale"] = Job("count")] ELSE jobs

Acknowledge == session' = [session EXCEPT !.event = "acknowledged"]

Received == Opened /\ session.event = "due"

\* No secret for the gateway of the moment: answered, not processed.
WebhookWithoutSecret ==
  /\ Received
  /\ active \notin Secrets
  /\ Acknowledge
  /\ UNCHANGED <<world, order, jobs, mailed, receipted, view, message, aside>>

\* The signature is verified with the secret of the gateway of the moment
\* (else 400, and Stripe tries again).
Verified == Received /\ active \in Secrets /\ active = session.gateway

\* fulfillOrder, once; an order that is not PENDING is a business error.
Fulfill ==
  IF order.status = "PENDING"
  THEN Sold([order EXCEPT !.status = "PAID"], TRUE)
  ELSE UNCHANGED <<order, jobs>>

\* (mutant: the event is marked before the order is fulfilled, which may fail)
MarkFirst ==
  /\ Verified
  /\ Acknowledge
  /\ Fulfill \/ UNCHANGED <<order, jobs>>
  /\ UNCHANGED <<world, mailed, receipted, view, message, aside>>

Webhook ==
  /\ Verified
  /\ Acknowledge
  /\ Fulfill
  /\ UNCHANGED <<world, mailed, receipted, view, message, aside>>

ExpireUnpaid ==
  /\ order.status = "PENDING"
  /\ order' = [order EXCEPT !.status = "CANCELLED"]
  /\ UNCHANGED <<world, session, jobs, mailed, receipted, view, message, aside>>

(***************************************************************************)
(* Complimentary tickets and the counter are PAID from the start.          *)
(***************************************************************************)
AtCounter(step) == order.channel = "counter" /\ view.at = step

\* The last step: the tickets, their receipt, an address, the next sale.
Finished == AtCounter("done")

CompOrder ==
  /\ order.channel = "comp" /\ order.status = "NEW"
  /\ \E a \in Addresses :
       Sold([order EXCEPT !.status = "PAID", !.address = a], TRUE)
  /\ UNCHANGED <<world, session, mailed, receipted, view, message, aside>>

\* One sale is followed; the page goes on to the next.
NewSale ==
  /\ Finished
  /\ view' = [view EXCEPT !.at = "next"]
  /\ message' = Null
  /\ UNCHANGED <<world, session, order, jobs, mailed, receipted, aside>>

\* None is the counter's own address, to which nothing is mailed.
HasEmail(a) == a # Null

\* A sale with or without an address.
PosOrder ==
  /\ AtCounter("start") /\ order.status = "NEW"
  /\ \E a \in Addresses \cup {Null} :
       Sold([order EXCEPT !.status = "PAID", !.address = a], HasEmail(a))
  /\ view' = [view EXCEPT !.at = IF device THEN "receipt" ELSE "answer"]
  /\ UNCHANGED <<world, session, mailed, receipted, message, aside>>

Receipt(status) == order' = [order EXCEPT !.receipt = status]

RegisterSale ==
  /\ AtCounter("receipt") /\ order.receipt = "NONE"
  /\ Receipt("PENDING")
  /\ UNCHANGED <<world, session, jobs, mailed, receipted, view, message, aside>>

\* (mutant: no answer is taken for success)
LooselyParsed(isSuccessful) ==
  IF isSuccessful = "false" THEN "FAILED" ELSE "REGISTERED"

\* The register answers: registered, will be (offline), or not.
Parsed(isSuccessful) ==
  CASE isSuccessful = "true" -> "REGISTERED"
    [] isSuccessful = "null" -> "OFFLINE"
    [] OTHER -> "FAILED"

\* A timeout leaves open whether the register has it.
RegisterAnswers ==
  /\ AtCounter("receipt") /\ order.receipt = "PENDING"
  /\ \E isSuccessful \in {"true", "null", "false", "timeout"} :
       /\ Receipt(Parsed(isSuccessful))
       /\ receipted' \in IF isSuccessful = "timeout" THEN BOOLEAN
                         ELSE {isSuccessful = "true"}
  /\ view' = [view EXCEPT !.at = "answer"]
  /\ UNCHANGED <<world, session, jobs, mailed, message, aside>>

\* The cashier's page: the tickets, and "sent" if an address was given.
SaleAnswered ==
  /\ AtCounter("answer")
  /\ view' = [view EXCEPT !.at = "done"]
  /\ message' = IF HasEmail(order.address) THEN "sent" ELSE Null
  /\ UNCHANGED <<world, session, order, jobs, mailed, receipted, aside>>

(***************************************************************************)
(* deliverTickets: the attempt is counted, the mail is built and sent, the *)
(* result is written.                                                      *)
(***************************************************************************)
JobAt(c, step) == jobs[c].step = step
Proceed(c, step) == jobs' = [jobs EXCEPT ![c].step = step]
End(c) == jobs' = [jobs EXCEPT ![c] = Idle]

\* The page of the desk learns how its call ended, other callers log.
Tell(c, text) == message' = IF c = "desk" THEN text ELSE message

CountAttempt(c) ==
  /\ JobAt(c, "count")
  /\ order' = [order EXCEPT !.attempts = @ + 1]
  /\ Proceed(c, "build")
  /\ UNCHANGED <<world, session, mailed, receipted, view, message, aside>>

\* The database does not answer: the caller gets the error, nothing is kept.
CountFails(c) ==
  /\ JobAt(c, "count")
  /\ End(c)
  /\ Tell(c, "failed")
  /\ UNCHANGED <<world, session, order, mailed, receipted, view, aside>>

BuildMail(c) ==
  /\ JobAt(c, "build")
  /\ jobs' = [jobs EXCEPT ![c] = [step |-> "send", to |-> order.address]]
  /\ UNCHANGED <<world, session, order, mailed, receipted, view, message, aside>>

SendTickets(c) ==
  /\ JobAt(c, "send")
  /\ mailed' = mailed \cup {jobs[c].to}
  /\ Proceed(c, "stamp")
  /\ UNCHANGED <<world, session, order, receipted, view, message, aside>>

\* Nothing left, or the answer of the mail server was lost.
SendFails(c) ==
  /\ JobAt(c, "send")
  /\ mailed' \in {mailed, mailed \cup {jobs[c].to}}
  /\ Proceed(c, "fail")
  /\ UNCHANGED <<world, session, order, receipted, view, message, aside>>

\* The panel of the administrator loads the order again before it speaks.
StampDelivered(c) ==
  /\ JobAt(c, "stamp")
  /\ order' = [order EXCEPT !.emailed = TRUE]
  /\ IF c = "desk" /\ order.channel # "counter"
     THEN Proceed(c, "show") /\ UNCHANGED message
     ELSE End(c) /\ Tell(c, "sent")
  /\ UNCHANGED <<world, session, mailed, receipted, view, aside>>

StampFails(c) ==
  /\ JobAt(c, "stamp")
  /\ Proceed(c, "fail")
  /\ UNCHANGED <<world, session, order, mailed, receipted, view, message, aside>>

RecordFailure(c, text) ==
  /\ JobAt(c, "fail")
  /\ End(c)
  /\ Tell(c, text)
  /\ UNCHANGED <<world, session, order, mailed, receipted, view, aside>>

\* (mutant: throwOnError is ignored)
SwallowFailure(c) == RecordFailure(c, "sent")

\* A Telegram alert and, for the desk, the exception (the text of the error is
\* for display only and left out).
DeliveryFails(c) == RecordFailure(c, "failed")

\* (mutant: an order whose first attempt failed is not taken)
RetryableAfterTwo ==
  /\ order.status = "PAID" /\ ~order.emailed
  /\ order.attempts > 1 /\ order.attempts < MaxAttempts

\* The cron takes paid orders that were tried, not mailed and not given up.
Retryable ==
  /\ order.status = "PAID" /\ ~order.emailed
  /\ order.attempts >= 1 /\ order.attempts < MaxAttempts

RetryTicketDelivery ==
  /\ JobAt("retry", "idle")
  /\ Retryable
  /\ jobs' = [jobs EXCEPT !["retry"] = Job("count")]
  /\ UNCHANGED <<world, session, order, mailed, receipted, view, message, aside>>

AskMail ==
  /\ JobAt("desk", "idle") /\ budget.resends > 0
  /\ jobs' = [jobs EXCEPT !["desk"] = Job("count")]
  /\ message' = Null
  /\ budget' = [budget EXCEPT !.resends = @ - 1]

\* The cashier gives an address for a sale, which becomes the order's.  (The
\* page asks for one after a sale without; the endpoint takes any.)
PosEmailTickets ==
  /\ Finished
  /\ \E a \in Addresses : order' = [order EXCEPT !.address = a]
  /\ AskMail
  /\ UNCHANGED <<world, session, mailed, receipted, view, badge>>

(***************************************************************************)
(* The buyer's page asks again and again, at most MaxPolls times.          *)
(***************************************************************************)
BuyerWaits == order.channel = "online" /\ view.at = "wait"

Poll ==
  /\ BuyerWaits
  /\ view' = IF order.status = "PAID"
             THEN [view EXCEPT !.at = "tickets"]
             ELSE [at |-> IF view.polls + 1 >= MaxPolls
                          THEN "unconfirmed" ELSE "wait",
                   polls |-> view.polls + 1]
  /\ UNCHANGED <<world, session, order, jobs, mailed, receipted, message, aside>>

\* One failed request ends the asking, but not the waiting.
PollFails ==
  /\ BuyerWaits
  /\ view' = [view EXCEPT !.at = "stalled"]
  /\ UNCHANGED <<world, session, order, jobs, mailed, receipted, message, aside>>

\* Refunds.MarkRefunded, as far as the order goes.
RefundOrder ==
  /\ order.status = "PAID"
  /\ order' = [order EXCEPT !.status = "REFUNDED"]
  /\ UNCHANGED <<world, session, jobs, mailed, receipted, view, message, aside>>

\* The backend dies: deliveries end where they are, a sale is not answered.
Restart ==
  /\ budget.crashes > 0
  /\ jobs' = [c \in Callers |-> Idle]
  /\ view' = IF view.at \in {"receipt", "answer"}
             THEN [view EXCEPT !.at = "lost"] ELSE view
  /\ message' = IF JobAt("desk", "idle") THEN message ELSE "failed"
  /\ budget' = [budget EXCEPT !.crashes = @ - 1]
  /\ UNCHANGED <<world, session, order, mailed, receipted, badge>>

(***************************************************************************)
(* The administrator: the list of orders, one order's panel, "send again".  *)
(***************************************************************************)
\* The badge of the order lists and of the panel.
TicketsDelivery ==
  CASE order.status # "PAID" -> "na"
    [] order.status = "PAID" /\ order.emailed -> "delivered"
    [] order.status = "PAID" /\ ~order.emailed /\ order.attempts = 0 -> "unknown"
    [] OTHER -> IF order.attempts >= MaxAttempts THEN "failed" ELSE "retrying"

\* The filter "undelivered tickets" of the list.
Undelivered ==
  order.status = "PAID" /\ ~order.emailed /\ order.attempts >= 1

Looks == order.channel # "counter" /\ JobAt("desk", "idle")

\* The rows are those of the last load (answers of older queries are dropped);
\* an order once loaded stays on the page.
LoadList ==
  /\ Looks /\ badge # "list"
  /\ \E undelivered \in BOOLEAN :
       badge' = IF order.status # "NEW" /\ (undelivered => Undelivered)
                THEN "list" ELSE "away"
  /\ message' = Null
  /\ UNCHANGED <<world, session, order, jobs, mailed, receipted, view, budget>>

\* a row, whose number links to the panel
InList == Looks /\ badge = "list"

OpenPanel ==
  /\ InList
  /\ badge' = TicketsDelivery
  /\ UNCHANGED <<world, session, order, jobs, mailed, receipted, view, message,
                 budget>>

\* The button stands beside the badge, as it was loaded.
Pressed == Looks /\ badge \notin {"away", "list", "na"}

\* PAID orders only.
ResendTickets ==
  /\ Pressed
  /\ order.status = "PAID"
  /\ AskMail
  /\ UNCHANGED <<world, session, order, mailed, receipted, view, badge>>

ResendRefused ==
  /\ Pressed
  /\ order.status # "PAID"
  /\ message' = "failed"
  /\ UNCHANGED <<world, session, order, jobs, mailed, receipted, view, aside>>

ShowFresh ==
  /\ JobAt("desk", "show")
  /\ badge' = TicketsDelivery
  /\ End("desk")
  /\ Tell("desk", "sent")
  /\ UNCHANGED <<world, session, order, mailed, receipted, view, budget>>

\* The mail is out, but the page says that it failed.
ShowFails ==
  /\ JobAt("desk", "show")
  /\ End("desk")
  /\ Tell("desk", "failed")
  /\ UNCHANGED <<world, session, order, mailed, receipted, view, aside>>

Deliver(c) ==
  \/ CountAttempt(c) \/ CountFails(c) \/ BuildMail(c)
  \/ SendTickets(c) \/ SendFails(c)
  \/ StampDelivered(c) \/ StampFails(c) \/ DeliveryFails(c)

DeliveryNext ==
  \/ SetActiveGateway \/ UpdateDevice
  \/ StartSession \/ CompleteSession \/ WebhookWithoutSecret \/ Webhook
  \/ ExpireUnpaid \/ CompOrder
  \/ PosOrder \/ RegisterSale \/ RegisterAnswers \/ SaleAnswered \/ NewSale
  \/ \E c \in Callers : Deliver(c)
  \/ RetryTicketDelivery \/ PosEmailTickets
  \/ LoadList \/ OpenPanel \/ ResendTickets \/ ResendRefused
  \/ ShowFresh \/ ShowFails
  \/ Poll \/ PollFails \/ RefundOrder \/ Restart

DeliverySpec == DeliveryInit /\ [][DeliveryNext]_deliveryVars

\* A delivery that was started goes on, the cron runs every five minutes, and
\* the database does not refuse its update forever; the mail server may.
DeliveryFairSpec ==
  /\ DeliverySpec
  /\ \A c \in Callers : WF_deliveryVars(Deliver(c))
  /\ WF_deliveryVars(RetryTicketDelivery)
  /\ SF_deliveryVars(CountAttempt("retry"))

-----------------------------------------------------------------------------
(***************************************************************************)
(* Properties.                                                             *)
(***************************************************************************)
\* A stamped order was mailed to somebody, a receipt recorded as registered
\* is in the register, deliveries belong to sold orders, and the filter of the
\* order list finds the orders whose badge is a warning.
DeliveryTypeOK ==
  /\ order.status \in {"NEW", "PENDING", "PAID", "CANCELLED", "REFUNDED"}
  /\ order.attempts \in 0..(MaxAttempts + MaxResends + 1)
  /\ order.emailed => mailed # {}
  /\ order.receipt = "REGISTERED" => receipted
  /\ Undelivered <=> TicketsDelivery \in {"retrying", "failed"}
  /\ \A c \in Callers : jobs[c] # Idle => order.status \in {"PAID", "REFUNDED"}

\* While the gateway's secret is set, an event is answered only when its
\* order is paid for good or no longer waits for payment: a switch of the
\* gateway never makes a payment disappear.
AcknowledgedIsSettled ==
  [][/\ Received /\ active \in Secrets
     /\ session'.event = "acknowledged"
     => order'.status # "PENDING"]_deliveryVars

\* The desk reads "sent" only if its own call mailed the tickets to the
\* address the order had during the call, whatever other deliveries did, and
\* the administrator then sees no warning beside it.
SentByTheDesk ==
  [][jobs["desk"] # Idle /\ jobs'["desk"] = Idle /\ message' = "sent"
     => /\ jobs["desk"].to \in mailed
        /\ badge' \notin {"retrying", "failed"}]_deliveryVars

\* "retrying" is no resting state: the cron delivers or gives up, in spite of
\* failures of mail server and database and of restarts.
RetryingEnds == TicketsDelivery = "retrying" ~> TicketsDelivery # "retrying"

\* "Tickets sent to {email}.": what the counter's page says comes true.
CounterSaysSent ==
  message = "sent" /\ view.at = "done"
    ~> order.address \in mailed \/ order.status # "PAID"

=============================================================================
