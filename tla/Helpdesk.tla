------------------------------ MODULE Helpdesk -------------------------------
(***************************************************************************)
(* Tickets after the hand-over: the customer answers by mail, the poller   *)
(* (HelpdeskMailService) reads the mailbox read-only by a cursor of UIDs   *)
(* and pairs mails with tickets, the operators answer and change the       *)
(* status from pages that may be stale (HelpdeskService).                  *)
(***************************************************************************)
EXTENDS Naturals, Sequences

CONSTANTS
  Tickets,    \* HelpdeskTicket ids: a bound on those ever made
  Operators,  \* sessions on the helpdesk pages
  MaxMail,    \* bound: mails in the mailbox
  MaxFaults,  \* bound: failures of database or server, restarts
  None        \* null

ASSUME HelpdeskAssumption ==
  /\ {MaxMail, MaxFaults} \subseteq Nat
  /\ None \notin [uid: Nat, epoch: Nat]

VARIABLES
  ticket,   \* HelpdeskTicket rows; mailed: the customer got a mail
            \* (history), known: its Message-ID is stored
  box,      \* the mailbox: mails [ticket, kind] by UID
  epoch,    \* UIDVALIDITY of the server
  cursor,   \* HelpdeskMailState: [uid, epoch], or None
  poll,     \* the round in progress: [uid, last, at], or None
  thread,   \* UIDs of the customer's mails in the ticket, in order
  skipped,  \* UIDs passed over: history of a baseline, failures (history)
  listed,   \* the operators' list: the status in a ticket's row, or "none"
  shown,    \* the operators' pages: [ticket, status], or None
  reply,    \* the reply being sent: [ticket, at], or None
  faults    \* failures so far

mailVars == <<box, epoch, cursor, poll, thread, skipped>>
pageVars == <<listed, shown, reply>>
vars == <<ticket, mailVars, pageVars, faults>>

Exists(t) == ticket[t].status # "none"

Init ==
  /\ ticket = [t \in Tickets |-> [status |-> "none", mailed |-> FALSE,
                                  known |-> FALSE, closedAt |-> FALSE]]
  /\ box = <<>> /\ epoch = 0 /\ cursor = None /\ poll = None
  /\ thread = [t \in Tickets |-> <<>>]
  /\ skipped = {}
  /\ listed = [t \in Tickets |-> "none"]
  /\ shown = [a \in Operators |-> None]
  /\ reply = [a \in Operators |-> None]
  /\ faults = 0

\* What the hand-over of a chat leaves (Assistant): a ticket whose customer
\* got a confirmation or not, and whose Message-ID was stored or not.
HandOver(t) ==
  /\ ~Exists(t)
  /\ \E mailed \in BOOLEAN : \E known \in IF mailed THEN BOOLEAN ELSE {FALSE} :
       ticket' = [ticket EXCEPT ![t] = [@ EXCEPT !.status = "OPEN",
                                         !.mailed = mailed, !.known = known]]
  /\ UNCHANGED <<mailVars, pageVars, faults>>

(***************************************************************************)
(* Mail that comes in: with the number in the subject, without it (paired  *)
(* by In-Reply-To), a mail no parser or database takes, or anything else   *)
(* (an auto-reply, a newsletter, one too large).                           *)
(***************************************************************************)
Kinds == {"tagged", "threaded", "broken", "other"}

CustomerMails(t, kind) ==
  /\ ticket[t].mailed /\ Len(box) < MaxMail
  /\ box' = Append(box, [ticket |-> t, kind |-> kind])
  /\ UNCHANGED <<ticket, faults, epoch, cursor, poll, thread, skipped, pageVars>>

MailboxRenumbered ==
  /\ poll = None /\ faults < MaxFaults
  /\ faults' = faults + 1
  /\ epoch' = epoch + 1
  /\ UNCHANGED <<ticket, box, cursor, poll,
                 thread, skipped, pageVars>>

(***************************************************************************)
(* The poller.                                                             *)
(***************************************************************************)
InThread(u) == \E t \in Tickets : \E n \in 1..Len(thread[t]) : thread[t][n] = u

Passed(lo, hi) == skipped' = skipped \cup {u \in lo..hi : ~InThread(u)}

SaveCursor(uid) == cursor' = [uid |-> uid, epoch |-> epoch]

\* The first round, and the first after a renumbering, only set the cursor.
Baseline ==
  /\ poll = None
  /\ cursor # None => cursor.epoch # epoch
  /\ SaveCursor(Len(box))
  /\ Passed(1, Len(box))
  /\ UNCHANGED <<ticket, faults, box, epoch, poll, thread, pageVars>>

Poll ==
  /\ poll = None
  /\ cursor # None /\ cursor.epoch = epoch /\ cursor.uid < Len(box)
  /\ poll' = [uid |-> cursor.uid + 1, last |-> Len(box), at |-> "handle"]
  /\ UNCHANGED <<ticket, faults, box, epoch, cursor, thread, skipped, pageVars>>

Handling == poll # None /\ poll.at = "handle"

MatchTicket(m) ==
  \/ m.kind = "tagged"
  \/ m.kind = "threaded" /\ ticket[m.ticket].known

\* (mutant: the Message-ID is not looked up)
HandleAgain ==
  LET m == box[poll.uid] IN
  /\ Handling
  /\ m.kind # "broken"
  /\ IF MatchTicket(m)
     THEN /\ thread' = [thread EXCEPT ![m.ticket] = Append(@, poll.uid)]
          /\ ticket' = [ticket EXCEPT ![m.ticket].status = "OPEN"]
     ELSE UNCHANGED <<thread, ticket>>
  /\ poll' = [poll EXCEPT !.at = "save"]
  /\ UNCHANGED <<faults, box, epoch, cursor, skipped, pageVars>>

\* The customer's message and the reopened ticket in one transaction; a
\* Message-ID that is stored already is skipped.
HandleMessage ==
  LET m == box[poll.uid] IN
  /\ Handling
  /\ m.kind # "broken"
  /\ IF MatchTicket(m) /\ ~InThread(poll.uid)
     THEN /\ thread' = [thread EXCEPT ![m.ticket] = Append(@, poll.uid)]
          /\ ticket' = [ticket EXCEPT ![m.ticket].status = "OPEN"]
     ELSE UNCHANGED <<thread, ticket>>
  /\ poll' = [poll EXCEPT !.at = "save"]
  /\ UNCHANGED <<faults, box, epoch,
                 cursor, skipped, pageVars>>

\* (mutant: a mail that fails ends the round)
FailEndsRound ==
  /\ Handling
  /\ box[poll.uid].kind # "broken" => faults < MaxFaults
  /\ faults' = IF box[poll.uid].kind = "broken" THEN faults ELSE faults + 1
  /\ Passed(poll.uid, poll.uid)
  /\ poll' = None
  /\ UNCHANGED <<ticket, box, epoch, cursor, thread, pageVars>>

\* One mail that fails does not hold the cursor up.
HandleFails ==
  /\ Handling
  /\ box[poll.uid].kind # "broken" => faults < MaxFaults
  /\ faults' = IF box[poll.uid].kind = "broken" THEN faults ELSE faults + 1
  /\ Passed(poll.uid, poll.uid)
  /\ poll' = [poll EXCEPT !.at = "save"]
  /\ UNCHANGED <<ticket, box, epoch,
                 cursor, thread, pageVars>>

Advance ==
  /\ poll # None /\ poll.at = "save"
  /\ SaveCursor(poll.uid)
  /\ poll' = IF poll.uid = poll.last THEN None
             ELSE [poll EXCEPT !.uid = @ + 1, !.at = "handle"]
  /\ UNCHANGED <<ticket, faults, box, epoch, thread, skipped, pageVars>>

\* The connection or the cursor's row fails: the round ends.
PollFails ==
  /\ poll # None /\ faults < MaxFaults
  /\ faults' = faults + 1
  /\ poll' = None
  /\ UNCHANGED <<ticket, box, epoch,
                 cursor, thread, skipped, pageVars>>

PollStep ==
  \/ Baseline \/ Poll \/ HandleMessage \/ Advance
  \/ Handling /\ box[poll.uid].kind = "broken" /\ HandleFails

(***************************************************************************)
(* The operators' pages: what they show of a ticket may be stale, and the  *)
(* calls do not look at its status.                                        *)
(***************************************************************************)
OpenTicket(a, t) ==
  /\ Exists(t) /\ reply[a] = None
  /\ shown' = [shown EXCEPT ![a] = [ticket |-> t, status |-> ticket[t].status]]
  /\ UNCHANGED <<ticket, faults, mailVars, listed, reply>>

Shows(a, statuses) == shown[a] # None /\ shown[a].status \in statuses

\* (mutant: closedAt is left alone)
StatusOnly(t, status) == ticket' = [ticket EXCEPT ![t].status = status]

SetStatus(t, status) ==
  ticket' = [ticket EXCEPT ![t].status = status,
                           ![t].closedAt = status = "CLOSED"]

\* The list holds a page of the tickets of the status asked for.
Pages == {page \in SUBSET Tickets : \A t \in page : Exists(t)}

Loaded(rows, page) ==
  [t \in Tickets |-> IF t \in page THEN rows[t].status ELSE "none"]

\* Loaded on opening, after a choice and at an interval; empty on a failure.
LoadList ==
  /\ \E page \in Pages : listed' = Loaded(ticket, page)
  /\ UNCHANGED <<ticket, faults, mailVars, shown, reply>>

\* A ticket is closed from its row in the list, which may be stale, at once.
CloseTicket(t) ==
  /\ listed[t] \in {"OPEN", "PENDING"} /\ SetStatus(t, "CLOSED")
  /\ \E page \in Pages : listed' = Loaded(ticket', page)
  /\ UNCHANGED <<faults, mailVars, shown, reply>>

\* The answer has no messages: the page cannot draw it, and is opened again.
Patch(a) ==
  /\ reply[a] = None
  /\ \/ Shows(a, {"OPEN", "PENDING"}) /\ SetStatus(shown[a].ticket, "CLOSED")
     \/ /\ Shows(a, {"OPEN", "PENDING", "CLOSED"})
        /\ \E status \in {"OPEN", "PENDING"} : SetStatus(shown[a].ticket, status)
  /\ shown' = [shown EXCEPT ![a] = None]
  /\ UNCHANGED <<faults, mailVars, listed, reply>>

\* The reply is stored whatever the mail does.
SendReply(a) ==
  /\ Shows(a, {"OPEN", "PENDING"}) /\ reply[a] = None
  /\ reply' = [reply EXCEPT ![a] = [ticket |-> shown[a].ticket, at |-> "mail"]]
  /\ UNCHANGED <<ticket, faults, mailVars, listed, shown>>

Replying(a, s) == reply[a] # None /\ reply[a].at = s

MailReply(a) ==
  /\ Replying(a, "mail")
  /\ \/ /\ ticket' = [ticket EXCEPT ![reply[a].ticket].mailed = TRUE]
        /\ reply' = [reply EXCEPT ![a].at = "messageId"]
     \/ /\ reply' = [reply EXCEPT ![a].at = "status"]
        /\ UNCHANGED ticket
  /\ UNCHANGED <<faults, mailVars, listed, shown>>

StoreReplyId(a) ==
  /\ Replying(a, "messageId")
  /\ ticket' = [ticket EXCEPT ![reply[a].ticket].known = TRUE]
  /\ reply' = [reply EXCEPT ![a].at = "status"]
  /\ UNCHANGED <<faults, mailVars, listed, shown>>

\* The page loads the ticket again.
SetPending(a) ==
  /\ Replying(a, "status")
  /\ SetStatus(reply[a].ticket, "PENDING")
  /\ reply' = [reply EXCEPT ![a] = None]
  /\ shown' = [shown EXCEPT ![a].status = "PENDING"]
  /\ UNCHANGED <<faults, mailVars, listed>>

\* The page keeps the text for another try.
ReplyFails(a) ==
  /\ reply[a] # None /\ faults < MaxFaults
  /\ faults' = faults + 1
  /\ reply' = [reply EXCEPT ![a] = None]
  /\ UNCHANGED <<ticket, mailVars, listed, shown>>

OperatorStep(a) ==
  \/ Patch(a) \/ SendReply(a)
  \/ MailReply(a) \/ StoreReplyId(a) \/ SetPending(a) \/ ReplyFails(a)
  \/ \E t \in Tickets : OpenTicket(a, t)

Restart ==
  /\ faults < MaxFaults
  /\ faults' = faults + 1
  /\ poll' = None
  /\ reply' = [a \in Operators |-> None]
  /\ UNCHANGED <<ticket, box, epoch, cursor, thread, skipped, listed, shown>>

Next ==
  \/ \E t \in Tickets :
       HandOver(t) \/ CloseTicket(t) \/ \E m \in Kinds : CustomerMails(t, m)
  \/ MailboxRenumbered \/ LoadList
  \/ PollStep \/ HandleFails \/ PollFails
  \/ \E a \in Operators : OperatorStep(a)
  \/ Restart

\* The interval of the poller goes on for ever.
Spec == Init /\ [][Next]_vars /\ WF_vars(PollStep)

(***************************************************************************)
(* Properties.                                                             *)
(***************************************************************************)
\* The shape of the rows: a thread and a Message-ID belong to a customer who
\* was written to, an operator answers the ticket of the page.
HelpdeskTypeOK ==
  /\ \A t \in Tickets :
       /\ ticket[t].status \in {"none", "OPEN", "PENDING", "CLOSED"}
       /\ thread[t] # <<>> \/ ticket[t].known => ticket[t].mailed
       /\ ticket[t].status = "CLOSED" => ticket[t].closedAt
       /\ listed[t] # "none" => Exists(t)
  /\ \A a \in Operators :
       /\ shown[a] # None => Exists(shown[a].ticket)
       /\ reply[a] # None => shown[a] # None /\ shown[a].ticket = reply[a].ticket
  /\ cursor # None => cursor.uid <= Len(box) /\ cursor.epoch <= epoch
  /\ poll # None => poll.uid \in 1..poll.last /\ poll.last <= Len(box)

\* However rounds, restarts and renumberings fall, a mail that names its
\* ticket is in the ticket's thread once the cursor is past it, in the order
\* of the mailbox and never twice; only a baseline or a failure skips one.
ThreadHoldsMail ==
  /\ \A t \in Tickets : \A n \in 2..Len(thread[t]) :
       thread[t][n-1] < thread[t][n]
  /\ cursor # None => \A u \in 1..cursor.uid :
       box[u].kind = "tagged" => InThread(u) \/ u \in skipped

\* "Jeden pokazený mail nesmie zablokovať kurzor navždy": whatever is in the
\* mailbox, the cursor gets past it.
CursorMovesOn ==
  \A u \in 1..MaxMail :
    Len(box) >= u ~> (cursor # None /\ cursor.uid >= u)

\* closedAt is the time the ticket was closed and is cleared on reopening.
ClosedAtIsOfTheClosed ==
  \A t \in Tickets : ticket[t].closedAt => ticket[t].status = "CLOSED"
=============================================================================
