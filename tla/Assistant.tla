------------------------------ MODULE Assistant ------------------------------
(***************************************************************************)
(* The chat of one customer or visitor (session key), whose requests may   *)
(* overlap: the agent loop (AssistantService.runLoop) with its best-effort *)
(* record of the exchange, the hand-over of the conversation to support    *)
(* (HelpdeskEscalationService.escalate), and the cron that closes idle     *)
(* conversations and sends their summary (ConversationCloserService).      *)
(***************************************************************************)
EXTENDS Naturals, Sequences, FiniteSets

CONSTANTS
  Chats,            \* requests of the widget: a message or the e-mail form
  MaxConvs,         \* bound: Conversation rows ever made
  MaxTickets,       \* bound: HelpdeskTicket rows ever made
  Closers,          \* runs of the closing cron, which may overlap
  GuestMaxPerHour,  \* GUEST_MAX_PER_HOUR; the behaviours last an hour
  MaxChatFaults,    \* bound: failures of database or model, restarts
  Null              \* null

ASSUME AssistantAssumption ==
  /\ {MaxConvs, MaxTickets, GuestMaxPerHour, MaxChatFaults} \subseteq Nat
  /\ Null \notin Nat

VARIABLES
  channel,    \* GUEST or CUSTOMER
  form,       \* the widget asks the guest for an e-mail
  conv,       \* Conversation rows and the summaries sent of them (history)
  tickets,    \* HelpdeskTicket rows: [conv, history]
  chat,       \* the requests: [at, found, told], the conversation and ticket
  closer,     \* the closing runs: [todo, conv, at], or Null
  chatFaults  \* failures so far

assistantVars == <<channel, form, conv, tickets, chat, closer, chatFaults>>

\* Tickets are numbered by a sequence of the database.
Convs == 1..MaxConvs
TicketNumbers == 1..MaxTickets

Quiet == [at |-> "idle", found |-> Null, told |-> Null]

AssistantInit ==
  /\ channel \in {"GUEST", "CUSTOMER"}
  /\ form = FALSE
  /\ conv = [v \in Convs |-> [status |-> "none", escalated |-> FALSE,
                              filled |-> FALSE, notices |-> 0]]
  /\ tickets = [t \in TicketNumbers |-> [conv |-> Null, history |-> FALSE]]
  /\ chat = [c \in Chats |-> Quiet]
  /\ closer = [k \in Closers |-> Null]
  /\ chatFaults = 0

At(c, s) == chat[c].at = s
Goto(c, s) == chat' = [chat EXCEPT ![c].at = s]
Ends(c) == chat' = [chat EXCEPT ![c] = Quiet]
First(S) == {n \in S : \A k \in S : n <= k}
Raised(t) == tickets[t].conv # Null
TicketsOf(v) == {t \in TicketNumbers : Raised(t) /\ tickets[t].conv = v}
OpenConvs == {v \in Convs : conv[v].status = "OPEN"}

(***************************************************************************)
(* The agent loop.                                                         *)
(***************************************************************************)
Ask(c) ==
  /\ At(c, "idle")
  /\ Goto(c, "model")
  /\ UNCHANGED <<channel, form, conv, tickets, closer, chatFaults>>

\* The model answers, with other tools or none, or fails: the exchange is
\* recorded in either case.
Answer(c) ==
  /\ At(c, "model")
  /\ Goto(c, "seek")
  /\ UNCHANGED <<channel, form, conv, tickets, closer, chatFaults>>

\* The model calls escalateToAdmin: a guest is asked for an e-mail first.
EscalateToAdmin(c) ==
  /\ At(c, "model")
  /\ IF channel = "CUSTOMER" THEN Goto(c, "find") /\ UNCHANGED form
                             ELSE form' = TRUE /\ UNCHANGED chat
  /\ UNCHANGED <<channel, conv, tickets, closer, chatFaults>>

FormShown == channel = "GUEST" /\ form

SubmitEscalationEmail(c) ==
  /\ FormShown /\ At(c, "idle")
  /\ Goto(c, "find")
  /\ UNCHANGED <<channel, form, conv, tickets, closer, chatFaults>>

(***************************************************************************)
(* The hand-over, a statement at a time.                                   *)
(***************************************************************************)
FindOpen(c) ==
  /\ At(c, "find") \/ At(c, "seek")
  /\ \E v \in IF OpenConvs = {} THEN {Null} ELSE OpenConvs :
       chat' = [chat EXCEPT ![c].found = v,
                  ![c].at = IF At(c, "find") THEN "mark" ELSE "record"]
  /\ UNCHANGED <<channel, form, conv, tickets, closer, chatFaults>>

\* A row found is updated by id, else one is created.
RowFor(c) ==
  IF chat[c].found # Null THEN {chat[c].found}
  ELSE First({v \in Convs : conv[v].status = "none"})

WriteConv(v, escalated, filled) ==
  conv' = [conv EXCEPT ![v].status = IF @ = "none" THEN "OPEN" ELSE @,
                       ![v].escalated = @ \/ escalated,
                       ![v].filled = @ \/ filled]

ResolveConversation(c) ==
  /\ At(c, "mark")
  /\ \E v \in RowFor(c) :
       /\ WriteConv(v, TRUE, FALSE)
       /\ chat' = [chat EXCEPT ![c].found = v, ![c].at = "existing"]
  /\ UNCHANGED <<channel, form, tickets, closer, chatFaults>>

\* The answer names the ticket; the exchange of a customer is recorded, the
\* guest's form closes.
Told(c, t) ==
  /\ IF channel = "GUEST" THEN Ends(c)
     ELSE chat' = [chat EXCEPT ![c].told = t, ![c].at = "seek"]
  /\ form' = FALSE

AnswerExisting(c) ==
  \E t \in TicketsOf(chat[c].found) : Told(c, t)

RateLimited ==
  /\ channel = "GUEST"
  /\ Cardinality({t \in TicketNumbers : Raised(t)}) >= GuestMaxPerHour

FindExisting(c) ==
  /\ At(c, "existing")
  /\ IF TicketsOf(chat[c].found) # {} THEN AnswerExisting(c)
     ELSE /\ IF RateLimited THEN Ends(c) ELSE Goto(c, "number")
          /\ UNCHANGED form
  /\ UNCHANGED <<channel, conv, tickets, closer, chatFaults>>

\* A sequence of the database; numbers are never used again.
NextTicketNumber == First({k \in TicketNumbers : ~Raised(k)})

\* conversationId is unique.
CreateTicket(c) ==
  /\ At(c, "number")
  /\ IF TicketsOf(chat[c].found) # {}
     THEN AnswerExisting(c) /\ UNCHANGED tickets
     ELSE /\ \E t \in NextTicketNumber :
               /\ tickets' = [tickets EXCEPT ![t].conv = chat[c].found]
               /\ chat' = [chat EXCEPT ![c].told = t, ![c].at = "history"]
          /\ UNCHANGED form
  /\ UNCHANGED <<channel, conv, closer, chatFaults>>

TransferHistory(c) ==
  /\ At(c, "history")
  /\ tickets' = [tickets EXCEPT ![chat[c].told].history = TRUE]
  /\ Goto(c, "confirm")
  /\ UNCHANGED <<channel, form, conv, closer, chatFaults>>

\* The message is stored and mailed; a mail that fails is only logged, and
\* the Message-ID that pairs the answers is Helpdesk's matter.
SendConfirmation(c) ==
  /\ At(c, "confirm")
  /\ Told(c, chat[c].told)
  /\ UNCHANGED <<channel, conv, tickets, closer, chatFaults>>

PersistExchange(c) ==
  /\ At(c, "record")
  /\ \E v \in RowFor(c) : WriteConv(v, FALSE, TRUE)
  /\ Ends(c)
  /\ UNCHANGED <<channel, form, tickets, closer, chatFaults>>

\* Caught: the loop still records the exchange, the guest may send the form
\* again, a failed record is only logged.
ChatFails(c) ==
  /\ ~At(c, "idle") /\ ~At(c, "model") /\ chatFaults < MaxChatFaults
  /\ chatFaults' = chatFaults + 1
  /\ IF channel = "GUEST" \/ At(c, "seek") \/ At(c, "record")
     THEN Ends(c) ELSE Goto(c, "seek")
  /\ UNCHANGED <<channel, form, conv, tickets, closer>>

BackendRestarts ==
  /\ chatFaults < MaxChatFaults
  /\ chatFaults' = chatFaults + 1
  /\ chat' = [c \in Chats |-> Quiet]
  /\ closer' = [k \in Closers |-> Null]
  /\ UNCHANGED <<channel, form, conv, tickets>>

ChatStep(c) ==
  \/ Ask(c) \/ Answer(c) \/ EscalateToAdmin(c) \/ SubmitEscalationEmail(c)
  \/ FindOpen(c) \/ ResolveConversation(c) \/ FindExisting(c)
  \/ CreateTicket(c) \/ TransferHistory(c) \/ SendConfirmation(c)
  \/ PersistExchange(c) \/ ChatFails(c)

(***************************************************************************)
(* Idle conversations are closed.                                          *)
(***************************************************************************)
CloseIdleConversations(k) ==
  /\ closer[k] = Null
  /\ \E S \in SUBSET OpenConvs \ {{}} :
       closer' = [closer EXCEPT ![k] = [todo |-> S, conv |-> Null,
                                        at |-> "claim"]]
  /\ UNCHANGED <<channel, form, conv, tickets, chat, chatFaults>>

Closing(k, s) == closer[k] # Null /\ closer[k].at = s

NextConv(k) ==
  closer' = [closer EXCEPT ![k] =
    IF @.todo = {} THEN Null ELSE [@ EXCEPT !.conv = Null, !.at = "claim"]]

\* This conversation is done with, closed by another run or left for later.
PassOver(k, v) ==
  LET rest == closer[k].todo \ {v} IN
  closer' = [closer EXCEPT ![k] =
    IF rest = {} THEN Null ELSE [@ EXCEPT !.todo = rest]]

\* (mutant: the row is closed by id)
ClaimAnyway(k) ==
  /\ Closing(k, "claim")
  /\ \E v \in closer[k].todo :
       /\ conv' = [conv EXCEPT ![v].status = "CLOSED"]
       /\ closer' = [closer EXCEPT ![k] = [todo |-> @.todo \ {v}, conv |-> v,
                                           at |-> "summary"]]
  /\ UNCHANGED <<channel, form, tickets, chat, chatFaults>>

CloseOne(k) ==
  /\ Closing(k, "claim")
  /\ \E v \in closer[k].todo :
       IF conv[v].status = "OPEN"
       THEN /\ conv' = [conv EXCEPT ![v].status = "CLOSED"]
            /\ closer' = [closer EXCEPT ![k] =
                 [todo |-> @.todo \ {v}, conv |-> v, at |-> "summary"]]
       ELSE PassOver(k, v) /\ UNCHANGED conv
  /\ UNCHANGED <<channel, form, tickets, chat, chatFaults>>

\* What the model says of the messages; none, or a failure, is a no.
Verdicts(v) == IF conv[v].filled THEN BOOLEAN ELSE {FALSE}

\* The settings of the notices may have been changed before any reading.
GetTelegramConfig == [escalationOnly : BOOLEAN]

ShouldNotifySummary(escalated, config) == escalated \/ ~config.escalationOnly

\* The verdict replaces the flag the hand-over set.
Summarize(k) ==
  /\ Closing(k, "summary")
  /\ \E escalated \in Verdicts(closer[k].conv), config \in GetTelegramConfig :
       /\ conv' = [conv EXCEPT ![closer[k].conv].escalated = escalated]
       /\ IF /\ conv[closer[k].conv].filled
             /\ ShouldNotifySummary(escalated, config)
          THEN closer' = [closer EXCEPT ![k].at = "notify"]
          ELSE NextConv(k)
  /\ UNCHANGED <<channel, form, tickets, chat, chatFaults>>

Notify(k) ==
  /\ Closing(k, "notify")
  /\ conv' = [conv EXCEPT ![closer[k].conv].notices = @ + 1]
  /\ NextConv(k)
  /\ UNCHANGED <<channel, form, tickets, chat, chatFaults>>

\* Caught for this conversation only.
CloseFails(k) ==
  /\ closer[k] # Null /\ chatFaults < MaxChatFaults
  /\ chatFaults' = chatFaults + 1
  /\ IF closer[k].at = "claim"
     THEN \E v \in closer[k].todo : PassOver(k, v)
     ELSE NextConv(k)
  /\ UNCHANGED <<channel, form, conv, tickets, chat>>

CloserStep(k) ==
  \/ CloseIdleConversations(k) \/ CloseOne(k) \/ Summarize(k) \/ Notify(k)
  \/ CloseFails(k)

AssistantNext ==
  \/ \E c \in Chats : ChatStep(c)
  \/ \E k \in Closers : CloserStep(k)
  \/ BackendRestarts

AssistantSpec == AssistantInit /\ [][AssistantNext]_assistantVars

(***************************************************************************)
(* Properties.                                                             *)
(***************************************************************************)
\* A conversation is handed over once, whatever overlaps: it has one ticket,
\* the chat names that one, one summary of it reaches the operators, and
\* the support reads what the customer wrote unless something failed.
HandedOverOnce ==
  /\ \A v \in Convs : Cardinality(TicketsOf(v)) <= 1 /\ conv[v].notices <= 1
  /\ \A c \in Chats : chat[c].told # Null => Raised(chat[c].told)
  /\ \A t \in TicketNumbers : Raised(t) =>
       \/ tickets[t].history \/ chatFaults > 0
       \/ \E c \in Chats : At(c, "history") /\ chat[c].told = t
=============================================================================
