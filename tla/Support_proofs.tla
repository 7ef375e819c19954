---------------------------- MODULE Support_proofs ---------------------------
(***************************************************************************)
(* The safety of the two ways to support, for any number of customers,     *)
(* operators, mails, chats and failures: Helpdesk, the tickets and their   *)
(* mails, and Assistant, the chat that hands its conversations over.       *)
(***************************************************************************)
EXTENDS Helpdesk, Assistant, SequenceTheorems, FiniteSetTheorems, TLAPS

Statuses == {"none", "OPEN", "PENDING", "CLOSED"}
TicketRow ==
  [status: Statuses, mailed: BOOLEAN, known: BOOLEAN, closedAt: BOOLEAN]
Mails == [ticket: Tickets, kind: Kinds]
Cursors == [uid: Nat, epoch: Nat]
Rounds == [uid: Nat, last: Nat, at: {"handle", "save"}]
Shown == [ticket: Tickets, status: Statuses]
Replies == [ticket: Tickets, at: {"mail", "messageId", "status"}]

DeskRows ==
  /\ ticket \in [Tickets -> TicketRow]
  /\ listed \in [Tickets -> Statuses]
  /\ shown \in [Operators -> Shown \cup {None}]
  /\ reply \in [Operators -> Replies \cup {None}]

MailRows ==
  /\ box \in Seq(Mails)
  /\ epoch \in Nat
  /\ cursor \in Cursors \cup {None}
  /\ poll \in Rounds \cup {None}
  /\ thread \in [Tickets -> Seq(Nat)]

\* Who was mailed has a ticket, and pages are about tickets that exist.
RowOK(t) ==
  /\ ticket[t].mailed => Exists(t)
  /\ ticket[t].known => ticket[t].mailed
  /\ ticket[t].status = "CLOSED" => ticket[t].closedAt

PageOK(a) ==
  /\ shown[a] # None => Exists(shown[a].ticket)
  /\ reply[a] # None => shown[a] # None /\ shown[a].ticket = reply[a].ticket
  /\ Replying(a, "messageId") => ticket[reply[a].ticket].mailed

DeskInv ==
  /\ \A t \in Tickets : RowOK(t)
  /\ \A t \in Tickets : listed[t] # "none" => Exists(t)
  /\ \A a \in Operators : PageOK(a)

\* Only who was mailed answers.
MailInv == \A u \in 1..Len(box) : ticket[box[u].ticket].mailed

Done(u) == box[u].kind = "tagged" => InThread(u) \/ u \in skipped

\* The round works on the mail after the cursor, under the same numbering,
\* and leaves it only when it is in a thread or skipped.
RoundInv ==
  /\ cursor # None => cursor.uid <= Len(box) /\ cursor.epoch <= epoch
  /\ poll # None =>
       /\ cursor # None /\ cursor.epoch = epoch
       /\ poll.uid = cursor.uid + 1
       /\ poll.uid <= poll.last /\ poll.last <= Len(box)
       /\ poll.at = "save" => Done(poll.uid)

\* A thread holds mails of its own customer, and none beyond the next one.
ThreadInv ==
  \A t \in Tickets : \A n \in 1..Len(thread[t]) :
    /\ thread[t][n] \in 1..Len(box)
    /\ box[thread[t][n]].ticket = t
    /\ cursor # None /\ thread[t][n] <= cursor.uid + 1

IInv ==
  /\ DeskRows /\ MailRows
  /\ DeskInv
  /\ MailInv
  /\ RoundInv
  /\ ThreadInv
  /\ ThreadHoldsMail

-----------------------------------------------------------------------------
(***************************************************************************)
(* The initial states, and the steps that leave the mailbox alone: the     *)
(* hand-over and the operators' pages.                                     *)
(***************************************************************************)
LEMMA InitInv == Init => IInv
<1> SUFFICES ASSUME Init PROVE IInv
  OBVIOUS
<1>1. DeskRows
  BY DEF Init, DeskRows, TicketRow, Statuses
<1>2. MailRows
  BY EmptySeq DEF Init, MailRows
<1>3. Len(box) = 0 /\ \A t \in Tickets : Len(thread[t]) = 0
  BY EmptySeq DEF Init
<1>4. DeskInv
  BY DEF Init, DeskInv, RowOK, PageOK, Exists, Replying
<1>5. MailInv /\ RoundInv
  BY <1>3 DEF Init, MailInv, RoundInv
<1>6. ThreadInv /\ ThreadHoldsMail
  BY <1>3 DEF Init, ThreadInv, ThreadHoldsMail
<1> QED
  BY <1>1, <1>2, <1>4, <1>5, <1>6 DEF IInv

\* Such a step keeps the invariant when it keeps the desk's part of it, and
\* takes no mail to a customer back.
LEMMA DeskStep ==
  ASSUME IInv, UNCHANGED mailVars, DeskRows', DeskInv',
         \A t \in Tickets : ticket[t].mailed => ticket'[t].mailed
  PROVE  IInv'
<1> USE DEF IInv
<1>1. MailRows' /\ RoundInv' /\ ThreadInv' /\ ThreadHoldsMail'
  BY DEF MailRows, RoundInv, Done, ThreadInv, ThreadHoldsMail, InThread,
         mailVars
<1>2. MailInv'
  <2>1. \A u \in 1..Len(box) : box[u] \in Mails
    BY ElementOfSeq DEF MailRows
  <2> QED
    BY <2>1 DEF MailInv, mailVars, Mails
<1> QED
  BY <1>1, <1>2

\* The tickets stay well formed, and none disappears or loses its mails.
RowsKept ==
  /\ ticket' \in [Tickets -> TicketRow]
  /\ \A t \in Tickets : RowOK(t)'
  /\ \A t \in Tickets : ticket[t].mailed => ticket'[t].mailed
  /\ \A t \in Tickets : Exists(t) => Exists(t)'

LEMMA SameRows ==
  ASSUME DeskRows, DeskInv, UNCHANGED ticket
  PROVE  RowsKept
BY DEF DeskRows, DeskInv, RowsKept, RowOK, Exists

LEMMA RowWritten ==
  ASSUME DeskRows, DeskInv, NEW t \in Tickets, NEW row \in TicketRow,
         row.status # "none",
         ticket[t].mailed => row.mailed,
         row.known => row.mailed,
         row.status = "CLOSED" => row.closedAt,
         ticket' = [ticket EXCEPT ![t] = row]
  PROVE  RowsKept
<1>1. /\ ticket' \in [Tickets -> TicketRow]
      /\ \A s \in Tickets : ticket'[s] = IF s = t THEN row ELSE ticket[s]
  BY DEF DeskRows
<1> QED
  BY <1>1 DEF RowsKept, DeskInv, RowOK, Exists

LEMMA StatusWritten ==
  ASSUME DeskRows, DeskInv, NEW t \in Tickets,
         NEW status \in {"OPEN", "PENDING", "CLOSED"},
         SetStatus(t, status)
  PROVE  RowsKept
<1> DEFINE row ==
      [ticket[t] EXCEPT !.status = status, !.closedAt = status = "CLOSED"]
<1>1. ticket[t] \in TicketRow /\ RowOK(t)
  BY DEF DeskRows, DeskInv
<1>2. (status = "CLOSED") \in BOOLEAN
  OBVIOUS
<1>3. /\ row \in TicketRow /\ row.status = status
      /\ row.mailed = ticket[t].mailed /\ row.known = ticket[t].known
      /\ row.closedAt = (status = "CLOSED")
  BY <1>1, <1>2 DEF TicketRow, Statuses
<1>4. ticket' = [ticket EXCEPT ![t] = row]
  BY DEF SetStatus, DeskRows
<1> HIDE DEF row
<1> QED
  BY <1>1, <1>3, <1>4, RowWritten DEF RowOK

\* The list shows tickets that exist, and so does a page a step leaves alone.
LEMMA ListKept ==
  ASSUME DeskInv, RowsKept, UNCHANGED listed
  PROVE  \A t \in Tickets : listed'[t] # "none" => Exists(t)'
BY DEF DeskInv, RowsKept

LEMMA ListLoaded ==
  ASSUME RowsKept, NEW page \in SUBSET Tickets,
         listed' = [t \in Tickets |->
                      IF t \in page THEN ticket'[t].status ELSE "none"]
  PROVE  /\ listed' \in [Tickets -> Statuses]
         /\ \A t \in Tickets : listed'[t] # "none" => Exists(t)'
BY DEF RowsKept, TicketRow, Statuses, Exists

LEMMA PageKept ==
  ASSUME DeskRows, DeskInv, RowsKept, NEW a \in Operators,
         shown'[a] = shown[a], reply'[a] = reply[a]
  PROVE  PageOK(a)'
<1>1. /\ shown[a] # None => shown[a].ticket \in Tickets
      /\ reply[a] # None => reply[a].ticket \in Tickets
  BY DEF DeskRows, Shown, Replies
<1> QED
  BY <1>1 DEF DeskInv, RowsKept, PageOK, Exists, Replying

LEMMA HandOverStep ==
  ASSUME IInv, NEW t \in Tickets, HandOver(t)
  PROVE  IInv'
<1> USE DEF IInv
<1>1. PICK mailed \in BOOLEAN :
        \E known \in IF mailed THEN BOOLEAN ELSE {FALSE} :
          ticket' = [ticket EXCEPT ![t] = [@ EXCEPT !.status = "OPEN",
                                            !.mailed = mailed, !.known = known]]
  BY DEF HandOver
<1>2. PICK known \in BOOLEAN :
        /\ known => mailed
        /\ ticket' = [ticket EXCEPT ![t] = [@ EXCEPT !.status = "OPEN",
                                            !.mailed = mailed, !.known = known]]
  BY <1>1
<1> DEFINE row == [ticket[t] EXCEPT !.status = "OPEN",
                                    !.mailed = mailed, !.known = known]
<1>3. ticket[t] \in TicketRow /\ ticket \in [Tickets -> TicketRow]
  BY DEF DeskRows
<1>4. /\ row \in TicketRow /\ row.status = "OPEN"
      /\ row.mailed = mailed /\ row.known = known
  BY <1>3 DEF TicketRow, Statuses
<1>5. ticket' = [ticket EXCEPT ![t] = row]
  BY <1>2
<1>6. ~ticket[t].mailed
  BY DEF DeskInv, RowOK, HandOver
<1> HIDE DEF row
<1>7. RowsKept
  BY <1>2, <1>4, <1>5, <1>6, RowWritten
<1>8. DeskRows' /\ DeskInv'
  BY <1>7, ListKept, PageKept
  DEF HandOver, pageVars, DeskRows, DeskInv, RowsKept
<1> QED
  BY <1>7, <1>8, DeskStep DEF HandOver, RowsKept

LEMMA LoadListStep ==
  ASSUME IInv, LoadList
  PROVE  IInv'
<1> USE DEF IInv
<1>1. RowsKept
  BY SameRows DEF LoadList
<1>2. PICK page \in SUBSET Tickets :
        listed' = [t \in Tickets |->
                     IF t \in page THEN ticket'[t].status ELSE "none"]
  BY DEF LoadList, Pages, Loaded
<1>3. DeskRows' /\ DeskInv'
  BY <1>1, <1>2, ListLoaded, PageKept DEF LoadList, DeskRows, DeskInv, RowsKept
<1> QED
  BY <1>1, <1>3, DeskStep DEF LoadList, RowsKept

LEMMA CloseTicketStep ==
  ASSUME IInv, NEW t \in Tickets, CloseTicket(t)
  PROVE  IInv'
<1> USE DEF IInv
<1>1. RowsKept
  BY StatusWritten DEF CloseTicket
<1>2. PICK page \in SUBSET Tickets :
        listed' = [s \in Tickets |->
                     IF s \in page THEN ticket'[s].status ELSE "none"]
  BY DEF CloseTicket, Pages, Loaded
<1>3. DeskRows' /\ DeskInv'
  BY <1>1, <1>2, ListLoaded, PageKept
  DEF CloseTicket, DeskRows, DeskInv, RowsKept
<1> QED
  BY <1>1, <1>3, DeskStep DEF CloseTicket, RowsKept

\* A step of one operator: the other pages stay.
LEMMA OperatorInv ==
  ASSUME IInv, RowsKept, NEW a \in Operators,
         UNCHANGED <<mailVars, listed>>,
         \/ UNCHANGED shown
         \/ \E s \in Shown \cup {None} : shown' = [shown EXCEPT ![a] = s],
         \/ UNCHANGED reply
         \/ \E r \in Replies \cup {None} : reply' = [reply EXCEPT ![a] = r],
         PageOK(a)'
  PROVE  IInv'
<1> USE DEF IInv
<1>1. /\ shown' \in [Operators -> Shown \cup {None}]
      /\ \A b \in Operators \ {a} : shown'[b] = shown[b]
  BY DEF DeskRows
<1>2. /\ reply' \in [Operators -> Replies \cup {None}]
      /\ \A b \in Operators \ {a} : reply'[b] = reply[b]
  BY DEF DeskRows
<1>3. \A b \in Operators : PageOK(b)'
  BY <1>1, <1>2, PageKept
<1>4. DeskRows' /\ DeskInv'
  BY <1>1, <1>2, <1>3, ListKept DEF DeskRows, DeskInv, RowsKept
<1> QED
  BY <1>4, DeskStep DEF RowsKept

LEMMA OpenTicketStep ==
  ASSUME IInv, NEW a \in Operators, NEW t \in Tickets, OpenTicket(a, t)
  PROVE  IInv'
<1> USE DEF IInv
<1>1. RowsKept
  BY SameRows DEF OpenTicket
<1> DEFINE s == [ticket |-> t, status |-> ticket[t].status]
<1>2. s \in Shown /\ s.ticket = t
  BY DEF DeskRows, TicketRow, Shown
<1>3. shown' = [shown EXCEPT ![a] = s]
  BY DEF OpenTicket
<1> HIDE DEF s
<1>4. PageOK(a)'
  BY <1>2, <1>3 DEF DeskRows, OpenTicket, PageOK, Exists, Replying
<1> QED
  BY <1>1, <1>2, <1>3, <1>4, OperatorInv DEF OpenTicket

\* What an operator's page or reply is about.
LEMMA PageFacts ==
  ASSUME DeskRows, DeskInv, NEW a \in Operators
  PROVE  /\ shown[a] # None => shown[a] \in Shown /\ shown[a].ticket \in Tickets
         /\ reply[a] # None
              => reply[a] \in Replies /\ reply[a].ticket \in Tickets
         /\ PageOK(a)
BY DEF DeskRows, DeskInv, Shown, Replies

LEMMA PatchStep ==
  ASSUME IInv, NEW a \in Operators, Patch(a)
  PROVE  IInv'
<1> USE DEF IInv
<1>1. RowsKept
  BY PageFacts, StatusWritten DEF Patch, Shows
<1>2. PageOK(a)'
  BY DEF DeskRows, Patch, PageOK, Replying
<1> QED
  BY <1>1, <1>2, OperatorInv DEF Patch

LEMMA SendReplyStep ==
  ASSUME IInv, NEW a \in Operators, SendReply(a)
  PROVE  IInv'
<1> USE DEF IInv
<1>1. RowsKept
  BY SameRows DEF SendReply
<1> DEFINE r == [ticket |-> shown[a].ticket, at |-> "mail"]
<1>2. r \in Replies /\ r.ticket = shown[a].ticket /\ r.at = "mail"
  BY PageFacts DEF SendReply, Shows, Replies
<1>3. reply' = [reply EXCEPT ![a] = r]
  BY DEF SendReply
<1> HIDE DEF r
<1>4. PageOK(a)'
  BY <1>2, <1>3, PageFacts
  DEF DeskRows, SendReply, Shows, PageOK, Exists, Replying
<1> QED
  BY <1>1, <1>2, <1>3, <1>4, OperatorInv DEF SendReply

\* The reply goes on to its next step.
LEMMA NextReply ==
  ASSUME DeskRows, NEW a \in Operators, reply[a] \in Replies,
         NEW at \in {"mail", "messageId", "status"}
  PROVE  /\ [reply[a] EXCEPT !.at = at] \in Replies
         /\ [reply[a] EXCEPT !.at = at].ticket = reply[a].ticket
         /\ [reply[a] EXCEPT !.at = at].at = at
BY DEF Replies

LEMMA ReplyMoves ==
  ASSUME IInv, RowsKept, NEW a \in Operators, reply[a] # None,
         NEW at \in {"mail", "messageId", "status"},
         reply' = [reply EXCEPT ![a].at = at],
         at = "messageId" => ticket'[reply[a].ticket].mailed,
         UNCHANGED <<mailVars, listed, shown>>
  PROVE  IInv'
<1> USE DEF IInv
<1> DEFINE r == [reply[a] EXCEPT !.at = at]
<1>1. r \in Replies /\ r.ticket = reply[a].ticket /\ r.at = at
  BY PageFacts, NextReply
<1>2. reply' = [reply EXCEPT ![a] = r]
  BY DEF DeskRows
<1> HIDE DEF r
<1>3. PageOK(a)'
  BY <1>1, <1>2, PageFacts DEF DeskRows, PageOK, RowsKept, Exists, Replying
<1> QED
  BY <1>1, <1>2, <1>3, OperatorInv

\* A step of a reply that sets one flag of its ticket.
LEMMA MailReplyStep ==
  ASSUME IInv, NEW a \in Operators, MailReply(a)
  PROVE  IInv'
<1> USE DEF IInv
<1> DEFINE t == reply[a].ticket
           row == [ticket[t] EXCEPT !.mailed = TRUE]
<1>1. reply[a] # None /\ t \in Tickets /\ ticket[t].status # "none"
  BY PageFacts DEF MailReply, Replying, PageOK, Exists
<1>2. /\ row \in TicketRow /\ row.status = ticket[t].status /\ row.mailed
      /\ row.known = ticket[t].known /\ row.closedAt = ticket[t].closedAt
  BY <1>1 DEF DeskRows, TicketRow
<1>3. ASSUME ticket' = [ticket EXCEPT ![reply[a].ticket].mailed = TRUE],
             reply' = [reply EXCEPT ![a].at = "messageId"]
      PROVE  IInv'
  <2>1. ticket' = [ticket EXCEPT ![t] = row]
    BY <1>3
  <2>2. ticket'[t].mailed
    BY <1>1, <1>2, <2>1 DEF DeskRows
  <2>3. RowsKept
    <3> HIDE DEF row, t
    <3> QED
      BY <1>1, <1>2, <2>1, RowWritten DEF DeskInv, RowOK
  <2> QED
    BY <1>1, <1>3, <2>2, <2>3, ReplyMoves DEF MailReply
<1>4. ASSUME UNCHANGED ticket, reply' = [reply EXCEPT ![a].at = "status"]
      PROVE  IInv'
  BY <1>1, <1>4, SameRows, ReplyMoves DEF MailReply
<1> QED
  BY <1>3, <1>4 DEF MailReply

LEMMA StoreReplyIdStep ==
  ASSUME IInv, NEW a \in Operators, StoreReplyId(a)
  PROVE  IInv'
<1> USE DEF IInv
<1> DEFINE t == reply[a].ticket
           row == [ticket[t] EXCEPT !.known = TRUE]
<1>1. /\ reply[a] # None /\ t \in Tickets /\ ticket[t].status # "none"
      /\ ticket[t].mailed
  BY PageFacts DEF StoreReplyId, Replying, PageOK, Exists
<1>2. /\ row \in TicketRow /\ row.status = ticket[t].status /\ row.known
      /\ row.mailed = ticket[t].mailed /\ row.closedAt = ticket[t].closedAt
  BY <1>1 DEF DeskRows, TicketRow
<1>3. ticket' = [ticket EXCEPT ![t] = row]
  BY DEF StoreReplyId
<1>4. RowsKept
  <2> HIDE DEF row, t
  <2> QED
    BY <1>1, <1>2, <1>3, RowWritten DEF DeskInv, RowOK
<1> QED
  BY <1>1, <1>4, ReplyMoves DEF StoreReplyId

LEMMA SetPendingStep ==
  ASSUME IInv, NEW a \in Operators, SetPending(a)
  PROVE  IInv'
<1> USE DEF IInv
<1>1. /\ reply[a].ticket \in Tickets /\ shown[a] \in Shown
      /\ shown[a].ticket = reply[a].ticket
  BY PageFacts DEF SetPending, Replying, PageOK
<1>2. RowsKept
  BY <1>1, StatusWritten DEF SetPending
<1> DEFINE s == [shown[a] EXCEPT !.status = "PENDING"]
<1>3. s \in Shown /\ s.ticket = shown[a].ticket
  BY <1>1 DEF Shown, Statuses
<1>4. shown' = [shown EXCEPT ![a] = s]
  BY DEF SetPending
<1>5. Exists(shown[a].ticket)
  BY PageFacts DEF SetPending, Replying, PageOK
<1> HIDE DEF s
<1>6. PageOK(a)'
  BY <1>1, <1>2, <1>3, <1>4, <1>5
  DEF DeskRows, SetPending, PageOK, RowsKept, Exists, Replying
<1> QED
  BY <1>2, <1>3, <1>4, <1>6, OperatorInv DEF SetPending

LEMMA ReplyFailsStep ==
  ASSUME IInv, NEW a \in Operators, ReplyFails(a)
  PROVE  IInv'
<1> USE DEF IInv
<1>1. RowsKept
  BY SameRows DEF ReplyFails
<1>2. PageOK(a)'
  BY PageFacts DEF DeskRows, ReplyFails, PageOK, Exists, Replying
<1> QED
  BY <1>1, <1>2, OperatorInv DEF ReplyFails

-----------------------------------------------------------------------------
(***************************************************************************)
(* The mailbox and the poller.                                             *)
(***************************************************************************)
LEMMA DeskKept ==
  ASSUME DeskRows, DeskInv, RowsKept, UNCHANGED pageVars
  PROVE  DeskRows' /\ DeskInv'
BY ListKept, PageKept DEF pageVars, DeskRows, DeskInv, RowsKept

\* The facts about the mailbox that the steps of the poller use.
LEMMA BoxFacts ==
  ASSUME MailRows
  PROVE  /\ Len(box) \in Nat
         /\ \A u \in 1..Len(box) : box[u] \in Mails /\ box[u].ticket \in Tickets
         /\ \A t \in Tickets :
              /\ thread[t] \in Seq(Nat) /\ Len(thread[t]) \in Nat
              /\ \A n \in 1..Len(thread[t]) : thread[t][n] \in Nat
         /\ cursor # None => cursor.uid \in Nat /\ cursor.epoch \in Nat
         /\ poll # None => /\ poll \in Rounds
                           /\ poll.uid \in Nat /\ poll.last \in Nat
<1>1. Len(box) \in Nat /\ \A u \in 1..Len(box) : box[u] \in Mails
  BY LenProperties, ElementOfSeq DEF MailRows
<1>2. \A t \in Tickets :
        /\ thread[t] \in Seq(Nat) /\ Len(thread[t]) \in Nat
        /\ \A n \in 1..Len(thread[t]) : thread[t][n] \in Nat
  BY LenProperties, ElementOfSeq DEF MailRows
<1> QED
  BY <1>1, <1>2 DEF MailRows, Mails, Cursors, Rounds

\* A step that leaves the box and the threads alone: what is left to show is
\* about the cursor and the round.
LEMMA RoundStep ==
  ASSUME IInv, UNCHANGED <<ticket, pageVars, box, thread>>,
         MailRows', RoundInv',
         cursor' = cursor
           \/ (cursor' # None /\ \A u \in 1..Len(box) :
                 InThread(u) => u <= cursor'.uid + 1),
         skipped \subseteq skipped',
         cursor' = cursor
           \/ \A u \in 1..cursor'.uid : u \in 1..Len(box) => Done(u)'
  PROVE  IInv'
<1> USE DEF IInv
<1>1. DeskRows' /\ DeskInv'
  BY SameRows, DeskKept
<1>2. MailInv'
  BY DEF MailInv
<1>3. ThreadInv'
  <2>1. \A t \in Tickets : \A n \in 1..Len(thread[t]) : InThread(thread[t][n])
    BY DEF InThread
  <2> QED
    BY <2>1 DEF ThreadInv
<1>4. ThreadHoldsMail'
  <2>1. ASSUME cursor' = cursor, cursor # None, NEW u \in 1..cursor.uid,
               box[u].kind = "tagged"
        PROVE  InThread(u)' \/ u \in skipped'
    BY <2>1 DEF ThreadHoldsMail, InThread
  <2>2. ASSUME cursor' # cursor, cursor' # None, NEW u \in 1..cursor'.uid,
               box[u].kind = "tagged"
        PROVE  InThread(u)' \/ u \in skipped'
    <3>1. u \in 1..Len(box)
      BY <2>2, BoxFacts DEF RoundInv, MailRows, Cursors
    <3> QED
      BY <2>2, <3>1 DEF Done
  <2> QED
    BY <2>1, <2>2 DEF ThreadHoldsMail
<1> QED
  BY <1>1, <1>2, <1>3, <1>4

LEMMA CustomerMailsStep ==
  ASSUME IInv, NEW t \in Tickets, NEW kind \in Kinds, CustomerMails(t, kind)
  PROVE  IInv'
<1> USE DEF IInv
<1> DEFINE m == [ticket |-> t, kind |-> kind]
<1>1. m \in Mails /\ m.ticket = t
  BY DEF Mails
<1>2. box \in Seq(Mails) /\ box' = Append(box, m)
  BY DEF MailRows, CustomerMails
<1> HIDE DEF m
<1>3. /\ box' \in Seq(Mails) /\ Len(box') = Len(box) + 1
      /\ \A u \in 1..Len(box) : box'[u] = box[u]
      /\ box'[Len(box) + 1] = m
  BY <1>1, <1>2, AppendProperties
<1>4. DeskRows' /\ DeskInv'
  BY SameRows, DeskKept DEF CustomerMails
<1>5. MailRows'
  BY <1>3 DEF MailRows, CustomerMails
<1>6. MailInv'
  BY <1>1, <1>3, BoxFacts DEF MailInv, CustomerMails
<1>7. RoundInv'
  BY <1>3, BoxFacts DEF RoundInv, Done, InThread, CustomerMails
<1>8. ThreadInv'
  BY <1>3, BoxFacts DEF ThreadInv, CustomerMails
<1>9. ThreadHoldsMail'
  BY <1>3, BoxFacts DEF ThreadHoldsMail, RoundInv, InThread, CustomerMails
<1> QED
  BY <1>4, <1>5, <1>6, <1>7, <1>8, <1>9

LEMMA MailboxRenumberedStep ==
  ASSUME IInv, MailboxRenumbered
  PROVE  IInv'
<1> USE DEF IInv
<1>1. MailRows' /\ RoundInv'
  BY BoxFacts DEF MailRows, RoundInv, MailboxRenumbered
<1> QED
  BY <1>1, RoundStep DEF MailboxRenumbered

\* The cursor is saved: it is a row, never the null of a new database.
LEMMA CursorSaved ==
  ASSUME MailRows, NEW uid \in Nat, SaveCursor(uid)
  PROVE  /\ cursor' \in Cursors /\ cursor' # None
         /\ cursor'.uid = uid /\ cursor'.epoch = epoch
BY HelpdeskAssumption DEF SaveCursor, Cursors, MailRows

LEMMA BaselineStep ==
  ASSUME IInv, Baseline
  PROVE  IInv'
<1> USE DEF IInv
<1>1. /\ cursor' \in Cursors /\ cursor' # None
      /\ cursor'.uid = Len(box) /\ cursor'.epoch = epoch
  BY BoxFacts, CursorSaved DEF Baseline
<1>2. MailRows' /\ RoundInv'
  BY <1>1, BoxFacts DEF MailRows, RoundInv, Baseline
<1>3. \A u \in 1..Len(box) : Done(u)'
  BY DEF Baseline, Passed, Done, InThread
<1>4. \A u \in 1..Len(box) : u <= cursor'.uid + 1
  BY <1>1, BoxFacts
<1> QED
  BY <1>1, <1>2, <1>3, <1>4, RoundStep DEF Baseline, Passed

LEMMA PollBegins ==
  ASSUME IInv, Poll
  PROVE  IInv'
<1> USE DEF IInv
<1>1. /\ poll' \in Rounds
      /\ poll'.uid = cursor.uid + 1 /\ poll'.last = Len(box)
      /\ poll'.at = "handle"
  BY BoxFacts DEF Poll, Rounds
<1>2. MailRows' /\ RoundInv'
  BY <1>1, BoxFacts DEF MailRows, RoundInv, Poll
<1> QED
  BY <1>1, <1>2, RoundStep DEF Poll

LEMMA RoundEnds ==
  ASSUME IInv, poll' = None,
         UNCHANGED <<ticket, pageVars, box, thread, epoch, cursor, skipped>>
  PROVE  IInv'
<1> USE DEF IInv
<1>1. MailRows' /\ RoundInv'
  BY DEF MailRows, RoundInv
<1> QED
  BY <1>1, RoundStep

LEMMA HandleFailsStep ==
  ASSUME IInv, HandleFails
  PROVE  IInv'
<1> USE DEF IInv
<1>1. /\ poll' \in Rounds /\ poll'.at = "save"
      /\ poll'.uid = poll.uid /\ poll'.last = poll.last
  BY BoxFacts DEF HandleFails, Handling, Rounds
<1>2. Done(poll.uid)'
  <2>1. InThread(poll.uid) \/ poll.uid \in skipped'
    BY BoxFacts DEF HandleFails, Handling, Passed
  <2> QED
    BY <1>1, <2>1 DEF Done, InThread, HandleFails
<1>3. MailRows' /\ RoundInv'
  <2>1. poll # None
    BY DEF HandleFails, Handling
  <2>2. MailRows'
    BY <1>1 DEF MailRows, HandleFails
  <2>3. RoundInv'
    BY <1>1, <1>2, <2>1 DEF RoundInv, HandleFails, Done, InThread
  <2> QED
    BY <2>2, <2>3
<1> QED
  BY <1>3, RoundStep DEF HandleFails, Passed

LEMMA AdvanceStep ==
  ASSUME IInv, Advance
  PROVE  IInv'
<1> USE DEF IInv
<1>1. /\ poll # None /\ poll \in Rounds /\ poll.uid \in Nat /\ poll.last \in Nat
      /\ cursor # None /\ cursor.uid \in Nat /\ poll.uid = cursor.uid + 1
      /\ poll.uid <= poll.last /\ poll.last <= Len(box)
      /\ Done(poll.uid) /\ Len(box) \in Nat
  BY BoxFacts DEF Advance, RoundInv
<1>2. /\ cursor' \in Cursors /\ cursor' # None
      /\ cursor'.uid = poll.uid /\ cursor'.epoch = epoch
  BY <1>1, CursorSaved DEF Advance
<1>3. poll' # None => /\ poll' \in Rounds /\ poll'.at = "handle"
                      /\ poll'.uid = poll.uid + 1 /\ poll'.last = poll.last
                      /\ poll.uid < poll.last
  <2> DEFINE p == [poll EXCEPT !.uid = @ + 1, !.at = "handle"]
  <2>1. poll.uid + 1 \in Nat
    BY <1>1
  <2>2. /\ p \in Rounds /\ p.at = "handle"
        /\ p.uid = poll.uid + 1 /\ p.last = poll.last
    BY <1>1, <2>1 DEF Rounds
  <2> HIDE DEF p
  <2>3. poll' = IF poll.uid = poll.last THEN None ELSE p
    BY DEF Advance, p
  <2> QED
    BY <1>1, <2>2, <2>3
<1>4. MailRows'
  BY <1>2, <1>3 DEF MailRows, Advance
<1>5. RoundInv'
  BY <1>1, <1>2, <1>3 DEF RoundInv, Advance, MailRows
<1>6. \A u \in 1..cursor'.uid : Done(u)'
  <2>1. \A u \in 1..cursor'.uid : u \in 1..cursor.uid \/ u = poll.uid
    BY <1>1, <1>2
  <2>2. \A u \in 1..cursor.uid : Done(u)
    BY <1>1 DEF ThreadHoldsMail, Done
  <2> QED
    BY <1>1, <2>1, <2>2 DEF Done, InThread, Advance
<1>7. \A u \in 1..Len(box) : InThread(u) => u <= cursor'.uid + 1
  BY <1>1, <1>2 DEF ThreadInv, InThread
<1> QED
  BY <1>2, <1>4, <1>5, <1>6, <1>7, RoundStep DEF Advance

\* The mail becomes the last of its ticket's thread, and the ticket is open.
LEMMA ThreadGrows ==
  ASSUME IInv, Handling, NEW t \in Tickets, t = box[poll.uid].ticket,
         ~InThread(poll.uid),
         thread' = [thread EXCEPT ![t] = Append(@, poll.uid)],
         UNCHANGED box
  PROVE  /\ thread' \in [Tickets -> Seq(Nat)]
         /\ \A s \in Tickets : \A n \in 1..Len(thread'[s]) :
              /\ thread'[s][n] \in 1..Len(box)
              /\ box[thread'[s][n]].ticket = s
              /\ thread'[s][n] <= cursor.uid + 1
         /\ \A s \in Tickets : \A n \in 2..Len(thread'[s]) :
              thread'[s][n-1] < thread'[s][n]
         /\ \A u \in Nat : InThread(u) \/ u = poll.uid => InThread(u)'
<1> USE DEF IInv
<1> DEFINE u == poll.uid
           old == thread[t]
           new == Append(thread[t], poll.uid)
<1>1. /\ u \in Nat /\ u = cursor.uid + 1 /\ u \in 1..Len(box)
      /\ cursor # None /\ cursor.uid \in Nat
  BY BoxFacts DEF RoundInv, Handling
<1>2. /\ old \in Seq(Nat) /\ Len(old) \in Nat
      /\ \A n \in 1..Len(old) : old[n] \in Nat
  BY BoxFacts
<1>3. /\ new \in Seq(Nat) /\ Len(new) = Len(old) + 1
      /\ \A n \in 1..Len(old) : new[n] = old[n]
      /\ new[Len(old) + 1] = u
  BY <1>1, <1>2, AppendProperties
<1>4. \A n \in 1..Len(old) : old[n] < u
  <2> SUFFICES ASSUME NEW n \in 1..Len(old) PROVE old[n] < u
    OBVIOUS
  <2>1. old[n] # u
    BY DEF InThread
  <2>2. old[n] <= cursor.uid + 1
    BY DEF ThreadInv
  <2> QED
    BY <1>1, <1>2, <2>1, <2>2
<1>5. \A s \in Tickets : thread'[s] = IF s = t THEN new ELSE thread[s]
  BY DEF MailRows
<1>6. thread' \in [Tickets -> Seq(Nat)]
  <2> HIDE DEF new, old
  <2>1. thread' = [thread EXCEPT ![t] = new]
    BY DEF new
  <2> QED
    BY <1>3, <2>1 DEF MailRows
<1>7. /\ \A n \in 1..Len(new) :
           /\ new[n] \in 1..Len(box)
           /\ box[new[n]].ticket = t
           /\ new[n] <= cursor.uid + 1
      /\ \A n \in 2..Len(new) : new[n-1] < new[n]
  <2>1. /\ \A n \in 1..Len(old) :
             /\ old[n] \in 1..Len(box)
             /\ box[old[n]].ticket = t
             /\ old[n] <= cursor.uid + 1
        /\ \A n \in 2..Len(old) : old[n-1] < old[n]
    BY DEF ThreadInv, ThreadHoldsMail
  <2>2. u \in 1..Len(box) /\ box[u].ticket = t /\ u <= cursor.uid + 1
    BY <1>1
  <2> HIDE DEF new, old, u
  <2>3. \A n \in 1..Len(new) : n \in 1..Len(old) \/ n = Len(old) + 1
    BY <1>2, <1>3
  <2>4. \A n \in 1..Len(new) :
          /\ new[n] \in 1..Len(box)
          /\ box[new[n]].ticket = t
          /\ new[n] <= cursor.uid + 1
    BY <1>3, <2>1, <2>2, <2>3
  <2>5. ASSUME NEW n \in 2..Len(new) PROVE new[n-1] < new[n]
    <3>1. n - 1 \in 1..Len(old) /\ new[n-1] = old[n-1] /\ n \in 1..Len(new)
      BY <1>2, <1>3
    <3>2. CASE n = Len(old) + 1
      BY <1>3, <1>4, <3>1, <3>2
    <3>3. ASSUME n \in 1..Len(old) PROVE new[n-1] < new[n]
      <4>1. n \in 2..Len(old) /\ new[n] = old[n]
        BY <1>2, <1>3, <3>3
      <4> QED
        BY <2>1, <3>1, <4>1
    <3> QED
      BY <2>3, <3>1, <3>2, <3>3
  <2> QED
    BY <2>4, <2>5
<1>8. /\ thread'[t] = new
      /\ \A s \in Tickets : s # t => thread'[s] = thread[s]
  BY <1>5
<1>9. \A v \in Nat : InThread(v) => InThread(v)'
  <2> SUFFICES ASSUME NEW v \in Nat, NEW s \in Tickets,
                      NEW n \in 1..Len(thread[s]), thread[s][n] = v
               PROVE  InThread(v)'
    BY DEF InThread
  <2> HIDE DEF new
  <2>1. n \in 1..Len(thread'[s]) /\ thread'[s][n] = v
    <3>1. CASE s = t
      BY <1>2, <1>3, <1>8, <3>1
    <3>2. CASE s # t
      BY <1>8, <3>2
    <3> QED
      BY <3>1, <3>2
  <2> QED
    BY <2>1 DEF InThread
<1>10. \A v \in Nat : v = u => InThread(v)'
  <2> HIDE DEF new, old
  <2>1. Len(old) + 1 \in 1..Len(thread'[t]) /\ thread'[t][Len(old) + 1] = u
    BY <1>2, <1>3, <1>8
  <2>2. \E s \in Tickets : \E n \in 1..Len(thread'[s]) : thread'[s][n] = u
    BY <2>1
  <2> HIDE DEF u
  <2> SUFFICES ASSUME NEW v \in Nat, v = u PROVE InThread(v)'
    OBVIOUS
  <2> QED
    BY <2>2 DEF InThread
<1>11. \A s \in Tickets : \A n \in 1..Len(thread'[s]) :
         /\ thread'[s][n] \in 1..Len(box)
         /\ box[thread'[s][n]].ticket = s
         /\ thread'[s][n] <= cursor.uid + 1
  <2> HIDE DEF new, old, u
  <2> SUFFICES ASSUME NEW s \in Tickets
               PROVE  \A n \in 1..Len(thread'[s]) :
                        /\ thread'[s][n] \in 1..Len(box)
                        /\ box[thread'[s][n]].ticket = s
                        /\ thread'[s][n] <= cursor.uid + 1
    OBVIOUS
  <2>1. CASE s = t
    BY <1>7, <1>8, <2>1
  <2>2. CASE s # t
    <3>1. thread'[s] = thread[s]
      BY <1>8, <2>2
    <3> QED
      BY <3>1 DEF ThreadInv
  <2> QED
    BY <2>1, <2>2
<1>12. \A s \in Tickets : \A n \in 2..Len(thread'[s]) :
         thread'[s][n-1] < thread'[s][n]
  <2> HIDE DEF new, old, u
  <2> QED
    BY <1>7, <1>8 DEF ThreadHoldsMail
<1> QED
  BY <1>6, <1>9, <1>10, <1>11, <1>12

LEMMA HandleMessageStep ==
  ASSUME IInv, HandleMessage
  PROVE  IInv'
<1> USE DEF IInv
<1> DEFINE m == box[poll.uid]
           t == box[poll.uid].ticket
<1>1. /\ poll # None /\ poll.uid \in Nat /\ poll.uid \in 1..Len(box)
      /\ cursor # None /\ cursor.uid \in Nat /\ t \in Tickets
  BY BoxFacts DEF RoundInv, HandleMessage, Handling
<1>2. /\ poll' \in Rounds /\ poll'.at = "save"
      /\ poll'.uid = poll.uid /\ poll'.last = poll.last
  BY BoxFacts DEF HandleMessage, Handling, Rounds
<1>3. CASE MatchTicket(m) /\ ~InThread(poll.uid)
  <2>1. /\ ticket' = [ticket EXCEPT ![t].status = "OPEN"]
        /\ thread' = [thread EXCEPT ![t] = Append(@, poll.uid)]
    BY <1>3 DEF HandleMessage
  <2> HIDE DEF m, t
  <2>2. ticket[t].mailed
    BY <1>1 DEF MailInv, t
  <2>3. RowsKept
    <3> DEFINE row == [ticket[t] EXCEPT !.status = "OPEN"]
    <3>1. /\ row \in TicketRow /\ row.status = "OPEN"
          /\ row.mailed = ticket[t].mailed /\ row.known = ticket[t].known
          /\ row.closedAt = ticket[t].closedAt
      BY <1>1 DEF DeskRows, TicketRow, Statuses
    <3>2. ticket' = [ticket EXCEPT ![t] = row]
      BY <2>1
    <3> HIDE DEF row
    <3> QED
      BY <1>1, <3>1, <3>2, RowWritten DEF DeskInv, RowOK
  <2>4. DeskRows' /\ DeskInv'
    BY <2>3, DeskKept DEF HandleMessage
  <2>5. /\ thread' \in [Tickets -> Seq(Nat)]
        /\ \A s \in Tickets : \A n \in 1..Len(thread'[s]) :
             /\ thread'[s][n] \in 1..Len(box)
             /\ box[thread'[s][n]].ticket = s
             /\ thread'[s][n] <= cursor.uid + 1
        /\ \A s \in Tickets : \A n \in 2..Len(thread'[s]) :
             thread'[s][n-1] < thread'[s][n]
        /\ \A u \in Nat : InThread(u) \/ u = poll.uid => InThread(u)'
    BY <1>1, <1>3, <2>1, ThreadGrows DEF HandleMessage, t
  <2>6. MailRows'
    BY <1>2, <2>5 DEF MailRows, HandleMessage
  <2>7. MailInv'
    BY <2>3, BoxFacts DEF MailInv, RowsKept, HandleMessage
  <2>8. RoundInv'
    BY <1>1, <1>2, <2>5 DEF RoundInv, Done, HandleMessage
  <2>9. ThreadInv'
    BY <1>1, <2>5 DEF ThreadInv, HandleMessage
  <2>10. ThreadHoldsMail'
    BY <1>1, <2>5 DEF ThreadHoldsMail, HandleMessage
  <2> QED
    BY <2>4, <2>6, <2>7, <2>8, <2>9, <2>10
<1>4. CASE ~(MatchTicket(m) /\ ~InThread(poll.uid))
  <2>1. UNCHANGED <<thread, ticket>>
    BY <1>4 DEF HandleMessage
  <2>2. Done(poll.uid)
    BY <1>4 DEF Done, MatchTicket
  <2>3. MailRows'
    BY <1>2, <2>1 DEF MailRows, HandleMessage
  <2>4. RoundInv'
    BY <1>1, <1>2, <2>1, <2>2 DEF RoundInv, Done, InThread, HandleMessage
  <2> QED
    BY <2>1, <2>3, <2>4, RoundStep DEF HandleMessage
<1> QED
  BY <1>3, <1>4

LEMMA RestartStep ==
  ASSUME IInv, Restart
  PROVE  IInv'
<1> USE DEF IInv
<1>1. RowsKept
  BY SameRows DEF Restart
<1>2. DeskRows' /\ DeskInv'
  <2>1. \A a \in Operators : PageOK(a)'
    BY PageFacts DEF PageOK, Exists, Replying, Restart
  <2> QED
    BY <1>1, <2>1, ListKept DEF DeskRows, DeskInv, RowsKept, Restart
<1>3. MailRows' /\ MailInv' /\ RoundInv' /\ ThreadInv' /\ ThreadHoldsMail'
  BY DEF Restart, MailRows, MailInv, RoundInv, ThreadInv, ThreadHoldsMail,
         InThread
<1> QED
  BY <1>2, <1>3

-----------------------------------------------------------------------------
LEMMA NextInv == IInv /\ [Next]_vars => IInv'
<1> SUFFICES ASSUME IInv, [Next]_vars PROVE IInv'
  OBVIOUS
<1>1. ASSUME NEW t \in Tickets,
             \/ HandOver(t) \/ CloseTicket(t)
             \/ \E m \in Kinds : CustomerMails(t, m)
      PROVE  IInv'
  BY <1>1, HandOverStep, CloseTicketStep, CustomerMailsStep
<1>2. ASSUME MailboxRenumbered \/ LoadList PROVE IInv'
  BY <1>2, MailboxRenumberedStep, LoadListStep
<1>3. ASSUME PollStep \/ HandleFails PROVE IInv'
  BY <1>3, BaselineStep, PollBegins, HandleMessageStep, AdvanceStep,
     HandleFailsStep DEF PollStep
<1>4. ASSUME PollFails PROVE IInv'
  BY <1>4, RoundEnds DEF PollFails
<1>5. ASSUME NEW a \in Operators, OperatorStep(a) PROVE IInv'
  BY <1>5, PatchStep, SendReplyStep, MailReplyStep, StoreReplyIdStep,
     SetPendingStep, ReplyFailsStep, OpenTicketStep DEF OperatorStep
<1>6. ASSUME UNCHANGED vars PROVE IInv'
  <2>1. RowsKept
    BY <1>6, SameRows DEF IInv, vars
  <2>2. DeskRows' /\ DeskInv'
    BY <1>6, <2>1, DeskKept DEF IInv, vars
  <2> QED
    BY <1>6, <2>1, <2>2, DeskStep DEF RowsKept, vars
<1> QED
  BY <1>1, <1>2, <1>3, <1>4, <1>5, <1>6, RestartStep DEF Next

LEMMA SpecInv == Spec => []IInv
BY InitInv, NextInv, PTL DEF Spec

\* A thread and a Message-ID belong to a customer who was written to, pages
\* and replies are about tickets that exist, the cursor is in the mailbox.
THEOREM DeskWellFormed == Spec => []HelpdeskTypeOK
<1>1. IInv => HelpdeskTypeOK
  <2> SUFFICES ASSUME IInv PROVE HelpdeskTypeOK
    OBVIOUS
  <2> USE DEF IInv
  <2>1. \A t \in Tickets : ticket[t].status \in Statuses
    BY DEF DeskRows, TicketRow
  <2>2. \A t \in Tickets : thread[t] # <<>> => ticket[t].mailed
    <3> SUFFICES ASSUME NEW t \in Tickets, thread[t] # <<>>
                 PROVE  ticket[t].mailed
      OBVIOUS
    <3>1. Len(thread[t]) \in Nat \ {0}
      BY EmptySeq, BoxFacts
    <3>2. thread[t][1] \in 1..Len(box) /\ box[thread[t][1]].ticket = t
      BY <3>1 DEF ThreadInv
    <3> QED
      BY <3>2 DEF MailInv
  <2>3. \A t \in Tickets :
          /\ ticket[t].known => ticket[t].mailed
          /\ ticket[t].status = "CLOSED" => ticket[t].closedAt
          /\ listed[t] # "none" => Exists(t)
    BY DEF DeskInv, RowOK
  <2>4. \A a \in Operators :
          /\ shown[a] # None => Exists(shown[a].ticket)
          /\ reply[a] # None =>
               shown[a] # None /\ shown[a].ticket = reply[a].ticket
    BY DEF DeskInv, PageOK
  <2>5. poll # None => poll.uid \in 1..poll.last /\ poll.last <= Len(box)
    BY BoxFacts DEF RoundInv
  <2> QED
    BY <2>1, <2>2, <2>3, <2>4, <2>5 DEF HelpdeskTypeOK, RoundInv, Statuses
<1> QED
  BY <1>1, SpecInv, PTL

\* Whatever rounds, restarts and renumberings fall between reading a mail and
\* saving the cursor, the mail that names its ticket is in the thread once
\* the cursor is past it, in order and never twice.
THEOREM NoMailLost == Spec => []ThreadHoldsMail
<1>1. IInv => ThreadHoldsMail
  BY DEF IInv
<1> QED
  BY <1>1, SpecInv, PTL

-----------------------------------------------------------------------------
(***************************************************************************)
(* The assistant: each conversation is handed over and summed up once.     *)
(***************************************************************************)
Positions == {"idle", "model", "seek", "find", "mark", "existing", "number",
              "history", "confirm", "record"}
ConvRow == [status: {"none", "OPEN", "CLOSED"}, escalated: BOOLEAN,
            filled: BOOLEAN, notices: Nat]
IssueRow == [conv: Convs \cup {Null}, history: BOOLEAN]
ChatCall == [at: Positions, found: Convs \cup {Null},
             told: TicketNumbers \cup {Null}]
ClosingRun == [todo: SUBSET Convs, conv: Convs \cup {Null},
               at: {"claim", "summary", "notify"}]

ChatRows ==
  /\ conv \in [Convs -> ConvRow]
  /\ tickets \in [TicketNumbers -> IssueRow]
  /\ chat \in [Chats -> ChatCall]
  /\ closer \in [Closers -> ClosingRun \cup {Null}]
  /\ chatFaults \in Nat

\* A request past the choice of its conversation has one, and the ticket it
\* names exists.
HandOverOK(c) ==
  /\ chat[c].at \in {"existing", "number"} => chat[c].found \in Convs
  /\ chat[c].at \in {"history", "confirm"} => chat[c].told # Null
  /\ chat[c].told # Null => Raised(chat[c].told)

HandOverInv ==
  /\ \A c \in Chats : HandOverOK(c)
  /\ \A s, t \in TicketNumbers :
       Raised(s) /\ Raised(t) /\ tickets[s].conv = tickets[t].conv => s = t
  /\ \A t \in TicketNumbers : Raised(t) =>
       \/ tickets[t].history \/ chatFaults > 0
       \/ \E c \in Chats : At(c, "history") /\ chat[c].told = t

\* A conversation is summed up by the one run that has closed it.
SummingUp(k) == Closing(k, "summary") \/ Closing(k, "notify")

SummaryInv ==
  /\ \A v \in Convs : conv[v].notices <= 1
  /\ \A v \in Convs : conv[v].status # "CLOSED" => conv[v].notices = 0
  /\ \A k \in Closers : SummingUp(k) =>
       /\ closer[k].conv \in Convs
       /\ conv[closer[k].conv].status = "CLOSED"
       /\ conv[closer[k].conv].notices = 0
  /\ \A k, l \in Closers :
       SummingUp(k) /\ SummingUp(l) /\ closer[k].conv = closer[l].conv => k = l

AssistantInv == ChatRows /\ HandOverInv /\ SummaryInv

-----------------------------------------------------------------------------
LEMMA AssistantInitInv == AssistantInit => AssistantInv
<1> SUFFICES ASSUME AssistantInit PROVE AssistantInv
  OBVIOUS
<1>1. ChatRows
  BY DEF AssistantInit, ChatRows, ConvRow, IssueRow, ChatCall, Positions, Quiet
<1>2. HandOverInv
  BY DEF AssistantInit, HandOverInv, HandOverOK, Quiet, Raised
<1>3. SummaryInv
  BY DEF AssistantInit, SummaryInv, SummingUp, Closing
<1> QED
  BY <1>1, <1>2, <1>3 DEF AssistantInv

\* A request goes on and no ticket is written.
LEMMA RequestGoesOn ==
  ASSUME ChatRows, HandOverInv, NEW c \in Chats, NEW next \in ChatCall,
         chat' = [chat EXCEPT ![c] = next],
         UNCHANGED tickets,
         next.at \in {"existing", "number"} => next.found \in Convs,
         next.at \in {"history", "confirm"} => next.told # Null,
         next.told # Null => Raised(next.told),
         chatFaults' \in Nat, chatFaults <= chatFaults',
         ~At(c, "history") \/ chatFaults' > 0
  PROVE  chat' \in [Chats -> ChatCall] /\ HandOverInv'
<1>1. /\ chat' \in [Chats -> ChatCall]
      /\ \A d \in Chats : chat'[d] = IF d = c THEN next ELSE chat[d]
  BY DEF ChatRows
<1>2. \A d \in Chats : HandOverOK(d)'
  BY <1>1 DEF HandOverInv, HandOverOK, Raised
<1>3. ASSUME NEW t \in TicketNumbers, Raised(t)'
      PROVE  \/ tickets'[t].history \/ chatFaults' > 0
             \/ \E d \in Chats : At(d, "history")' /\ chat'[d].told = t
  <2>1. CASE tickets[t].history \/ chatFaults > 0
    BY <2>1 DEF ChatRows
  <2>2. CASE \E d \in Chats : At(d, "history") /\ chat[d].told = t
    BY <1>1, <2>2 DEF At
  <2> QED
    BY <1>3, <2>1, <2>2 DEF HandOverInv, Raised
<1> QED
  BY <1>1, <1>2, <1>3 DEF HandOverInv, Raised

\* No summary is under way that was not, and none is told.
LEMMA SummariesStay ==
  ASSUME ChatRows, SummaryInv,
         \A v \in Convs : /\ conv'[v].notices = conv[v].notices
                          /\ conv'[v].status = "CLOSED"
                               <=> conv[v].status = "CLOSED",
         UNCHANGED closer
  PROVE  SummaryInv'
BY DEF SummaryInv, SummingUp, Closing

LEMMA RowWrittenByChat ==
  ASSUME ChatRows, NEW v \in Convs, NEW escalated \in BOOLEAN,
         NEW filled \in BOOLEAN, WriteConv(v, escalated, filled)
  PROVE  /\ conv' \in [Convs -> ConvRow]
         /\ \A w \in Convs : /\ conv'[w].notices = conv[w].notices
                             /\ conv'[w].status = "CLOSED"
                                  <=> conv[w].status = "CLOSED"
<1> DEFINE old == conv[v]
           row == [old EXCEPT
             !.status = IF old.status = "none" THEN "OPEN" ELSE old.status,
             !.escalated = old.escalated \/ escalated,
             !.filled = old.filled \/ filled]
<1>1. old \in ConvRow
  BY DEF ChatRows
<1>2. /\ row \in ConvRow /\ row.notices = old.notices
      /\ row.status = "CLOSED" <=> old.status = "CLOSED"
  BY <1>1 DEF ConvRow
<1>3. conv' = [conv EXCEPT ![v] = row]
  BY DEF WriteConv
<1> HIDE DEF row
<1> QED
  BY <1>2, <1>3 DEF ChatRows

\* The row a request writes: the one it has found or a new one.
LEMMA RowOfChat ==
  ASSUME ChatRows, NEW c \in Chats, NEW v \in RowFor(c)
  PROVE  v \in Convs
BY DEF RowFor, First, ChatRows, ChatCall

-----------------------------------------------------------------------------
(***************************************************************************)
(* The requests.                                                           *)
(***************************************************************************)
LEMMA TicketsAreConvs ==
  ASSUME ChatRows, NEW t \in TicketNumbers, Raised(t)
  PROVE  tickets[t].conv \in Convs
BY DEF ChatRows, IssueRow, Raised

\* What a request that goes on has to keep, field by field.
LEMMA Onward ==
  ASSUME ChatRows, HandOverInv, NEW c \in Chats, NEW s \in Positions,
         s \in {"existing", "number"} => chat[c].found \in Convs,
         s \in {"history", "confirm"} => chat[c].told # Null,
         Goto(c, s), UNCHANGED tickets,
         chatFaults' \in Nat, chatFaults <= chatFaults',
         ~At(c, "history") \/ chatFaults' > 0
  PROVE  chat' \in [Chats -> ChatCall] /\ HandOverInv'
<1> DEFINE call == [chat[c] EXCEPT !.at = s]
<1>1. chat[c] \in ChatCall /\ HandOverOK(c)
  BY DEF ChatRows, HandOverInv
<1>2. /\ call \in ChatCall /\ call.at = s
      /\ call.found = chat[c].found /\ call.told = chat[c].told
  BY <1>1 DEF ChatCall
<1>3. chat' = [chat EXCEPT ![c] = call]
  BY DEF Goto
<1> HIDE DEF call
<1> QED
  BY <1>1, <1>2, <1>3, RequestGoesOn DEF HandOverOK

LEMMA Over ==
  ASSUME ChatRows, HandOverInv, NEW c \in Chats, Ends(c), UNCHANGED tickets,
         chatFaults' \in Nat, chatFaults <= chatFaults',
         ~At(c, "history") \/ chatFaults' > 0
  PROVE  chat' \in [Chats -> ChatCall] /\ HandOverInv'
<1>1. /\ Quiet \in ChatCall /\ Quiet.at = "idle" /\ Quiet.told = Null
  BY DEF Quiet, ChatCall, Positions
<1> QED
  BY <1>1, RequestGoesOn DEF Ends

LEMMA ChatTold ==
  ASSUME ChatRows, HandOverInv, NEW c \in Chats, NEW t \in TicketNumbers,
         Raised(t), Told(c, t), ~At(c, "history"),
         UNCHANGED <<tickets, chatFaults>>
  PROVE  chat' \in [Chats -> ChatCall] /\ HandOverInv'
<1> DEFINE call == [chat[c] EXCEPT !.told = t, !.at = "seek"]
<1>1. chat[c] \in ChatCall /\ chatFaults \in Nat
  BY DEF ChatRows
<1>2. call \in ChatCall /\ call.at = "seek" /\ call.told = t
  BY <1>1 DEF ChatCall, Positions
<1>3. Ends(c) \/ chat' = [chat EXCEPT ![c] = call]
  BY DEF Told
<1> HIDE DEF call
<1>4. CASE Ends(c)
  BY <1>1, <1>4, Over
<1>5. CASE chat' = [chat EXCEPT ![c] = call]
  <2>1. call.told # Null => Raised(call.told)
    BY <1>2
  <2>2. chatFaults' \in Nat /\ chatFaults <= chatFaults'
    BY <1>1
  <2> QED
    BY <1>2, <1>5, <2>1, <2>2, RequestGoesOn
<1> QED
  BY <1>3, <1>4, <1>5

LEMMA AskInv ==
  ASSUME AssistantInv, NEW c \in Chats,
         Ask(c) \/ Answer(c) \/ EscalateToAdmin(c) \/ SubmitEscalationEmail(c)
  PROVE  AssistantInv'
<1> USE DEF AssistantInv
<1>1. chatFaults \in Nat /\ UNCHANGED <<conv, tickets, closer, chatFaults>>
  BY DEF ChatRows, Ask, Answer, EscalateToAdmin, SubmitEscalationEmail
<1>2. \/ UNCHANGED chat
      \/ /\ ~At(c, "history")
         /\ \E s \in {"model", "seek", "find"} : Goto(c, s)
  BY DEF Ask, Answer, EscalateToAdmin, SubmitEscalationEmail, At
<1>3. chat' \in [Chats -> ChatCall] /\ HandOverInv'
  <2>1. CASE UNCHANGED chat
    BY <1>1, <2>1 DEF ChatRows, HandOverInv, HandOverOK, Raised, At
  <2>2. ASSUME NEW s \in {"model", "seek", "find"}, ~At(c, "history"),
               Goto(c, s)
        PROVE  chat' \in [Chats -> ChatCall] /\ HandOverInv'
    BY <1>1, <2>2, Onward DEF Positions
  <2> QED
    BY <1>2, <2>1, <2>2
<1>4. SummaryInv'
  BY <1>1, SummariesStay
<1> QED
  BY <1>1, <1>3, <1>4 DEF ChatRows

LEMMA FindOpenInv ==
  ASSUME AssistantInv, NEW c \in Chats, FindOpen(c)
  PROVE  AssistantInv'
<1> USE DEF AssistantInv
<1>1. PICK v \in Convs \cup {Null} :
        chat' = [chat EXCEPT ![c].found = v,
                   ![c].at = IF At(c, "find") THEN "mark" ELSE "record"]
  BY DEF FindOpen, OpenConvs
<1> DEFINE s == IF At(c, "find") THEN "mark" ELSE "record"
           call == [chat[c] EXCEPT !.found = v, !.at = s]
<1>2. chat[c] \in ChatCall /\ HandOverOK(c) /\ chatFaults \in Nat
  BY DEF ChatRows, HandOverInv
<1>3. call \in ChatCall /\ call.at = s /\ call.told = chat[c].told
  BY <1>2 DEF ChatCall, Positions
<1>4. chat' = [chat EXCEPT ![c] = call]
  BY <1>1
<1>5. ~At(c, "history") /\ UNCHANGED <<conv, tickets, closer, chatFaults>>
  BY DEF FindOpen, At
<1>6. s \in {"mark", "record"}
  OBVIOUS
<1> HIDE DEF call, s
<1>7. chat' \in [Chats -> ChatCall] /\ HandOverInv'
  <2>1. call.told # Null => Raised(call.told)
    BY <1>2, <1>3 DEF HandOverOK
  <2>2. chatFaults' \in Nat /\ chatFaults <= chatFaults'
    BY <1>2, <1>5
  <2> QED
    BY <1>3, <1>4, <1>5, <1>6, <2>1, <2>2, RequestGoesOn
<1>8. SummaryInv'
  BY <1>5, SummariesStay
<1> QED
  BY <1>5, <1>7, <1>8 DEF ChatRows

LEMMA ResolveInv ==
  ASSUME AssistantInv, NEW c \in Chats, ResolveConversation(c)
  PROVE  AssistantInv'
<1> USE DEF AssistantInv
<1>1. PICK v \in RowFor(c) :
        /\ WriteConv(v, TRUE, FALSE)
        /\ chat' = [chat EXCEPT ![c].found = v, ![c].at = "existing"]
  BY DEF ResolveConversation
<1>2. v \in Convs
  BY RowOfChat
<1> DEFINE call == [chat[c] EXCEPT !.found = v, !.at = "existing"]
<1>3. chat[c] \in ChatCall /\ HandOverOK(c) /\ chatFaults \in Nat
  BY DEF ChatRows, HandOverInv
<1>4. /\ call \in ChatCall /\ call.at = "existing" /\ call.found = v
      /\ call.told = chat[c].told
  BY <1>2, <1>3 DEF ChatCall, Positions
<1>5. chat' = [chat EXCEPT ![c] = call]
  BY <1>1
<1>6. ~At(c, "history") /\ UNCHANGED <<tickets, closer, chatFaults>>
  BY DEF ResolveConversation, At
<1> HIDE DEF call
<1>7. chat' \in [Chats -> ChatCall] /\ HandOverInv'
  <2>1. call.told # Null => Raised(call.told)
    BY <1>3, <1>4 DEF HandOverOK
  <2>2. chatFaults' \in Nat /\ chatFaults <= chatFaults'
    BY <1>3, <1>6
  <2> QED
    BY <1>2, <1>4, <1>5, <1>6, <2>1, <2>2, RequestGoesOn
<1>8. /\ conv' \in [Convs -> ConvRow]
      /\ \A w \in Convs : /\ conv'[w].notices = conv[w].notices
                          /\ conv'[w].status = "CLOSED"
                               <=> conv[w].status = "CLOSED"
  BY <1>1, <1>2, RowWrittenByChat
<1>9. SummaryInv'
  BY <1>6, <1>8, SummariesStay
<1> QED
  BY <1>6, <1>7, <1>8, <1>9 DEF ChatRows

LEMMA FindExistingInv ==
  ASSUME AssistantInv, NEW c \in Chats, FindExisting(c)
  PROVE  AssistantInv'
<1> USE DEF AssistantInv
<1>1. /\ chatFaults \in Nat /\ ~At(c, "history")
      /\ UNCHANGED <<conv, tickets, closer, chatFaults>>
      /\ chat[c].found \in Convs
  BY DEF ChatRows, FindExisting, At, HandOverInv, HandOverOK
<1>2. chat' \in [Chats -> ChatCall] /\ HandOverInv'
  <2>1. CASE Ends(c)
    BY <1>1, <2>1, Over
  <2>2. CASE Goto(c, "number")
    BY <1>1, <2>2, Onward DEF Positions
  <2>3. CASE AnswerExisting(c)
    BY <1>1, <2>3, ChatTold DEF AnswerExisting, TicketsOf
  <2> QED
    BY <2>1, <2>2, <2>3 DEF FindExisting
<1>3. SummaryInv'
  BY <1>1, SummariesStay
<1> QED
  BY <1>1, <1>2, <1>3 DEF ChatRows

LEMMA CreateTicketInv ==
  ASSUME AssistantInv, NEW c \in Chats, CreateTicket(c)
  PROVE  AssistantInv'
<1> USE DEF AssistantInv
<1>1. /\ chatFaults \in Nat /\ chat[c] \in ChatCall
      /\ ~At(c, "history")
      /\ UNCHANGED <<conv, closer, chatFaults>>
      /\ chat[c].found \in Convs
  BY DEF ChatRows, CreateTicket, At, HandOverInv, HandOverOK
<1>2. SummaryInv'
  BY <1>1, SummariesStay
<1>3. CASE TicketsOf(chat[c].found) # {}
  <2>1. chat' \in [Chats -> ChatCall] /\ HandOverInv' /\ UNCHANGED tickets
    BY <1>1, <1>3, ChatTold DEF CreateTicket, AnswerExisting, TicketsOf
  <2> QED
    BY <1>1, <1>2, <2>1 DEF ChatRows
<1>4. CASE TicketsOf(chat[c].found) = {}
  <2>1. PICK t \in NextTicketNumber :
          /\ tickets' = [tickets EXCEPT ![t].conv = chat[c].found]
          /\ chat' = [chat EXCEPT ![c].told = t, ![c].at = "history"]
    BY <1>4 DEF CreateTicket
  <2>2. t \in TicketNumbers /\ ~Raised(t)
    BY DEF NextTicketNumber, First
  <2> DEFINE call == [chat[c] EXCEPT !.told = t, !.at = "history"]
             row == [tickets[t] EXCEPT !.conv = chat[c].found]
  <2>3. /\ call \in ChatCall /\ call.at = "history" /\ call.told = t
        /\ call.found = chat[c].found
    BY <1>1, <2>2 DEF ChatCall, Positions
  <2>4. row \in IssueRow /\ row.conv = chat[c].found
    BY <1>1, <2>2 DEF ChatRows, IssueRow
  <2>5. /\ chat' = [chat EXCEPT ![c] = call]
        /\ tickets' = [tickets EXCEPT ![t] = row]
    BY <2>1
  <2> HIDE DEF call, row
  <2>6. /\ chat' \in [Chats -> ChatCall]
        /\ tickets' \in [TicketNumbers -> IssueRow]
        /\ \A d \in Chats : chat'[d] = IF d = c THEN call ELSE chat[d]
        /\ \A s \in TicketNumbers :
             tickets'[s] = IF s = t THEN row ELSE tickets[s]
    BY <2>2, <2>3, <2>4, <2>5 DEF ChatRows
  <2>7. chat[c].found # Null
    BY <1>1, AssistantAssumption DEF Convs
  <2>8. /\ Raised(t)'
        /\ \A s \in TicketNumbers \ {t} : Raised(s)' <=> Raised(s)
    BY <2>2, <2>4, <2>6, <2>7 DEF Raised
  <2>9. \A d \in Chats : HandOverOK(d)'
    <3> SUFFICES ASSUME NEW d \in Chats PROVE HandOverOK(d)'
      OBVIOUS
    <3>1. CASE d = c
      BY <2>2, <2>3, <2>6, <2>8, <3>1, AssistantAssumption
      DEF HandOverOK, TicketNumbers
    <3>2. CASE d # c
      <4>1. chat'[d] = chat[d] /\ HandOverOK(d) /\ chat[d] \in ChatCall
        BY <2>6, <3>2 DEF HandOverInv, ChatRows
      <4> QED
        BY <2>2, <2>8, <4>1 DEF HandOverOK, ChatCall
    <3> QED
      BY <3>1, <3>2
  <2>10. ASSUME NEW r \in TicketNumbers, NEW s \in TicketNumbers,
                Raised(r)', Raised(s)', tickets'[r].conv = tickets'[s].conv
         PROVE  r = s
    <3>1. \A u \in TicketNumbers \ {t} : Raised(u) => tickets[u].conv # row.conv
      BY <1>4, <2>4 DEF TicketsOf
    <3> QED
      BY <2>6, <2>8, <2>10, <3>1 DEF HandOverInv
  <2>11. ASSUME NEW s \in TicketNumbers, Raised(s)'
         PROVE  \/ tickets'[s].history \/ chatFaults' > 0
                \/ \E d \in Chats : At(d, "history")' /\ chat'[d].told = s
    <3>1. CASE s = t
      BY <2>3, <2>6, <3>1 DEF At
    <3>2. CASE s # t
      <4>1. Raised(s) /\ tickets'[s] = tickets[s]
        BY <2>6, <2>8, <2>11, <3>2
      <4>2. CASE \E d \in Chats : At(d, "history") /\ chat[d].told = s
        BY <1>1, <2>6, <4>2 DEF At
      <4> QED
        BY <1>1, <4>1, <4>2 DEF HandOverInv
    <3> QED
      BY <3>1, <3>2
  <2>12. HandOverInv'
    BY <2>9, <2>10, <2>11 DEF HandOverInv
  <2> QED
    BY <1>1, <1>2, <2>6, <2>12 DEF ChatRows
<1> QED
  BY <1>3, <1>4

LEMMA TransferInv ==
  ASSUME AssistantInv, NEW c \in Chats, TransferHistory(c)
  PROVE  AssistantInv'
<1> USE DEF AssistantInv
<1> DEFINE t == chat[c].told
           call == [chat[c] EXCEPT !.at = "confirm"]
           row == [tickets[t] EXCEPT !.history = TRUE]
<1>1. /\ chatFaults \in Nat /\ chat[c] \in ChatCall /\ HandOverOK(c)
      /\ UNCHANGED <<conv, closer, chatFaults>>
  BY DEF ChatRows, TransferHistory, HandOverInv
<1>2. t \in TicketNumbers /\ t # Null /\ Raised(t)
  BY <1>1 DEF TransferHistory, At, HandOverOK, ChatCall
<1>3. /\ call \in ChatCall /\ call.at = "confirm" /\ call.told = t
      /\ call.found = chat[c].found
  BY <1>1 DEF ChatCall, Positions
<1>4. row \in IssueRow /\ row.conv = tickets[t].conv /\ row.history
  BY <1>2 DEF ChatRows, IssueRow
<1>5. /\ chat' = [chat EXCEPT ![c] = call]
      /\ tickets' = [tickets EXCEPT ![t] = row]
  BY DEF TransferHistory, Goto
<1> HIDE DEF call, row, t
<1>6. /\ chat' \in [Chats -> ChatCall]
      /\ tickets' \in [TicketNumbers -> IssueRow]
      /\ \A d \in Chats : chat'[d] = IF d = c THEN call ELSE chat[d]
      /\ \A s \in TicketNumbers :
           tickets'[s] = IF s = t THEN row ELSE tickets[s]
  BY <1>2, <1>3, <1>4, <1>5 DEF ChatRows
<1>7. \A s \in TicketNumbers : tickets'[s].conv = tickets[s].conv
  BY <1>4, <1>6
<1>8. \A d \in Chats : HandOverOK(d)'
  <2> SUFFICES ASSUME NEW d \in Chats PROVE HandOverOK(d)'
    OBVIOUS
  <2>1. CASE d = c
    BY <1>2, <1>3, <1>6, <1>7, <2>1 DEF HandOverOK, Raised
  <2>2. CASE d # c
    <3>1. chat'[d] = chat[d] /\ HandOverOK(d) /\ chat[d] \in ChatCall
      BY <1>6, <2>2 DEF HandOverInv, ChatRows
    <3> QED
      BY <1>7, <3>1 DEF HandOverOK, ChatCall, Raised
  <2> QED
    BY <2>1, <2>2
<1>9. ASSUME NEW s \in TicketNumbers, Raised(s)'
      PROVE  \/ tickets'[s].history \/ chatFaults' > 0
             \/ \E d \in Chats : At(d, "history")' /\ chat'[d].told = s
  <2>1. CASE s = t
    BY <1>4, <1>6, <2>1
  <2>2. CASE s # t
    <3>1. Raised(s) /\ tickets'[s] = tickets[s]
      BY <1>6, <1>7, <1>9, <2>2 DEF Raised
    <3>2. CASE \E d \in Chats : At(d, "history") /\ chat[d].told = s
      <4>1. PICK d \in Chats : At(d, "history") /\ chat[d].told = s
        BY <3>2
      <4>2. d # c
        BY <2>2, <4>1 DEF t
      <4> QED
        BY <1>6, <4>1, <4>2 DEF At
    <3> QED
      BY <1>1, <3>1, <3>2 DEF HandOverInv
  <2> QED
    BY <2>1, <2>2
<1>10. HandOverInv'
  BY <1>7, <1>8, <1>9 DEF HandOverInv, Raised
<1>11. SummaryInv'
  BY <1>1, SummariesStay
<1> QED
  BY <1>1, <1>6, <1>10, <1>11 DEF ChatRows

LEMMA ConfirmInv ==
  ASSUME AssistantInv, NEW c \in Chats, SendConfirmation(c)
  PROVE  AssistantInv'
<1> USE DEF AssistantInv
<1>1. /\ chat[c] \in ChatCall /\ HandOverOK(c) /\ ~At(c, "history")
      /\ UNCHANGED <<conv, tickets, closer, chatFaults>>
  BY DEF ChatRows, SendConfirmation, HandOverInv, At
<1>2. chat[c].told \in TicketNumbers /\ Raised(chat[c].told)
  BY <1>1 DEF SendConfirmation, At, HandOverOK, ChatCall
<1>3. chat' \in [Chats -> ChatCall] /\ HandOverInv'
  BY <1>1, <1>2, ChatTold DEF SendConfirmation
<1>4. SummaryInv'
  BY <1>1, SummariesStay
<1> QED
  BY <1>1, <1>3, <1>4 DEF ChatRows

LEMMA PersistInv ==
  ASSUME AssistantInv, NEW c \in Chats, PersistExchange(c)
  PROVE  AssistantInv'
<1> USE DEF AssistantInv
<1>1. PICK v \in RowFor(c) : WriteConv(v, FALSE, TRUE)
  BY DEF PersistExchange
<1>2. v \in Convs
  BY RowOfChat
<1>3. /\ conv' \in [Convs -> ConvRow]
      /\ \A w \in Convs : /\ conv'[w].notices = conv[w].notices
                          /\ conv'[w].status = "CLOSED"
                               <=> conv[w].status = "CLOSED"
  BY <1>1, <1>2, RowWrittenByChat
<1>4. /\ chatFaults \in Nat /\ ~At(c, "history") /\ Ends(c)
      /\ UNCHANGED <<tickets, closer, chatFaults>>
  BY DEF ChatRows, PersistExchange, At
<1>5. chat' \in [Chats -> ChatCall] /\ HandOverInv'
  BY <1>4, Over
<1>6. SummaryInv'
  BY <1>3, <1>4, SummariesStay
<1> QED
  BY <1>3, <1>4, <1>5, <1>6 DEF ChatRows

LEMMA ChatFailsInv ==
  ASSUME AssistantInv, NEW c \in Chats, ChatFails(c)
  PROVE  AssistantInv'
<1> USE DEF AssistantInv
<1>1. /\ chatFaults \in Nat /\ chatFaults' = chatFaults + 1
      /\ UNCHANGED <<conv, tickets, closer>>
      /\ Ends(c) \/ Goto(c, "seek")
  BY DEF ChatRows, ChatFails
<1>2. chatFaults' \in Nat /\ chatFaults <= chatFaults' /\ chatFaults' > 0
  BY <1>1
<1>3. chat' \in [Chats -> ChatCall] /\ HandOverInv'
  BY <1>1, <1>2, Over, Onward DEF Positions
<1>4. SummaryInv'
  BY <1>1, SummariesStay
<1> QED
  BY <1>1, <1>2, <1>3, <1>4 DEF ChatRows

LEMMA BackendRestartsInv ==
  ASSUME AssistantInv, BackendRestarts
  PROVE  AssistantInv'
<1> USE DEF AssistantInv
<1>1. /\ chatFaults \in Nat /\ chatFaults' = chatFaults + 1
      /\ UNCHANGED <<conv, tickets>>
      /\ chat' = [c \in Chats |-> Quiet]
      /\ closer' = [k \in Closers |-> Null]
  BY DEF ChatRows, BackendRestarts
<1>2. chatFaults' \in Nat /\ chatFaults' > 0
  BY <1>1
<1>3. ChatRows'
  BY <1>1, <1>2 DEF ChatRows, ChatCall, Positions, Quiet
<1>4. HandOverInv'
  BY <1>1, <1>2 DEF HandOverInv, HandOverOK, Quiet, Raised
<1>5. SummaryInv'
  BY <1>1 DEF SummaryInv, SummingUp, Closing
<1> QED
  BY <1>3, <1>4, <1>5

-----------------------------------------------------------------------------
(***************************************************************************)
(* The closing runs.                                                       *)
(***************************************************************************)
\* The requests and the tickets do not notice a closing run.
LEMMA HandOverStays ==
  ASSUME ChatRows, HandOverInv, UNCHANGED <<tickets, chat>>,
         chatFaults' \in Nat, chatFaults <= chatFaults'
  PROVE  HandOverInv'
<1>1. \A c \in Chats : HandOverOK(c)'
  BY DEF HandOverInv, HandOverOK, Raised
<1> QED
  BY <1>1 DEF HandOverInv, Raised, At, ChatRows

\* A run that sums nothing up.
LEMMA RunWaits ==
  ASSUME ChatRows, SummaryInv, NEW k \in Closers,
         NEW r \in ClosingRun \cup {Null},
         r = Null \/ r.at = "claim",
         closer' = [closer EXCEPT ![k] = r],
         \A v \in Convs : conv'[v].status = conv[v].status,
         \A v \in Convs :
           \/ conv'[v].notices = conv[v].notices
           \/ /\ SummingUp(k) /\ v = closer[k].conv
              /\ conv'[v].notices = conv[v].notices + 1
  PROVE  closer' \in [Closers -> ClosingRun \cup {Null}] /\ SummaryInv'
<1>1. /\ closer' \in [Closers -> ClosingRun \cup {Null}]
      /\ \A l \in Closers : closer'[l] = IF l = k THEN r ELSE closer[l]
  BY DEF ChatRows
<1>2. \A l \in Closers : SummingUp(l)' =>
        l # k /\ SummingUp(l) /\ closer'[l] = closer[l]
  BY <1>1 DEF SummingUp, Closing
<1>3. \A v \in Convs : conv'[v].notices <= 1
  BY DEF SummaryInv
<1>4. \A v \in Convs : conv'[v].status # "CLOSED" => conv'[v].notices = 0
  BY DEF SummaryInv
<1>5. ASSUME NEW l \in Closers, SummingUp(l)'
      PROVE  /\ closer'[l].conv \in Convs
             /\ conv'[closer'[l].conv].status = "CLOSED"
             /\ conv'[closer'[l].conv].notices = 0
  BY <1>2, <1>5 DEF SummaryInv
<1>6. \A l, m \in Closers :
        SummingUp(l)' /\ SummingUp(m)' /\ closer'[l].conv = closer'[m].conv
          => l = m
  BY <1>2 DEF SummaryInv
<1> QED
  BY <1>1, <1>3, <1>4, <1>5, <1>6 DEF SummaryInv

LEMMA NextConvIsWaiting ==
  ASSUME ChatRows, NEW k \in Closers, closer[k] # Null, NextConv(k)
  PROVE  \E r \in ClosingRun \cup {Null} :
           /\ r = Null \/ r.at = "claim"
           /\ closer' = [closer EXCEPT ![k] = r]
<1> DEFINE run == closer[k]
           next == [run EXCEPT !.conv = Null, !.at = "claim"]
           r == IF run.todo = {} THEN Null ELSE next
<1>1. run \in ClosingRun
  BY DEF ChatRows
<1>2. next \in ClosingRun /\ next.at = "claim"
  BY <1>1 DEF ClosingRun
<1>3. closer' = [closer EXCEPT ![k] = r]
  BY DEF NextConv
<1> HIDE DEF next
<1> QED
  BY <1>2, <1>3

\* A run drops a conversation from its list.
LEMMA DroppedIsWaiting ==
  ASSUME ChatRows, NEW k \in Closers, Closing(k, "claim"), NEW v \in Convs,
         PassOver(k, v)
  PROVE  \E r \in ClosingRun \cup {Null} :
           /\ r = Null \/ r.at = "claim"
           /\ closer' = [closer EXCEPT ![k] = r]
<1> DEFINE run == closer[k]
           rest == [run EXCEPT !.todo = run.todo \ {v}]
           r == IF run.todo \ {v} = {} THEN Null ELSE rest
<1>1. run \in ClosingRun /\ run.at = "claim"
  BY DEF ChatRows, Closing
<1>2. rest \in ClosingRun /\ rest.at = "claim"
  BY <1>1 DEF ClosingRun
<1>3. closer' = [closer EXCEPT ![k] = r]
  BY DEF PassOver
<1> HIDE DEF rest
<1> QED
  BY <1>2, <1>3

LEMMA CloseIdleInv ==
  ASSUME AssistantInv, NEW k \in Closers, CloseIdleConversations(k)
  PROVE  AssistantInv'
<1> USE DEF AssistantInv
<1>1. /\ chatFaults \in Nat
      /\ UNCHANGED <<conv, tickets, chat, chatFaults>>
  BY DEF ChatRows, CloseIdleConversations
<1>2. PICK S \in SUBSET OpenConvs :
        closer' = [closer EXCEPT ![k] =
                     [todo |-> S, conv |-> Null, at |-> "claim"]]
  BY DEF CloseIdleConversations
<1>3. [todo |-> S, conv |-> Null, at |-> "claim"] \in ClosingRun
  BY DEF OpenConvs, ClosingRun
<1>4. closer' \in [Closers -> ClosingRun \cup {Null}] /\ SummaryInv'
  BY <1>1, <1>2, <1>3, RunWaits
<1>5. HandOverInv'
  BY <1>1, HandOverStays
<1> QED
  BY <1>1, <1>4, <1>5 DEF ChatRows

LEMMA CloseOneInv ==
  ASSUME AssistantInv, NEW k \in Closers, CloseOne(k)
  PROVE  AssistantInv'
<1> USE DEF AssistantInv
<1>1. /\ chatFaults \in Nat
      /\ UNCHANGED <<tickets, chat, chatFaults>>
      /\ Closing(k, "claim") /\ closer[k] \in ClosingRun
  BY DEF ChatRows, CloseOne, Closing
<1>2. HandOverInv'
  BY <1>1, HandOverStays
<1>3. PICK v \in closer[k].todo :
        IF conv[v].status = "OPEN"
        THEN /\ conv' = [conv EXCEPT ![v].status = "CLOSED"]
             /\ closer' = [closer EXCEPT ![k] =
                  [todo |-> @.todo \ {v}, conv |-> v, at |-> "summary"]]
        ELSE PassOver(k, v) /\ UNCHANGED conv
  BY DEF CloseOne
<1>4. v \in Convs
  BY <1>1 DEF ClosingRun
<1>5. CASE conv[v].status # "OPEN"
  <2>1. PICK r \in ClosingRun \cup {Null} :
          /\ r = Null \/ r.at = "claim"
          /\ closer' = [closer EXCEPT ![k] = r]
    BY <1>1, <1>3, <1>4, <1>5, DroppedIsWaiting
  <2>2. closer' \in [Closers -> ClosingRun \cup {Null}] /\ SummaryInv'
    BY <1>3, <1>5, <2>1, RunWaits
  <2> QED
    BY <1>1, <1>2, <1>3, <1>5, <2>2 DEF ChatRows
<1>6. CASE conv[v].status = "OPEN"
  <2> DEFINE r == [todo |-> closer[k].todo \ {v}, conv |-> v, at |-> "summary"]
             row == [conv[v] EXCEPT !.status = "CLOSED"]
  <2>1. r \in ClosingRun /\ r.conv = v /\ r.at = "summary"
    BY <1>1, <1>4 DEF ClosingRun
  <2>2. /\ row \in ConvRow /\ row.notices = conv[v].notices
        /\ row.status = "CLOSED"
    BY <1>4 DEF ChatRows, ConvRow
  <2>3. closer' = [closer EXCEPT ![k] = r] /\ conv' = [conv EXCEPT ![v] = row]
    BY <1>3, <1>6
  <2> HIDE DEF r, row
  <2>4. /\ closer' \in [Closers -> ClosingRun \cup {Null}]
        /\ conv' \in [Convs -> ConvRow]
        /\ \A l \in Closers : closer'[l] = IF l = k THEN r ELSE closer[l]
        /\ \A w \in Convs : conv'[w] = IF w = v THEN row ELSE conv[w]
    BY <1>4, <2>1, <2>2, <2>3 DEF ChatRows
  <2>5. conv[v].notices = 0
    BY <1>4, <1>6 DEF SummaryInv
  <2>6. \A l \in Closers : SummingUp(l)' /\ l # k =>
          /\ SummingUp(l) /\ closer'[l] = closer[l]
          /\ closer[l].conv \in Convs /\ closer[l].conv # v
    BY <1>6, <2>4 DEF SummaryInv, SummingUp, Closing
  <2>7. \A w \in Convs : conv'[w].notices = conv[w].notices
    BY <2>2, <2>4
  <2>8. closer'[k] = r
    BY <2>4
  <2>9. ASSUME NEW l \in Closers, SummingUp(l)'
        PROVE  /\ closer'[l].conv \in Convs
               /\ conv'[closer'[l].conv].status = "CLOSED"
               /\ conv'[closer'[l].conv].notices = 0
    <3>1. CASE l = k
      BY <1>4, <2>1, <2>2, <2>4, <2>5, <2>8, <3>1
    <3>2. CASE l # k
      BY <2>4, <2>6, <2>9, <3>2 DEF SummaryInv
    <3> QED
      BY <3>1, <3>2
  <2>10. \A l, m \in Closers :
           SummingUp(l)' /\ SummingUp(m)' /\ closer'[l].conv = closer'[m].conv
             => l = m
    BY <2>1, <2>6, <2>8 DEF SummaryInv
  <2>11. \A w \in Convs : /\ conv'[w].notices <= 1
                          /\ conv'[w].status # "CLOSED" => conv'[w].notices = 0
    BY <2>2, <2>4, <2>7 DEF SummaryInv
  <2>12. SummaryInv'
    BY <2>9, <2>10, <2>11 DEF SummaryInv
  <2> QED
    BY <1>1, <1>2, <2>4, <2>12 DEF ChatRows
<1> QED
  BY <1>5, <1>6

LEMMA SummarizeInv ==
  ASSUME AssistantInv, NEW k \in Closers, Summarize(k)
  PROVE  AssistantInv'
<1> USE DEF AssistantInv
<1> DEFINE v == closer[k].conv
<1>1. /\ chatFaults \in Nat
      /\ UNCHANGED <<tickets, chat, chatFaults>>
      /\ closer[k] # Null /\ closer[k] \in ClosingRun
      /\ SummingUp(k) /\ v \in Convs
  BY DEF ChatRows, Summarize, Closing, SummingUp, SummaryInv
<1>2. HandOverInv'
  BY <1>1, HandOverStays
<1>3. PICK escalated \in BOOLEAN :
        conv' = [conv EXCEPT ![v].escalated = escalated]
  BY DEF Summarize, Verdicts
<1> DEFINE row == [conv[v] EXCEPT !.escalated = escalated]
<1>4. /\ row \in ConvRow /\ row.notices = conv[v].notices
      /\ row.status = conv[v].status
  BY <1>1 DEF ChatRows, ConvRow
<1>5. conv' = [conv EXCEPT ![v] = row]
  BY <1>3
<1> HIDE DEF row, v
<1>6. /\ conv' \in [Convs -> ConvRow]
      /\ \A w \in Convs : /\ conv'[w].notices = conv[w].notices
                          /\ conv'[w].status = conv[w].status
  BY <1>1, <1>4, <1>5 DEF ChatRows
<1>7. CASE NextConv(k)
  <2>1. PICK r \in ClosingRun \cup {Null} :
          /\ r = Null \/ r.at = "claim"
          /\ closer' = [closer EXCEPT ![k] = r]
    BY <1>1, <1>7, NextConvIsWaiting
  <2>2. closer' \in [Closers -> ClosingRun \cup {Null}] /\ SummaryInv'
    BY <1>6, <2>1, RunWaits
  <2> QED
    BY <1>1, <1>2, <1>6, <2>2 DEF ChatRows
<1>8. CASE closer' = [closer EXCEPT ![k].at = "notify"]
  <2> DEFINE r == [closer[k] EXCEPT !.at = "notify"]
  <2>1. r \in ClosingRun /\ r.conv = closer[k].conv /\ r.at = "notify"
    BY <1>1 DEF ClosingRun
  <2>2. closer' = [closer EXCEPT ![k] = r]
    BY <1>8
  <2> HIDE DEF r
  <2>3. /\ closer' \in [Closers -> ClosingRun \cup {Null}]
        /\ \A l \in Closers : closer'[l] = IF l = k THEN r ELSE closer[l]
    BY <2>1, <2>2 DEF ChatRows
  <2>4. \A l \in Closers : SummingUp(l)' =>
          SummingUp(l) /\ closer'[l].conv = closer[l].conv
    BY <1>1, <2>1, <2>3 DEF SummingUp, Closing
  <2>5. SummaryInv'
    BY <1>6, <2>4 DEF SummaryInv
  <2> QED
    BY <1>1, <1>2, <1>6, <2>3, <2>5 DEF ChatRows
<1> QED
  BY <1>7, <1>8 DEF Summarize

LEMMA NotifyInv ==
  ASSUME AssistantInv, NEW k \in Closers, Notify(k)
  PROVE  AssistantInv'
<1> USE DEF AssistantInv
<1> DEFINE v == closer[k].conv
<1>1. /\ chatFaults \in Nat
      /\ UNCHANGED <<tickets, chat, chatFaults>>
      /\ closer[k] # Null
      /\ SummingUp(k) /\ v \in Convs
      /\ NextConv(k)
  BY DEF ChatRows, Notify, Closing, SummingUp, SummaryInv
<1>2. HandOverInv'
  BY <1>1, HandOverStays
<1> DEFINE row == [conv[v] EXCEPT !.notices = conv[v].notices + 1]
<1>3. /\ row \in ConvRow /\ row.notices = conv[v].notices + 1
      /\ row.status = conv[v].status
  BY <1>1 DEF ChatRows, ConvRow
<1>4. conv' = [conv EXCEPT ![v] = row]
  BY DEF Notify
<1> HIDE DEF row
<1>5. /\ conv' \in [Convs -> ConvRow]
      /\ \A w \in Convs : conv'[w].status = conv[w].status
      /\ \A w \in Convs :
           \/ conv'[w].notices = conv[w].notices
           \/ /\ SummingUp(k) /\ w = closer[k].conv
              /\ conv'[w].notices = conv[w].notices + 1
  BY <1>1, <1>3, <1>4 DEF ChatRows
<1>6. PICK r \in ClosingRun \cup {Null} :
        /\ r = Null \/ r.at = "claim"
        /\ closer' = [closer EXCEPT ![k] = r]
  BY <1>1, NextConvIsWaiting
<1>7. closer' \in [Closers -> ClosingRun \cup {Null}] /\ SummaryInv'
  BY <1>5, <1>6, RunWaits
<1> QED
  BY <1>1, <1>2, <1>5, <1>7 DEF ChatRows

LEMMA CloseFailsInv ==
  ASSUME AssistantInv, NEW k \in Closers, CloseFails(k)
  PROVE  AssistantInv'
<1> USE DEF AssistantInv
<1>1. /\ chatFaults \in Nat /\ chatFaults' = chatFaults + 1
      /\ UNCHANGED <<conv, tickets, chat>>
      /\ closer[k] # Null /\ closer[k] \in ClosingRun
  BY DEF ChatRows, CloseFails
<1>2. chatFaults' \in Nat /\ chatFaults <= chatFaults'
  BY <1>1
<1>3. HandOverInv'
  BY <1>1, <1>2, HandOverStays
<1>4. PICK r \in ClosingRun \cup {Null} :
        /\ r = Null \/ r.at = "claim"
        /\ closer' = [closer EXCEPT ![k] = r]
  <2>1. CASE closer[k].at = "claim"
    <3>1. PICK v \in closer[k].todo : PassOver(k, v)
      BY <2>1 DEF CloseFails
    <3>2. v \in Convs /\ Closing(k, "claim")
      BY <1>1, <2>1 DEF ClosingRun, Closing
    <3> QED
      BY <3>1, <3>2, DroppedIsWaiting
  <2>2. CASE closer[k].at # "claim"
    BY <1>1, <2>2, NextConvIsWaiting DEF CloseFails
  <2> QED
    BY <2>1, <2>2
<1>5. closer' \in [Closers -> ClosingRun \cup {Null}] /\ SummaryInv'
  BY <1>1, <1>4, RunWaits
<1> QED
  BY <1>1, <1>2, <1>3, <1>5 DEF ChatRows

LEMMA AssistantStepInv ==
  AssistantInv /\ [AssistantNext]_assistantVars => AssistantInv'
<1> SUFFICES ASSUME AssistantInv, [AssistantNext]_assistantVars
             PROVE  AssistantInv'
  OBVIOUS
<1>1. CASE UNCHANGED assistantVars
  <2>1. ChatRows'
    BY <1>1 DEF assistantVars, AssistantInv, ChatRows
  <2>2. HandOverInv'
    BY <1>1, HandOverStays DEF assistantVars, AssistantInv, ChatRows
  <2>3. SummaryInv'
    BY <1>1, SummariesStay DEF assistantVars, AssistantInv
  <2> QED
    BY <2>1, <2>2, <2>3 DEF AssistantInv
<1>2. ASSUME NEW c \in Chats, ChatStep(c)
      PROVE  AssistantInv'
  BY <1>2, AskInv, FindOpenInv, ResolveInv, FindExistingInv, CreateTicketInv,
     TransferInv, ConfirmInv, PersistInv, ChatFailsInv DEF ChatStep
<1>3. ASSUME NEW k \in Closers, CloserStep(k)
      PROVE  AssistantInv'
  BY <1>3, CloseIdleInv, CloseOneInv, SummarizeInv, NotifyInv, CloseFailsInv
  DEF CloserStep
<1>4. CASE BackendRestarts
  BY <1>4, BackendRestartsInv
<1> QED
  BY <1>1, <1>2, <1>3, <1>4 DEF AssistantNext

\* However requests of a chat and runs of the closing cron overlap, fail and
\* are cut off (HelpdeskEscalationService.escalate, closeOne), a conversation
\* has one support ticket, one summary, and a history that is not lost.
THEOREM ConversationHandedOverOnce == AssistantSpec => []HandedOverOnce
<1>1. AssistantInv => HandedOverOnce
  <2> SUFFICES ASSUME AssistantInv PROVE HandedOverOnce
    OBVIOUS
  <2>1. ASSUME NEW v \in Convs PROVE Cardinality(TicketsOf(v)) <= 1
    <3>1. CASE TicketsOf(v) = {}
      BY <3>1, FS_EmptySet
    <3>2. ASSUME NEW t \in TicketsOf(v) PROVE Cardinality(TicketsOf(v)) <= 1
      <4>1. TicketsOf(v) = {t}
        BY DEF TicketsOf, AssistantInv, HandOverInv
      <4>2. Cardinality({t}) = 1
        BY FS_Singleton
      <4> QED
        BY <4>1, <4>2
    <3> QED
      BY <3>1, <3>2
  <2> QED
    BY <2>1 DEF HandedOverOnce, AssistantInv, HandOverInv, HandOverOK,
                SummaryInv
<1> QED
  BY <1>1, AssistantInitInv, AssistantStepInv, PTL DEF AssistantSpec

=============================================================================
