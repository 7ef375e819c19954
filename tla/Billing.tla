------------------------------- MODULE Billing ------------------------------
(***************************************************************************)
(* Invoices to the organizers: the statement of what is owed for an ended  *)
(* event or month (BillingService), the crons that draft an invoice for it *)
(* (BillingSchedulerService), and the clerks' pages, whose calls check the *)
(* status of an invoice and then write it by id (InvoiceService).  One     *)
(* year of invoice numbers; amounts are units: one of commission for a     *)
(* paid order, one of fee for a refunded ticket, and the custom lines.     *)
(***************************************************************************)
EXTENDS Naturals, FiniteSets

CONSTANTS
  Events,     \* termins of organizers who are billed per event
  Months,     \* months of organizers who are billed per month
  Invoices,   \* Invoice ids: a bound on the invoices ever drafted
  Clerks,     \* sessions of SUPERADMIN or STAFF
  Runs,       \* runs of the crons, or by the clerks' button
  AutoSend,   \* BILLING_AUTO_SEND
  Alone,      \* whether calls on one invoice, and runs, never overlap
  MaxCustom,  \* bound: units of custom lines
  MaxFaults,  \* bound: failures of database or mail server, restarts
  None        \* null

ASSUME BillingAssumption ==
  /\ AutoSend \in BOOLEAN /\ Alone \in BOOLEAN
  /\ {MaxCustom, MaxFaults} \subseteq Nat
  /\ Events \cap Months = {} /\ Clerks \cap Runs = {}
  /\ None \notin Nat \cup Events \cup Months \cup Invoices
  /\ None \notin [number: Nat, total: Nat]
  /\ None \notin [inv: Invoices, at: {"sum", "total"}, read: Nat \cup {None}]

VARIABLES
  books,   \* orders of each event or month: [over, paid, back]
  inv,     \* Invoice rows with their lines, and what was mailed (history)
  call,    \* the InvoiceService call of each session and run, or None
  page,    \* the invoice a clerk's page shows, and its status there, or None
  run,     \* the runs: [todo, at], or None
  cut,     \* invoices whose edit was broken off before its total (history)
  faults   \* failures so far

vars == <<books, inv, call, page, run, cut, faults>>

Scopes == Events \cup Months
Workers == Clerks \cup Runs
NoLines == [commission |-> 0, fees |-> 0, custom |-> 0]

Init ==
  /\ books \in [Scopes -> [over: {FALSE}, paid: {0, 1}, back: {0}]]
  /\ inv = [i \in Invoices |->
       [status |-> "none", scope |-> None, auto |-> FALSE, lines |-> NoLines,
        total |-> 0, number |-> None, mailed |-> None]]
  /\ call = [w \in Workers |-> None]
  /\ page = [c \in Clerks |-> None]
  /\ run = [r \in Runs |-> None]
  /\ cut = {}
  /\ faults = 0

Exists(i) == inv[i].status \notin {"none", "deleted"}
Sum(l) == l.commission + l.fees + l.custom
InvoicesOf(t) == {i \in Invoices : Exists(i) /\ inv[i].scope = t}
Numbers == {inv[i].number : i \in {j \in Invoices : Exists(j)}} \ {None}

(***************************************************************************)
(* What is owed: PAID orders, and tickets of paid orders that went back.   *)
(***************************************************************************)
ScopeEnds(t) ==
  /\ ~books[t].over
  /\ books' = [books EXCEPT ![t].over = TRUE]
  /\ UNCHANGED <<inv, call, page, run, cut, faults>>

RefundOrder(t) ==
  /\ books[t].paid = 1
  /\ books' = [books EXCEPT ![t].paid = 0, ![t].back = 1]
  /\ UNCHANGED <<inv, call, page, run, cut, faults>>

ComputeStatement(t) ==
  [commission |-> books[t].paid, fees |-> books[t].back, custom |-> 0]

NothingToBill(t) == books[t].paid = 0 /\ books[t].back = 0

\* The row and its lines in one statement.
CreateDraft(i, t, auto) ==
  /\ inv[i].status = "none"
  /\ LET l == ComputeStatement(t)
     IN inv' = [inv EXCEPT ![i] = [@ EXCEPT !.status = "DRAFT", !.scope = t,
                  !.auto = auto, !.lines = l, !.total = Sum(l)]]

(***************************************************************************)
(* The clerks' pages.                                                      *)
(***************************************************************************)
CreateInvoice(c, i, t) ==
  /\ call[c] = None /\ books[t].over
  /\ CreateDraft(i, t, FALSE)
  /\ page' = [page EXCEPT ![c] = [inv |-> i, shown |-> "DRAFT"]]
  /\ UNCHANGED <<books, call, run, cut, faults>>

OpenInvoice(c, i) ==
  /\ call[c] = None /\ Exists(i)
  /\ page' = [page EXCEPT ![c] = [inv |-> i, shown |-> inv[i].status]]
  /\ UNCHANGED <<books, inv, call, run, cut, faults>>

Untouched(i) == \A w \in Workers : call[w] # None => call[w].inv # i

\* A call on an invoice: the status is read, and the call goes on from step
\* `at` if it is one of `need`.
Begins(w, i, need, at) ==
  /\ call[w] = None /\ Exists(i) /\ inv[i].status \in need
  /\ Alone => Untouched(i)
  /\ call' = [call EXCEPT ![w] = [inv |-> i, at |-> at, read |-> None]]

\* A button of the invoice page: the call checks the status in the database
\* (`need`), the page offered the button on the status it shows.
Clicks(c, need, at) ==
  /\ Begins(c, page[c].inv, need, at)
  /\ UNCHANGED <<books, inv, page, run, cut, faults>>

Final == {"FINALIZED", "SENT", "PAID"}

IsDraft(c) == page[c] # None /\ page[c].shown = "DRAFT"
CanSend(c) == page[c] # None /\ page[c].shown = "FINALIZED"
Lifecycle(c) == page[c] # None /\ page[c].shown # "DRAFT"

\* (mutant: the line is edited without assertDraft)
EditAnyLine(c) == IsDraft(c) /\ Clicks(c, {"DRAFT"} \cup Final, "line")

EditLine(c) == IsDraft(c) /\ Clicks(c, {"DRAFT"}, "line")

\* (mutant: the row is deleted without assertDraft)
DeleteAnyInvoice(c) == IsDraft(c) /\ Clicks(c, {"DRAFT"} \cup Final, "delete")

DeleteInvoice(c) == IsDraft(c) /\ Clicks(c, {"DRAFT"}, "delete")
FinalizeInvoice(c) == IsDraft(c) /\ Clicks(c, {"DRAFT"}, "number")
SendInvoice(c) == CanSend(c) /\ Clicks(c, Final, "mail")
MarkPaid(c) ==
  Lifecycle(c) /\ page[c].shown # "PAID" /\ Clicks(c, Final, "paid")

Button(c) ==
  EditLine(c) \/ DeleteInvoice(c) \/ FinalizeInvoice(c) \/ SendInvoice(c)
    \/ MarkPaid(c)

(***************************************************************************)
(* The rest of the calls, each step a statement.                           *)
(***************************************************************************)
At(w, s) == call[w] # None /\ call[w].at = s
Goto(w, s) == call' = [call EXCEPT ![w].at = s]
End(w) == call' = [call EXCEPT ![w] = None]

\* The page shows the invoice as it is after the call.
Shows(w, status) ==
  page' = IF w \in Clerks THEN [page EXCEPT ![w].shown = status] ELSE page

\* A CUSTOM line is added, changed or deleted.
WriteLine(w) ==
  LET i == call[w].inv IN
  /\ At(w, "line") /\ Exists(i)
  /\ \E k \in 0..MaxCustom \ {inv[i].lines.custom} :
       inv' = [inv EXCEPT ![i].lines.custom = k]
  /\ Goto(w, "sum")
  /\ UNCHANGED <<books, page, run, cut, faults>>

RecomputeTotals(w) ==
  /\ At(w, "sum")
  /\ call' = [call EXCEPT ![w].at = "total",
                          ![w].read = Sum(inv[call[w].inv].lines)]
  /\ UNCHANGED <<books, inv, page, run, cut, faults>>

SetTotal(w) ==
  LET i == call[w].inv IN
  /\ At(w, "total") /\ Exists(i)
  /\ inv' = [inv EXCEPT ![i].total = call[w].read]
  /\ End(w) /\ Shows(w, inv[i].status)
  /\ UNCHANGED <<books, run, cut, faults>>

DeleteRow(w) ==
  LET i == call[w].inv IN
  /\ At(w, "delete") /\ Exists(i)
  /\ inv' = [inv EXCEPT ![i].status = "deleted"]
  /\ End(w)
  /\ page' = [page EXCEPT ![w] = None]
  /\ UNCHANGED <<books, run, cut, faults>>

Highest == CHOOSE n \in Numbers \cup {0} : \A k \in Numbers : k <= n

NextNumber(w) ==
  /\ At(w, "number")
  /\ call' = [call EXCEPT ![w].at = "assign", ![w].read = Highest + 1]
  /\ UNCHANGED <<books, inv, page, run, cut, faults>>

\* (mutant: the number is not unique)
FinalizeUnchecked(w) ==
  LET i == call[w].inv IN
  /\ At(w, "assign") /\ Exists(i)
  /\ inv' = [inv EXCEPT ![i].status = "FINALIZED", ![i].number = call[w].read]
  /\ IF w \in Runs THEN Goto(w, "mail") ELSE End(w)
  /\ Shows(w, "FINALIZED")
  /\ UNCHANGED <<books, run, cut, faults>>

\* The number is unique: a collision takes the next highest.
Finalize(w) ==
  LET i == call[w].inv IN
  /\ At(w, "assign") /\ Exists(i)
  /\ IF call[w].read \in Numbers \ {inv[i].number}
     THEN Goto(w, "number") /\ UNCHANGED <<inv, page>>
     ELSE /\ inv' = [inv EXCEPT ![i].status = "FINALIZED",
                                ![i].number = call[w].read]
          /\ IF w \in Runs THEN Goto(w, "mail") ELSE End(w)
          /\ Shows(w, "FINALIZED")
  /\ UNCHANGED <<books, run, cut, faults>>

Mail(w) ==
  LET i == call[w].inv IN
  /\ At(w, "mail")
  /\ inv' = [inv EXCEPT ![i].mailed = [number |-> inv[i].number,
                                       total |-> inv[i].total]]
  /\ Goto(w, "sent")
  /\ UNCHANGED <<books, page, run, cut, faults>>

SetStatus(w, s, status) ==
  LET i == call[w].inv IN
  /\ At(w, s) /\ Exists(i)
  /\ inv' = [inv EXCEPT ![i].status = status]
  /\ End(w) /\ Shows(w, status)
  /\ UNCHANGED <<books, run, cut, faults>>

SetSent(w) == SetStatus(w, "sent", "SENT")
SetPaid(w) == SetStatus(w, "paid", "PAID")

Broken(w) == IF At(w, "sum") \/ At(w, "total") THEN {call[w].inv} ELSE {}

\* The database or the mail server fails, or the row is gone; the page keeps
\* what it showed.
CallFails(w) ==
  /\ call[w] # None
  /\ Exists(call[w].inv) => faults < MaxFaults
  /\ faults' = IF Exists(call[w].inv) THEN faults + 1 ELSE faults
  /\ cut' = cut \cup Broken(w)
  /\ End(w)
  /\ UNCHANGED <<books, inv, page, run>>

Step(w) ==
  \/ WriteLine(w) \/ RecomputeTotals(w) \/ SetTotal(w) \/ DeleteRow(w)
  \/ NextNumber(w) \/ Finalize(w) \/ Mail(w) \/ SetSent(w) \/ SetPaid(w)
  \/ CallFails(w)

(***************************************************************************)
(* The runs: events without an invoice are listed once, months are looked  *)
(* up one by one; each is drafted and, when so configured, finalized and   *)
(* sent.                                                                   *)
(***************************************************************************)
Due(kind) ==
  {t \in kind : books[t].over /\ (t \in Events => InvoicesOf(t) = {})}

RunAuto(r) ==
  /\ run[r] = None /\ (Alone => \A q \in Runs : run[q] = None)
  /\ \E kind \in {Events, Months} :
       run' = [run EXCEPT ![r] = [todo |-> Due(kind), at |-> None]]
  /\ UNCHANGED <<books, inv, call, page, cut, faults>>

Idle(r) == run[r] # None /\ run[r].at = None /\ call[r] = None

\* (mutant: a month is drafted whether or not it has an invoice)
AlreadyBilledEvent(t) == t \in Events /\ InvoicesOf(t) # {}

AlreadyBilled(t) == t \in Months /\ InvoicesOf(t) # {}

Consider(r, t) ==
  /\ Idle(r) /\ t \in run[r].todo
  /\ run' = [run EXCEPT ![r] = [todo |-> run[r].todo \ {t},
               at |-> IF AlreadyBilled(t) \/ NothingToBill(t)
                      THEN None ELSE t]]
  /\ UNCHANGED <<books, inv, call, page, cut, faults>>

Draft(r, i) ==
  /\ run[r] # None /\ run[r].at # None
  /\ CreateDraft(i, run[r].at, TRUE)
  /\ run' = [run EXCEPT ![r].at = None]
  /\ call' = IF AutoSend
             THEN [call EXCEPT ![r] = [inv |-> i, at |-> "number",
                                       read |-> None]]
             ELSE call
  /\ UNCHANGED <<books, page, cut, faults>>

\* Caught and logged: the run goes on with the rest.
DraftFails(r) ==
  /\ run[r] # None /\ run[r].at # None /\ faults < MaxFaults
  /\ faults' = faults + 1
  /\ run' = [run EXCEPT ![r].at = None]
  /\ UNCHANGED <<books, inv, call, page, cut>>

RunEnds(r) ==
  /\ Idle(r) /\ run[r].todo = {}
  /\ run' = [run EXCEPT ![r] = None]
  /\ UNCHANGED <<books, inv, call, page, cut, faults>>

Restart ==
  /\ faults < MaxFaults
  /\ faults' = faults + 1
  /\ cut' = cut \cup UNION {Broken(w) : w \in Workers}
  /\ call' = [w \in Workers |-> None]
  /\ run' = [r \in Runs |-> None]
  /\ UNCHANGED <<books, inv, page>>

Next ==
  \/ \E t \in Scopes : ScopeEnds(t) \/ RefundOrder(t)
  \/ \E c \in Clerks :
       \/ Button(c)
       \/ \E i \in Invoices :
            OpenInvoice(c, i) \/ \E t \in Scopes : CreateInvoice(c, i, t)
  \/ \E w \in Workers : Step(w)
  \/ \E r \in Runs :
       \/ RunAuto(r) \/ DraftFails(r) \/ RunEnds(r)
       \/ \E t \in Scopes : Consider(r, t)
       \/ \E i \in Invoices : Draft(r, i)
  \/ Restart

Spec == Init /\ [][Next]_vars

(***************************************************************************)
(* Properties.                                                             *)
(***************************************************************************)
\* The shape of the rows: a number is given with the first final status and
\* never shared, and a page shows an invoice that was drafted.
BillingTypeOK ==
  /\ books \in [Scopes -> [over: BOOLEAN, paid: {0, 1}, back: {0, 1}]]
  /\ cut \subseteq Invoices /\ faults \in 0..MaxFaults
  /\ \A i \in Invoices :
       /\ inv[i].status \in Final \cup {"none", "DRAFT", "deleted"}
       /\ Exists(i) => (inv[i].number # None <=> inv[i].status \in Final)
       /\ inv[i].lines.custom \in 0..MaxCustom
  /\ \A i, j \in Invoices :
       Exists(i) /\ Exists(j) /\ inv[i].number = inv[j].number
         => i = j \/ inv[i].number = None
  /\ \A c \in Clerks :
       page[c] # None => inv[page[c].inv].status # "none"

\* The tax office's rule: the numbers of a year are used without a gap,
\* whatever fails between reading the highest number and storing the next.
NumbersWithoutGap == Numbers = 1..Cardinality(Numbers)

\* A final invoice is what its lines add up to, and what was mailed is what
\* the books hold now and ever after; an edit broken off before its total is
\* the exception the code leaves (no transaction spans line and total).
SentAsRecorded ==
  \A i \in Invoices : inv[i].status \in Final /\ i \notin cut =>
    /\ inv[i].total = Sum(inv[i].lines)
    /\ inv[i].status = "SENT" => inv[i].mailed # None
    /\ inv[i].mailed # None => /\ inv[i].mailed.number = inv[i].number
                               /\ inv[i].mailed.total = inv[i].total

\* The crons bill an event or month once, also when a run dies half way and
\* the next one starts over.
BilledOnce ==
  \A t \in Scopes : Cardinality({i \in InvoicesOf(t) : inv[i].auto}) <= 1

\* A number that was given stays, as "zamkne. Race-safe." of finalize says.
NumberStays ==
  [][\A i \in Invoices : inv[i].number # None
       => inv'[i].number = inv[i].number]_vars
=============================================================================
