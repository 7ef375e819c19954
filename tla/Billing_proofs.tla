--------------------------- MODULE Billing_proofs ---------------------------
(***************************************************************************)
(* The safety of Billing for any number of events, months, invoices,       *)
(* clerks, runs and failures.  What depends on calls and runs that never   *)
(* overlap is stated for Alone.                                            *)
(***************************************************************************)
EXTENDS Billing, FiniteSetTheorems, WellFoundedInduction, TLAPS

Statuses == Final \cup {"none", "DRAFT", "deleted"}
Books == [over: BOOLEAN, paid: {0, 1}, back: {0, 1}]
Lines == [commission: Nat, fees: Nat, custom: 0..MaxCustom]
Mailing == [number: Nat, total: Nat]
InvRow ==
  [status: Statuses, scope: Scopes \cup {None}, auto: BOOLEAN, lines: Lines,
   total: Nat, number: Nat \cup {None}, mailed: Mailing \cup {None}]
Labels == {"line", "sum", "total", "delete", "number", "assign", "mail",
           "sent", "paid"}
Calls == [inv: Invoices, at: Labels, read: Nat \cup {None}]
Forms == [inv: Invoices, shown: Statuses]
RunRow == [todo: SUBSET Scopes, at: Scopes \cup {None}]

BooksType == books \in [Scopes -> Books]
InvType == inv \in [Invoices -> InvRow]
CallType == call \in [Workers -> Calls \cup {None}]
PageType == page \in [Clerks -> Forms \cup {None}]
RunType == run \in [Runs -> RunRow \cup {None}]
CountType == cut \subseteq Invoices /\ faults \in 0..MaxFaults

\* A draft has no number and was not mailed, a final invoice has a number.
RowInv ==
  \A i \in Invoices :
    /\ inv[i].status \in {"none", "DRAFT"} =>
         inv[i].number = None /\ inv[i].mailed = None
    /\ inv[i].status \in Final => inv[i].number \in Nat

NumbersInv ==
  /\ \A i, j \in Invoices :
       Exists(i) /\ Exists(j) /\ inv[i].number = inv[j].number
         => i = j \/ inv[i].number = None
  /\ \E b \in Nat : \A n \in Numbers : n <= b

\* A call or a page is about an invoice that was drafted; what mails or pays
\* began on a final one; a clerk's call has the page it was made from.
CallOK(w) ==
  call[w] # None =>
    /\ inv[call[w].inv].status # "none"
    /\ call[w].at \in {"mail", "sent", "paid"} =>
         inv[call[w].inv].number \in Nat /\ inv[call[w].inv].status # "DRAFT"
    /\ call[w].at \in {"total", "assign"} => call[w].read \in Nat

CallInv == \A w \in Workers : CallOK(w)

PageInv ==
  \A c \in Clerks :
    /\ page[c] # None => inv[page[c].inv].status # "none"
    /\ call[c] # None => page[c] # None

\* A run that is about to draft has no call under way.
IdleInv ==
  \A r \in Runs : run[r] # None /\ run[r].at # None => call[r] = None

\* Alone: one call works on an invoice, and its status is what it read.
OwnInv ==
  \A v, w \in Workers :
    call[v] # None /\ call[w] # None /\ call[v].inv = call[w].inv => v = w

StageInv ==
  \A w \in Workers : call[w] # None =>
    IF call[w].at \in {"mail", "sent", "paid"}
    THEN inv[call[w].inv].status \in Final
    ELSE inv[call[w].inv].status = "DRAFT"

\* Alone: numbers only grow, so the one read is the next or taken by now.
GapInv ==
  \E n \in Nat :
    /\ Numbers = 1..n
    /\ \A w \in Workers : At(w, "assign") => call[w].read \in 1..(n + 1)

\* Alone: a total is behind its lines only while an edit is under way.
Summing(i) ==
  \E w \in Workers : call[w] # None /\ call[w].inv = i
                       /\ call[w].at \in {"sum", "total"}

TotalInv ==
  /\ \A i \in Invoices : Exists(i) /\ i \notin cut /\ ~Summing(i)
       => inv[i].total = Sum(inv[i].lines)
  /\ \A w \in Workers : At(w, "total")
       => call[w].read = Sum(inv[call[w].inv].lines)

MailedInv ==
  /\ \A i \in Invoices : Exists(i) =>
       /\ inv[i].status = "SENT" => inv[i].mailed # None
       /\ inv[i].mailed # None => /\ inv[i].mailed.number = inv[i].number
                                  /\ inv[i].mailed.total = inv[i].total
  /\ \A w \in Workers : At(w, "sent") => inv[call[w].inv].mailed # None

Drafted(t) == \E i \in InvoicesOf(t) : inv[i].auto

\* Alone: what the one run has yet to bill was not billed by a run.
RunInv ==
  /\ \A q, r \in Runs : run[q] # None /\ run[r] # None => q = r
  /\ \A r \in Runs : run[r] # None =>
       /\ run[r].at # None => ~Drafted(run[r].at)
       /\ run[r].at \notin run[r].todo
       /\ \A t \in run[r].todo \cap Events : ~Drafted(t)
  /\ \A i, j \in Invoices :
       /\ Exists(i) /\ Exists(j) /\ inv[i].auto /\ inv[j].auto
       /\ inv[i].scope = inv[j].scope
       => i = j

BaseInv ==
  /\ BooksType /\ InvType /\ CallType /\ PageType /\ RunType /\ CountType
  /\ RowInv /\ NumbersInv /\ CallInv /\ PageInv /\ IdleInv

AloneInv ==
  OwnInv /\ StageInv /\ GapInv /\ TotalInv /\ MailedInv /\ RunInv

IInv == BaseInv /\ (Alone => AloneInv)

-----------------------------------------------------------------------------
(***************************************************************************)
(* The rows, the calls and the numbers, as a step changes them.            *)
(***************************************************************************)
LEMMA InitInv == Init => IInv
<1> SUFFICES ASSUME Init PROVE IInv
  OBVIOUS
<1>1. BooksType /\ CallType /\ PageType /\ RunType /\ CountType
  <2>1. [over: {FALSE}, paid: {0, 1}, back: {0}] \subseteq Books
    <3> SUFFICES ASSUME NEW b \in [over: {FALSE}, paid: {0, 1}, back: {0}]
                 PROVE  b \in Books
      OBVIOUS
    <3>1. b = [over |-> FALSE, paid |-> b.paid, back |-> 0]
          /\ b.paid \in {0, 1}
      OBVIOUS
    <3> QED
      BY <3>1 DEF Books
  <2>2. BooksType
    BY <2>1 DEF Init, BooksType
  <2> QED
    BY <2>2, BillingAssumption
    DEF Init, CallType, PageType, RunType, CountType
<1>2. InvType
  <2>1. NoLines \in Lines
    BY BillingAssumption DEF NoLines, Lines
  <2> QED
    BY <2>1 DEF Init, InvType, InvRow, Statuses
<1>3. \A i \in Invoices : /\ inv[i].status = "none" /\ inv[i].number = None
                          /\ inv[i].mailed = None /\ ~Exists(i)
  BY DEF Init, Exists
<1>4. Numbers = {}
  BY <1>3 DEF Numbers
<1>5. RowInv /\ NumbersInv
  BY <1>3, <1>4 DEF RowInv, NumbersInv, Final
<1>6. CallInv /\ PageInv /\ IdleInv
  BY DEF Init, CallInv, CallOK, PageInv, IdleInv, Workers
<1>7. OwnInv /\ StageInv /\ TotalInv /\ MailedInv
  BY <1>3 DEF Init, OwnInv, StageInv, TotalInv, MailedInv, At
<1>8. GapInv
  <2>1. Numbers = 1..0
    BY <1>4
  <2> QED
    BY <2>1 DEF Init, GapInv, At
<1>9. RunInv
  BY <1>3 DEF Init, RunInv
<1> QED
  BY <1>1, <1>2, <1>5, <1>6, <1>7, <1>8, <1>9 DEF IInv, BaseInv, AloneInv

\* The invoices without their types: what is left alone with inv and call.
LEMMA RowsKept ==
  ASSUME UNCHANGED <<inv, call, cut>>
  PROVE  /\ InvType => InvType'
         /\ CallType => CallType'
         /\ RowInv => RowInv'
         /\ NumbersInv => NumbersInv'
         /\ CallInv => CallInv'
         /\ OwnInv => OwnInv'
         /\ StageInv => StageInv'
         /\ GapInv => GapInv'
         /\ TotalInv => TotalInv'
         /\ MailedInv => MailedInv'
<1>1. Numbers' = Numbers
  BY DEF Numbers, Exists
<1>2. /\ InvType => InvType'
      /\ CallType => CallType'
      /\ RowInv => RowInv'
      /\ NumbersInv => NumbersInv'
  BY <1>1 DEF InvType, CallType, RowInv, NumbersInv, Exists
<1>3. CallInv => CallInv'
  BY DEF CallInv, CallOK
<1>4. OwnInv => OwnInv'
  BY DEF OwnInv
<1>5. StageInv => StageInv'
  BY DEF StageInv
<1>6. GapInv => GapInv'
  BY <1>1 DEF GapInv, At
<1>7. TotalInv => TotalInv'
  BY DEF TotalInv, Exists, Summing, At
<1>8. MailedInv => MailedInv'
  BY DEF MailedInv, Exists, At
<1> QED
  BY <1>2, <1>3, <1>4, <1>5, <1>6, <1>7, <1>8

\* What the runs rely on stays when no run drafts and no row moves.
LEMMA RunsKept ==
  ASSUME RunInv, UNCHANGED run,
         \A i \in Invoices : Exists(i)' /\ inv'[i].auto =>
           /\ Exists(i)
           /\ inv'[i].scope = inv[i].scope /\ inv'[i].auto = inv[i].auto
  PROVE  RunInv'
<1>1. \A t : Drafted(t)' => Drafted(t)
  BY DEF Drafted, InvoicesOf
<1>2. /\ \A q, r \in Runs : run'[q] # None /\ run'[r] # None => q = r
      /\ \A r \in Runs : run'[r] # None =>
           /\ run'[r].at # None => ~Drafted(run'[r].at)
           /\ run'[r].at \notin run'[r].todo
           /\ \A t \in run'[r].todo \cap Events : ~Drafted(t)
  BY DEF RunInv
<1>3. \A i, j \in Invoices :
        /\ Exists(i)' /\ Exists(j)' /\ inv'[i].auto /\ inv'[j].auto
        /\ inv'[i].scope = inv'[j].scope
        => i = j
  BY DEF RunInv
<1>4. \A r \in Runs : run'[r] # None /\ run'[r].at # None
        => \A t : t = run'[r].at => ~Drafted(t)'
  BY <1>1, <1>2
<1>5. \A r \in Runs : run'[r] # None
        => \A t \in run'[r].todo \cap Events : ~Drafted(t)'
  BY <1>1, <1>2
<1> QED
  BY <1>2, <1>3, <1>4, <1>5 DEF RunInv, Drafted, InvoicesOf

LEMMA CallWritten ==
  ASSUME CallType, NEW w \in Workers, NEW c \in Calls \cup {None},
         call' = [call EXCEPT ![w] = c]
  PROVE  /\ CallType'
         /\ call'[w] = c
         /\ \A v \in Workers : v # w => call'[v] = call[v]
BY DEF CallType

LEMMA CallMoved ==
  ASSUME CallType, NEW w \in Workers, call[w] # None, NEW at \in Labels,
         call' = [call EXCEPT ![w].at = at]
  PROVE  /\ CallType'
         /\ call'[w] \in Calls
         /\ call'[w].at = at /\ call'[w].inv = call[w].inv
         /\ call'[w].read = call[w].read
         /\ \A v \in Workers : v # w => call'[v] = call[v]
<1> DEFINE c == [call[w] EXCEPT !.at = at]
<1>1. call[w] \in Calls
  BY DEF CallType
<1>2. /\ c \in Calls /\ c.at = at /\ c.inv = call[w].inv
      /\ c.read = call[w].read
  BY <1>1 DEF Calls
<1>3. call' = [call EXCEPT ![w] = c]
  BY DEF CallType
<1> HIDE DEF c
<1> QED
  BY <1>2, <1>3, CallWritten

\* One invoice's row is written: the numbers stay unique and bounded.
LEMMA RowWritten ==
  ASSUME InvType, RowInv, NumbersInv, NEW i \in Invoices, NEW row \in InvRow,
         inv' = [inv EXCEPT ![i] = row],
         row.status \in {"none", "DRAFT"} =>
           row.number = None /\ row.mailed = None,
         row.status \in Final => row.number \in Nat,
         row.status # "deleted" => \A j \in Invoices \ {i} :
           Exists(j) /\ inv[j].number = row.number => row.number = None
  PROVE  /\ InvType' /\ RowInv' /\ NumbersInv'
         /\ inv'[i] = row
         /\ \A j \in Invoices : j # i => inv'[j] = inv[j]
<1>1. \A j \in Invoices : inv'[j] = IF j = i THEN row ELSE inv[j]
  BY DEF InvType
<1>2. InvType'
  BY DEF InvType
<1>3. RowInv'
  BY <1>1 DEF RowInv
<1>4. \A j, k \in Invoices :
        Exists(j)' /\ Exists(k)' /\ inv'[j].number = inv'[k].number
          => j = k \/ inv'[j].number = None
  BY <1>1 DEF NumbersInv, Exists
<1>5. Numbers' \subseteq Numbers \cup ({row.number} \ {None})
  BY <1>1 DEF Numbers, Exists
<1>6. \E b \in Nat : \A n \in Numbers' : n <= b
  <2>1. PICK b \in Nat : \A n \in Numbers : n <= b
    BY DEF NumbersInv
  <2>2. row.number \in Nat \cup {None}
    BY DEF InvRow
  <2>3. Numbers \subseteq Nat
    BY DEF Numbers, InvType, InvRow
  <2>4. CASE row.number = None
    BY <1>5, <2>1, <2>4
  <2>5. CASE row.number \in Nat
    <3> DEFINE c == IF b < row.number THEN row.number ELSE b
    <3>1. c \in Nat /\ b <= c /\ row.number <= c
      BY <2>5
    <3> HIDE DEF c
    <3>2. \A n \in Numbers : n <= c
      BY <2>1, <2>3, <3>1
    <3> QED
      BY <1>5, <3>1, <3>2
  <2> QED
    BY <2>2, <2>4, <2>5
<1> QED
  BY <1>1, <1>2, <1>3, <1>4, <1>6 DEF NumbersInv

LEMMA SumIsNat == \A l \in Lines : Sum(l) \in Nat
BY DEF Lines, Sum

-----------------------------------------------------------------------------
(***************************************************************************)
(* The highest number.                                                     *)
(***************************************************************************)
\* A set of naturals with a bound has a greatest element, for the distances
\* from the bound have a least one.
LEMMA GreatestExists ==
  ASSUME NEW S \in SUBSET Nat, 0 \in S, NEW b \in Nat, \A n \in S : n <= b
  PROVE  \E m \in S : \A k \in S : k <= m
<1> DEFINE R == OpToRel(<, Nat)
           T == {b - n : n \in S}
<1>1. T \subseteq Nat /\ T # {}
  OBVIOUS
<1>2. IsWellFoundedOn(R, Nat)
  BY NatLessThanWellFounded
<1>3. \A x, y \in Nat : y < x => <<y, x>> \in R
  BY DEF OpToRel
<1> HIDE DEF R
<1>4. PICK x \in T : \A y \in T : ~(<<y, x>> \in R)
  <2> HIDE DEF T
  <2> QED
    BY <1>1, <1>2, WFMin
<1>5. PICK m \in S : x = b - m
  OBVIOUS
<1>6. ASSUME NEW k \in S PROVE k <= m
  <2>1. b - k \in T /\ b - k \in Nat /\ x \in Nat
    BY <1>1
  <2>2. ~(b - k < x)
    BY <1>3, <1>4, <2>1
  <2> QED
    BY <1>5, <2>1, <2>2
<1> QED
  BY <1>5, <1>6

LEMMA NumbersAreNat == InvType => Numbers \subseteq Nat
BY DEF Numbers, InvType, InvRow

LEMMA HighestIsNat ==
  ASSUME InvType, NumbersInv
  PROVE  Highest \in Nat
<1> DEFINE S == Numbers \cup {0}
<1>1. PICK b \in Nat : \A n \in Numbers : n <= b
  BY DEF NumbersInv
<1>2. S \in SUBSET Nat /\ 0 \in S /\ \A n \in S : n <= b
  BY <1>1, NumbersAreNat
<1> HIDE DEF S
<1>3. \E m \in S : \A k \in S : k <= m
  BY <1>2, GreatestExists
<1>4. \E m \in Numbers \cup {0} : \A k \in Numbers : k <= m
  BY <1>3 DEF S
<1> QED
  BY <1>4, NumbersAreNat DEF Highest

LEMMA HighestOfRange ==
  ASSUME NEW n \in Nat, Numbers = 1..n
  PROVE  Highest = n
<1>1. n \in Numbers \cup {0} /\ \A k \in Numbers : k <= n
  OBVIOUS
<1>2. \A m \in Numbers \cup {0} : (\A k \in Numbers : k <= m) => m = n
  OBVIOUS
<1> QED
  BY <1>1, <1>2 DEF Highest

LEMMA NumbersSame ==
  ASSUME InvType, NEW i \in Invoices, NEW row \in InvRow,
         inv' = [inv EXCEPT ![i] = row],
         \/ row.number = inv[i].number
              /\ (row.status \in {"none", "deleted"} <=> ~Exists(i))
         \/ row.number = None /\ (Exists(i) => inv[i].number = None)
  PROVE  Numbers' = Numbers
<1>1. \A j \in Invoices : inv'[j] = IF j = i THEN row ELSE inv[j]
  BY DEF InvType
<1>2. \A k : k \in Numbers <=>
        k # None /\ \E j \in Invoices : Exists(j) /\ inv[j].number = k
  BY DEF Numbers
<1>3. \A k : k \in Numbers' <=>
        k # None /\ \E j \in Invoices :
          inv'[j].status \notin {"none", "deleted"} /\ inv'[j].number = k
  BY DEF Numbers, Exists
<1>4. \A k : k # None =>
        ((\E j \in Invoices : Exists(j) /\ inv[j].number = k)
          <=> (\E j \in Invoices : inv'[j].status \notin {"none", "deleted"}
                                     /\ inv'[j].number = k))
  BY <1>1 DEF Exists
<1> QED
  BY <1>2, <1>3, <1>4

LEMMA GapKept ==
  ASSUME GapInv, Numbers' = Numbers,
         \A v \in Workers : At(v, "assign")' =>
           At(v, "assign") /\ call'[v].read = call[v].read
  PROVE  GapInv'
BY DEF GapInv

-----------------------------------------------------------------------------
(***************************************************************************)
(* A step of the call of one worker: it writes the row of its invoice, or  *)
(* leaves it (row is then the row as it is), and goes on or ends.          *)
(***************************************************************************)
\* What the page of a worker shows when its call ends.
PageStays ==
  /\ PageType'
  /\ \A c \in Clerks :
       /\ page'[c] # None => page[c] # None /\ page'[c].inv = page[c].inv
       /\ call'[c] # None /\ page[c] # None => page'[c] # None

LEMMA PageShows ==
  ASSUME PageType, PageInv, NEW w \in Workers, call[w] # None,
         NEW status \in Statuses, Shows(w, status),
         w \in Clerks => call'[w] = None
  PROVE  PageStays
<1>1. CASE w \in Clerks
  <2> DEFINE p == [page[w] EXCEPT !.shown = status]
  <2>1. page[w] # None /\ page[w] \in Forms
    BY <1>1 DEF PageType, PageInv
  <2>2. p \in Forms /\ p.inv = page[w].inv
    BY <2>1 DEF Forms
  <2>3. page' = [page EXCEPT ![w] = p]
    BY <1>1 DEF Shows
  <2> HIDE DEF p
  <2> QED
    BY <1>1, <2>1, <2>2, <2>3 DEF PageStays, PageType
<1>2. CASE w \notin Clerks
  BY <1>2 DEF Shows, PageStays, PageType
<1> QED
  BY <1>1, <1>2

LEMMA PageSame ==
  ASSUME PageType, UNCHANGED page
  PROVE  PageStays
BY DEF PageStays, PageType

\* What the row and the call must keep, alone, when the call takes a step.
StepAlone(w, row) ==
  LET i == call[w].inv IN
  /\ call'[w] # None =>
       IF call'[w].at \in {"mail", "sent", "paid"}
       THEN row.status \in Final ELSE row.status = "DRAFT"
  /\ row.status # "deleted" /\ i \notin cut'
       /\ (call'[w] # None => call'[w].at \notin {"sum", "total"})
       => row.total = Sum(row.lines)
  /\ call'[w] # None /\ call'[w].at = "total"
       => call'[w].read = Sum(row.lines)
  /\ row.status # "deleted" =>
       /\ row.status = "SENT" => row.mailed # None
       /\ row.mailed # None => /\ row.mailed.number = row.number
                               /\ row.mailed.total = row.total
  /\ call'[w] # None /\ call'[w].at = "sent" => row.mailed # None
  /\ GapInv'

LEMMA StepAloneInv ==
  ASSUME BaseInv, AloneInv, NEW w \in Workers, call[w] # None,
         NEW i \in Invoices, i = call[w].inv, NEW row \in InvRow,
         \A j \in Invoices : inv'[j] = IF j = i THEN row ELSE inv[j],
         CallType',
         \A v \in Workers : v # w => call'[v] = call[v],
         call'[w] # None => call'[w].inv = i,
         cut \subseteq cut', UNCHANGED run,
         row.status # "none",
         row.scope = inv[i].scope, row.auto = inv[i].auto,
         StepAlone(w, row)
  PROVE  AloneInv'
<1> USE DEF BaseInv, AloneInv
<1>1. Exists(i)
  BY DEF StageInv, Exists, Final
<1>2. \A v \in Workers : v # w /\ call[v] # None
        => call[v].inv # i /\ call[v].inv \in Invoices
  BY DEF OwnInv, CallType, Calls
<1>3. OwnInv'
  BY <1>2 DEF OwnInv
<1>4. StageInv'
  BY <1>2 DEF StageInv, StepAlone
<1>5. TotalInv'
  <2>1. ASSUME NEW j \in Invoices, Exists(j)', j \notin cut', ~Summing(j)'
        PROVE  inv'[j].total = Sum(inv'[j].lines)
    <3>1. CASE j = i
      BY <2>1, <3>1 DEF StepAlone, Summing, Exists
    <3>2. CASE j # i
      <4>1. Exists(j) /\ j \notin cut /\ ~Summing(j)
        BY <2>1, <3>2 DEF Exists, Summing
      <4> QED
        BY <3>2, <4>1 DEF TotalInv
    <3> QED
      BY <3>1, <3>2
  <2>2. ASSUME NEW v \in Workers, At(v, "total")'
        PROVE  call'[v].read = Sum(inv'[call'[v].inv].lines)
    <3>1. CASE v = w
      BY <2>2, <3>1 DEF StepAlone, At
    <3>2. CASE v # w
      <4>1. At(v, "total") /\ call[v].inv # i /\ call[v].inv \in Invoices
        BY <1>2, <2>2, <3>2 DEF At
      <4> QED
        BY <3>2, <4>1 DEF TotalInv
    <3> QED
      BY <3>1, <3>2
  <2> QED
    BY <2>1, <2>2 DEF TotalInv
<1>6. MailedInv'
  <2>1. \A j \in Invoices : Exists(j)' =>
          /\ inv'[j].status = "SENT" => inv'[j].mailed # None
          /\ inv'[j].mailed # None =>
               /\ inv'[j].mailed.number = inv'[j].number
               /\ inv'[j].mailed.total = inv'[j].total
    <3> SUFFICES ASSUME NEW j \in Invoices, Exists(j)'
                 PROVE  /\ inv'[j].status = "SENT" => inv'[j].mailed # None
                        /\ inv'[j].mailed # None =>
                             /\ inv'[j].mailed.number = inv'[j].number
                             /\ inv'[j].mailed.total = inv'[j].total
      OBVIOUS
    <3>1. CASE j = i
      BY <3>1 DEF StepAlone, Exists
    <3>2. CASE j # i
      BY <3>2 DEF MailedInv, Exists
    <3> QED
      BY <3>1, <3>2
  <2>2. ASSUME NEW v \in Workers, At(v, "sent")'
        PROVE  inv'[call'[v].inv].mailed # None
    <3>1. CASE v = w
      BY <2>2, <3>1 DEF StepAlone, At
    <3>2. CASE v # w
      <4>1. At(v, "sent") /\ call[v].inv # i /\ call[v].inv \in Invoices
        BY <1>2, <2>2, <3>2 DEF At
      <4> QED
        BY <3>2, <4>1 DEF MailedInv
    <3> QED
      BY <3>1, <3>2
  <2> QED
    BY <2>1, <2>2 DEF MailedInv
<1>7. RunInv'
  BY <1>1, RunsKept DEF Exists
<1> QED
  BY <1>3, <1>4, <1>5, <1>6, <1>7 DEF StepAlone

LEMMA StepInv ==
  ASSUME IInv, NEW w \in Workers, call[w] # None,
         NEW i \in Invoices, i = call[w].inv, NEW row \in InvRow,
         inv' = [inv EXCEPT ![i] = row],
         CallType',
         \A v \in Workers : v # w => call'[v] = call[v],
         call'[w] # None => call'[w].inv = i,
         PageStays, CountType', cut \subseteq cut', UNCHANGED <<books, run>>,
         row.status # "none",
         row.status = "DRAFT" => row.number = None /\ row.mailed = None,
         row.status \in Final => row.number \in Nat,
         row.status # "deleted" => \A j \in Invoices \ {i} :
           Exists(j) /\ inv[j].number = row.number => row.number = None,
         inv[i].number \in Nat /\ inv[i].status # "DRAFT"
           => row.number \in Nat /\ row.status # "DRAFT",
         row.scope = inv[i].scope, row.auto = inv[i].auto,
         call'[w] # None =>
           /\ call'[w].at \in {"mail", "sent", "paid"} =>
                row.number \in Nat /\ row.status # "DRAFT"
           /\ call'[w].at \in {"total", "assign"} => call'[w].read \in Nat,
         Alone => StepAlone(w, row)
  PROVE  IInv'
<1> USE DEF IInv, BaseInv
<1>1. /\ InvType' /\ RowInv' /\ NumbersInv'
      /\ \A j \in Invoices : inv'[j] = IF j = i THEN row ELSE inv[j]
  <2>1. row.status \in {"none", "DRAFT"}
          => row.number = None /\ row.mailed = None
    OBVIOUS
  <2>2. /\ InvType' /\ RowInv' /\ NumbersInv'
        /\ inv'[i] = row
        /\ \A j \in Invoices : j # i => inv'[j] = inv[j]
    BY <2>1, RowWritten
  <2> QED
    BY <2>2
<1>2. BooksType' /\ RunType' /\ PageType' /\ CallType' /\ CountType'
  BY DEF BooksType, RunType, PageStays
<1>3. CallInv'
  <2> SUFFICES ASSUME NEW v \in Workers PROVE CallOK(v)'
    BY DEF CallInv
  <2>1. CASE v = w
    BY <1>1, <2>1 DEF CallOK
  <2>2. CASE v # w
    <3>1. call'[v] = call[v] /\ CallOK(v)
      BY <2>2 DEF CallInv
    <3>2. call[v] # None => call[v].inv \in Invoices
      BY DEF CallType, Calls
    <3> QED
      BY <1>1, <3>1, <3>2 DEF CallOK
  <2> QED
    BY <2>1, <2>2
<1>4. PageInv'
  <2>1. \A c \in Clerks : page[c] # None => page[c].inv \in Invoices
    BY DEF PageType, Forms
  <2>2. \A c \in Clerks : call'[c] # None => call[c] # None
    BY DEF Workers
  <2> QED
    BY <1>1, <2>1, <2>2 DEF PageInv, PageStays
<1>5. IdleInv'
  BY DEF IdleInv, Workers
<1>6. Alone => AloneInv'
  BY <1>1, StepAloneInv
<1> QED
  BY <1>1, <1>2, <1>3, <1>4, <1>5, <1>6

\* The facts a step of a call starts from.
LEMMA CallFacts ==
  ASSUME IInv, NEW w \in Workers, call[w] # None
  PROVE  /\ call[w] \in Calls /\ call[w].inv \in Invoices
         /\ inv[call[w].inv] \in InvRow /\ inv[call[w].inv].lines \in Lines
         /\ inv[call[w].inv].status # "none"
         /\ inv[call[w].inv].status = "DRAFT" =>
              inv[call[w].inv].number = None /\ inv[call[w].inv].mailed = None
         /\ inv[call[w].inv].status \in Final => inv[call[w].inv].number \in Nat
         /\ Exists(call[w].inv)
              => inv[call[w].inv].status \in Final \cup {"DRAFT"}
         /\ CallOK(w)
         /\ Alone => AloneInv
BY DEF IInv, BaseInv, CallType, Calls, InvType, InvRow, RowInv, CallInv,
       CallOK, Exists, Statuses

\* A number is shared by no other invoice that exists.
LEMMA OwnNumber ==
  ASSUME IInv, NEW i \in Invoices, Exists(i)
  PROVE  \A j \in Invoices \ {i} :
           Exists(j) /\ inv[j].number = inv[i].number => inv[i].number = None
BY DEF IInv, BaseInv, NumbersInv

LEMMA AloneFacts ==
  ASSUME IInv, Alone, NEW w \in Workers, call[w] # None,
         NEW i, i = call[w].inv
  PROVE  /\ Exists(i)
         /\ IF call[w].at \in {"mail", "sent", "paid"}
            THEN inv[i].status \in Final ELSE inv[i].status = "DRAFT"
         /\ inv[i].status = "SENT" => inv[i].mailed # None
         /\ inv[i].mailed # None => /\ inv[i].mailed.number = inv[i].number
                                    /\ inv[i].mailed.total = inv[i].total
         /\ i \notin cut /\ call[w].at \notin {"sum", "total"}
              => inv[i].total = Sum(inv[i].lines)
         /\ call[w].at = "total" => call[w].read = Sum(inv[i].lines)
         /\ call[w].at = "sent" => inv[i].mailed # None
         /\ GapInv
<1> USE CallFacts DEF AloneInv
<1>1. Exists(i) /\ IF call[w].at \in {"mail", "sent", "paid"}
                   THEN inv[i].status \in Final ELSE inv[i].status = "DRAFT"
  BY DEF StageInv, Exists, Final
<1>2. /\ inv[i].status = "SENT" => inv[i].mailed # None
      /\ inv[i].mailed # None => /\ inv[i].mailed.number = inv[i].number
                                 /\ inv[i].mailed.total = inv[i].total
      /\ call[w].at = "sent" => inv[i].mailed # None
  BY <1>1 DEF MailedInv, At
<1>3. call[w].at \notin {"sum", "total"} => ~Summing(i)
  BY DEF Summing, OwnInv
<1> QED
  BY <1>1, <1>2, <1>3 DEF TotalInv, At

\* The steps that leave the rows alone.
LEMMA StaysInv ==
  ASSUME IInv, NEW w \in Workers, call[w] # None, CallType',
         UNCHANGED <<books, inv, page, run>>,
         \A v \in Workers : v # w => call'[v] = call[v],
         call'[w] # None => call'[w].inv = call[w].inv,
         CountType', cut \subseteq cut',
         call'[w] # None =>
           /\ call[w] # None
           /\ call'[w].at \in {"mail", "sent", "paid"}
                <=> call[w].at \in {"mail", "sent", "paid"}
           /\ call'[w].at \in {"total", "assign"} => call'[w].read \in Nat
           /\ call'[w].at \in {"sum", "total"}
                <=> call[w].at \in {"sum", "total"}
           /\ call'[w].at = "total"
                => call'[w].read = Sum(inv[call[w].inv].lines)
           /\ call'[w].at = "sent" => call[w].at = "sent",
         call'[w] = None =>
           call[w].at \notin {"sum", "total"} \/ call[w].inv \in cut',
         Alone => GapInv'
  PROVE  IInv'
<1> DEFINE i == call[w].inv
           row == inv[i]
<1>1. /\ i \in Invoices /\ row \in InvRow /\ row.status # "none"
      /\ row.status = "DRAFT" => row.number = None /\ row.mailed = None
      /\ row.status \in Final => row.number \in Nat
      /\ row.status # "deleted" => Exists(i)
  BY CallFacts DEF Exists
<1>2. inv' = [inv EXCEPT ![i] = row]
  BY DEF IInv, BaseInv, InvType
<1>3. row.status # "deleted" => \A j \in Invoices \ {i} :
           Exists(j) /\ inv[j].number = row.number => row.number = None
  BY <1>1, OwnNumber
<1>4. PageStays
  BY PageSame DEF IInv, BaseInv
<1>5. call'[w] # None =>
           /\ call'[w].at \in {"mail", "sent", "paid"} =>
                row.number \in Nat /\ row.status # "DRAFT"
           /\ call'[w].at \in {"total", "assign"} => call'[w].read \in Nat
  BY CallFacts DEF CallOK
<1>6. Alone => StepAlone(w, row)
  <2> SUFFICES ASSUME Alone PROVE StepAlone(w, row)
    OBVIOUS
  <2>1. /\ IF call[w].at \in {"mail", "sent", "paid"}
           THEN row.status \in Final ELSE row.status = "DRAFT"
        /\ row.status = "SENT" => row.mailed # None
        /\ row.mailed # None => /\ row.mailed.number = row.number
                                /\ row.mailed.total = row.total
        /\ i \notin cut /\ call[w].at \notin {"sum", "total"}
             => row.total = Sum(row.lines)
        /\ call[w].at = "sent" => row.mailed # None
    BY AloneFacts
  <2> HIDE DEF row
  <2>2. /\ i \notin cut'
        /\ call'[w] # None => call'[w].at \notin {"sum", "total"}
        => i \notin cut /\ call[w].at \notin {"sum", "total"}
    OBVIOUS
  <2>3. call'[w] # None /\ call'[w].at = "total"
          => call'[w].read = Sum(row.lines)
    BY DEF row
  <2> QED
    BY <2>1, <2>2, <2>3 DEF StepAlone
<1> HIDE DEF row, i
<1>7. call'[w] # None => call'[w].inv = i
  BY DEF i
<1>8. row.scope = inv[i].scope /\ row.auto = inv[i].auto
      /\ (inv[i].number \in Nat /\ inv[i].status # "DRAFT"
           => row.number \in Nat /\ row.status # "DRAFT")
  BY DEF row
<1> QED
  BY <1>1, <1>2, <1>3, <1>4, <1>5, <1>6, <1>7, <1>8, StepInv DEF i

LEMMA RecomputeTotalsStep ==
  ASSUME IInv, NEW w \in Workers, RecomputeTotals(w)
  PROVE  IInv'
<1> DEFINE t == Sum(inv[call[w].inv].lines)
           c == [call[w] EXCEPT !.at = "total", !.read = t]
<1>1. call[w] # None /\ call[w].at = "sum" /\ call[w] \in Calls /\ t \in Nat
  BY CallFacts, SumIsNat DEF RecomputeTotals, At
<1>2. c \in Calls /\ c.at = "total" /\ c.inv = call[w].inv /\ c.read = t
  <2> HIDE DEF t
  <2> QED
    BY <1>1 DEF Calls, Labels
<1>3. call' = [call EXCEPT ![w] = c]
  BY DEF RecomputeTotals, IInv, BaseInv, CallType
<1> HIDE DEF c
<1>4. CallType' /\ call'[w] = c
      /\ \A v \in Workers : v # w => call'[v] = call[v]
  BY <1>2, <1>3, CallWritten DEF IInv, BaseInv
<1>5. UNCHANGED <<books, inv, page, run, cut, faults>>
  BY DEF RecomputeTotals
<1>6. Alone => GapInv'
  <2>1. Numbers' = Numbers
    BY <1>5 DEF Numbers, Exists
  <2> QED
    BY <1>2, <1>4, <2>1, GapKept DEF IInv, AloneInv, At
<1>7. CountType'
  BY <1>5 DEF IInv, BaseInv, CountType
<1>8. c.read = Sum(inv[call[w].inv].lines) /\ c.read \in Nat
  BY <1>1, <1>2
<1> HIDE DEF t
<1>9. /\ call'[w] # None => call'[w].inv = call[w].inv
      /\ call'[w].at = "total" /\ call[w].at = "sum"
      /\ call'[w].read = Sum(inv[call[w].inv].lines) /\ call'[w].read \in Nat
  BY <1>1, <1>2, <1>4, <1>8
<1>10. call'[w] # None
  BY <1>2, <1>4, BillingAssumption DEF Calls
<1> QED
  BY <1>1, <1>4, <1>5, <1>6, <1>7, <1>9, <1>10, StaysInv

LEMMA NextNumberStep ==
  ASSUME IInv, NEW w \in Workers, NextNumber(w)
  PROVE  IInv'
<1> DEFINE k == Highest + 1
           c == [call[w] EXCEPT !.at = "assign", !.read = k]
<1>1. call[w] # None /\ call[w].at = "number" /\ call[w] \in Calls /\ k \in Nat
  BY CallFacts, HighestIsNat DEF NextNumber, At, IInv, BaseInv
<1>2. c \in Calls /\ c.at = "assign" /\ c.inv = call[w].inv /\ c.read = k
  <2> HIDE DEF k
  <2> QED
    BY <1>1 DEF Calls, Labels
<1>3. call' = [call EXCEPT ![w] = c]
  BY DEF NextNumber, IInv, BaseInv, CallType
<1> HIDE DEF c
<1>4. CallType' /\ call'[w] = c
      /\ \A v \in Workers : v # w => call'[v] = call[v]
  BY <1>2, <1>3, CallWritten DEF IInv, BaseInv
<1>5. UNCHANGED <<books, inv, page, run, cut, faults>>
  BY DEF NextNumber
<1>6. Alone => GapInv'
  <2> SUFFICES ASSUME Alone PROVE GapInv'
    OBVIOUS
  <2>1. Numbers' = Numbers
    BY <1>5 DEF Numbers, Exists
  <2>2. PICK n \in Nat :
          /\ Numbers = 1..n
          /\ \A v \in Workers : At(v, "assign") => call[v].read \in 1..(n + 1)
    BY DEF IInv, AloneInv, GapInv
  <2>3. k = n + 1
    BY <2>2, HighestOfRange
  <2>4. k \in 1..(n + 1)
    BY <2>3
  <2> HIDE DEF k
  <2>5. \A v \in Workers : At(v, "assign")' => call'[v].read \in 1..(n + 1)
    BY <1>2, <1>4, <2>2, <2>4 DEF At
  <2> QED
    BY <2>1, <2>2, <2>5 DEF GapInv
<1>7. CountType'
  BY <1>5 DEF IInv, BaseInv, CountType
<1> QED
  BY <1>1, <1>2, <1>4, <1>5, <1>6, <1>7, StaysInv

LEMMA CallFailsStep ==
  ASSUME IInv, NEW w \in Workers, CallFails(w)
  PROVE  IInv'
<1>1. call[w] # None /\ call[w] \in Calls /\ call[w].inv \in Invoices
  BY CallFacts DEF CallFails
<1>2. CallType' /\ call'[w] = None
      /\ \A v \in Workers : v # w => call'[v] = call[v]
  BY CallWritten DEF CallFails, End, IInv, BaseInv
<1>3. UNCHANGED <<books, inv, page, run>>
  BY DEF CallFails
<1>4. CountType' /\ cut \subseteq cut'
  BY <1>1, BillingAssumption
  DEF CallFails, Broken, IInv, BaseInv, CountType
<1>5. call[w].at \notin {"sum", "total"} \/ call[w].inv \in cut'
  BY <1>1 DEF CallFails, Broken, At
<1>6. Alone => GapInv'
  <2>1. Numbers' = Numbers
    BY <1>3 DEF Numbers, Exists
  <2> QED
    BY <1>2, <2>1, GapKept DEF IInv, AloneInv, At
<1> QED
  BY <1>1, <1>2, <1>3, <1>4, <1>5, <1>6, StaysInv

\* The steps that write the row.
LEMMA WriteLineStep ==
  ASSUME IInv, NEW w \in Workers, WriteLine(w)
  PROVE  IInv'
<1> DEFINE i == call[w].inv
<1>1. /\ call[w] # None /\ call[w].at = "line" /\ i \in Invoices /\ Exists(i)
      /\ inv[i] \in InvRow /\ inv[i].lines \in Lines
      /\ inv[i].status # "none" /\ inv[i].status # "deleted"
      /\ inv[i].status = "DRAFT" => inv[i].number = None /\ inv[i].mailed = None
      /\ inv[i].status \in Final => inv[i].number \in Nat
  BY CallFacts DEF WriteLine, At, Exists
<1>2. PICK k \in 0..MaxCustom : inv' = [inv EXCEPT ![i].lines.custom = k]
  BY DEF WriteLine
<1> DEFINE l == [inv[i].lines EXCEPT !.custom = k]
           row == [inv[i] EXCEPT !.lines = l]
<1>3. l \in Lines
  BY <1>1 DEF Lines
<1>4. inv' = [inv EXCEPT ![i] = row]
  BY <1>2
<1> HIDE DEF l
<1>5. /\ row \in InvRow /\ row.lines = l
      /\ row.status = inv[i].status /\ row.scope = inv[i].scope
      /\ row.auto = inv[i].auto /\ row.total = inv[i].total
      /\ row.number = inv[i].number /\ row.mailed = inv[i].mailed
  BY <1>1, <1>3 DEF InvRow
<1>6. /\ CallType' /\ call'[w].at = "sum" /\ call'[w].inv = i
      /\ \A v \in Workers : v # w => call'[v] = call[v]
  BY <1>1, CallMoved DEF WriteLine, Goto, Labels, IInv, BaseInv
<1>7. UNCHANGED <<books, page, run, cut, faults>>
  BY DEF WriteLine
<1>8. PageStays /\ CountType'
  BY <1>7, PageSame DEF IInv, BaseInv, CountType
<1>9. \A j \in Invoices \ {i} :
        Exists(j) /\ inv[j].number = row.number => row.number = None
  BY <1>1, <1>5, OwnNumber
<1> HIDE DEF row
<1>10. Alone => StepAlone(w, row)
  <2> SUFFICES ASSUME Alone PROVE StepAlone(w, row)
    OBVIOUS
  <2>1. /\ inv[i].status = "DRAFT" /\ inv[i].mailed = None /\ GapInv
    BY <1>1, AloneFacts
  <2>2. Numbers' = Numbers
    BY <1>1, <1>4, <1>5, NumbersSame DEF IInv, BaseInv
  <2>3. GapInv'
    BY <1>6, <2>1, <2>2, GapKept DEF At
  <2>4. /\ row.status = "DRAFT" /\ row.mailed = None /\ row.status # "SENT"
        /\ call'[w].at = "sum" /\ call'[w] # None
    <3>1. call'[w] \in Calls
      BY <1>1, CallMoved DEF WriteLine, Goto, Labels, IInv, BaseInv
    <3> QED
      BY <1>5, <1>6, <2>1, <3>1, BillingAssumption DEF Calls
  <2> QED
    BY <2>3, <2>4 DEF StepAlone
<1> HIDE DEF i
<1> QED
  BY <1>1, <1>4, <1>5, <1>6, <1>7, <1>8, <1>9, <1>10, StepInv DEF i

LEMMA SetTotalStep ==
  ASSUME IInv, NEW w \in Workers, SetTotal(w)
  PROVE  IInv'
<1> DEFINE i == call[w].inv
           row == [inv[i] EXCEPT !.total = call[w].read]
<1>1. /\ call[w] # None /\ call[w].at = "total" /\ i \in Invoices /\ Exists(i)
      /\ inv[i] \in InvRow /\ call[w].read \in Nat
      /\ inv[i].status # "none" /\ inv[i].status # "deleted"
      /\ inv[i].status \in Statuses
      /\ inv[i].status = "DRAFT" => inv[i].number = None /\ inv[i].mailed = None
      /\ inv[i].status \in Final => inv[i].number \in Nat
  BY CallFacts DEF SetTotal, At, Exists, CallOK, InvRow
<1>2. inv' = [inv EXCEPT ![i] = row]
  BY DEF SetTotal
<1>3. /\ row \in InvRow /\ row.total = call[w].read
      /\ row.status = inv[i].status /\ row.scope = inv[i].scope
      /\ row.auto = inv[i].auto /\ row.lines = inv[i].lines
      /\ row.number = inv[i].number /\ row.mailed = inv[i].mailed
  BY <1>1 DEF InvRow
<1> HIDE DEF row
<1>4. CallType' /\ call'[w] = None
      /\ \A v \in Workers : v # w => call'[v] = call[v]
  BY CallWritten DEF SetTotal, End, IInv, BaseInv
<1>5. UNCHANGED <<books, run, cut, faults>>
  BY DEF SetTotal
<1>6. PageStays /\ CountType'
  BY <1>1, <1>4, <1>5, PageShows DEF SetTotal, IInv, BaseInv, CountType
<1>7. \A j \in Invoices \ {i} :
        Exists(j) /\ inv[j].number = row.number => row.number = None
  BY <1>1, <1>3, OwnNumber
<1>8. Alone => StepAlone(w, row)
  <2> SUFFICES ASSUME Alone PROVE StepAlone(w, row)
    OBVIOUS
  <2>1. /\ inv[i].status = "DRAFT" /\ inv[i].mailed = None /\ GapInv
        /\ call[w].read = Sum(inv[i].lines)
    BY <1>1, AloneFacts
  <2>2. Numbers' = Numbers
    BY <1>1, <1>2, <1>3, NumbersSame DEF IInv, BaseInv
  <2>3. GapInv'
    BY <1>4, <2>1, <2>2, GapKept DEF At
  <2> QED
    BY <1>3, <1>4, <2>1, <2>3 DEF StepAlone
<1> HIDE DEF i
<1> QED
  BY <1>1, <1>2, <1>3, <1>4, <1>5, <1>6, <1>7, <1>8, StepInv DEF i

LEMMA DeleteRowStep ==
  ASSUME IInv, NEW w \in Workers, DeleteRow(w)
  PROVE  IInv'
<1> DEFINE i == call[w].inv
           row == [inv[i] EXCEPT !.status = "deleted"]
<1>1. /\ call[w] # None /\ call[w].at = "delete" /\ i \in Invoices
      /\ inv[i] \in InvRow
      /\ inv[i].status = "DRAFT" => inv[i].number = None
  BY CallFacts DEF DeleteRow, At
<1>2. inv' = [inv EXCEPT ![i] = row]
  BY DEF DeleteRow
<1>3. /\ row \in InvRow /\ row.status = "deleted" /\ row.scope = inv[i].scope
      /\ row.auto = inv[i].auto /\ row.number = inv[i].number
  BY <1>1 DEF InvRow, Statuses
<1> HIDE DEF row
<1>4. CallType' /\ call'[w] = None
      /\ \A v \in Workers : v # w => call'[v] = call[v]
  BY CallWritten DEF DeleteRow, End, IInv, BaseInv
<1>5. UNCHANGED <<books, run, cut, faults>>
  BY DEF DeleteRow
<1>6. PageStays /\ CountType'
  <2>1. /\ page' = [page EXCEPT ![w] = None]
        /\ page \in [Clerks -> Forms \cup {None}]
    BY DEF DeleteRow, IInv, BaseInv, PageType
  <2> QED
    BY <1>4, <1>5, <2>1 DEF PageStays, PageType, IInv, BaseInv, CountType
<1>7. Alone => StepAlone(w, row)
  <2> SUFFICES ASSUME Alone PROVE StepAlone(w, row)
    OBVIOUS
  <2>1. inv[i].status = "DRAFT" /\ GapInv
    BY <1>1, AloneFacts
  <2>2. Numbers' = Numbers
    BY <1>1, <1>2, <1>3, <2>1, NumbersSame DEF IInv, BaseInv
  <2>3. GapInv'
    BY <1>4, <2>1, <2>2, GapKept DEF At
  <2> QED
    BY <1>3, <1>4, <2>3 DEF StepAlone
<1> HIDE DEF i
<1>8. row.status \notin Final /\ row.status # "DRAFT"
  BY <1>3 DEF Final
<1> QED
  BY <1>1, <1>2, <1>3, <1>4, <1>5, <1>6, <1>7, <1>8, StepInv DEF i

LEMMA MailStep ==
  ASSUME IInv, NEW w \in Workers, Mail(w)
  PROVE  IInv'
<1> DEFINE i == call[w].inv
           m == [number |-> inv[i].number, total |-> inv[i].total]
           row == [inv[i] EXCEPT !.mailed = m]
<1>1. /\ call[w] # None /\ call[w].at = "mail" /\ i \in Invoices
      /\ inv[i] \in InvRow /\ inv[i].status \in Statuses
      /\ inv[i].number \in Nat /\ inv[i].total \in Nat
      /\ inv[i].status # "none" /\ inv[i].status # "DRAFT"
  BY CallFacts DEF Mail, At, CallOK, InvRow
<1>2. inv' = [inv EXCEPT ![i] = row]
  BY DEF Mail
<1>3. /\ m \in Mailing /\ m # None
      /\ m.number = inv[i].number /\ m.total = inv[i].total
  BY <1>1, BillingAssumption DEF Mailing
<1> HIDE DEF m
<1>4. /\ row \in InvRow /\ row.mailed = m
      /\ row.status = inv[i].status /\ row.scope = inv[i].scope
      /\ row.auto = inv[i].auto /\ row.lines = inv[i].lines
      /\ row.number = inv[i].number /\ row.total = inv[i].total
  BY <1>1, <1>3 DEF InvRow
<1> HIDE DEF row
<1>5. /\ CallType' /\ call'[w].at = "sent" /\ call'[w].inv = i
      /\ \A v \in Workers : v # w => call'[v] = call[v]
  BY <1>1, CallMoved DEF Mail, Goto, Labels, IInv, BaseInv
<1>6. UNCHANGED <<books, page, run, cut, faults>>
  BY DEF Mail
<1>7. PageStays /\ CountType'
  BY <1>6, PageSame DEF IInv, BaseInv, CountType
<1>8. row.status # "deleted" => \A j \in Invoices \ {i} :
        Exists(j) /\ inv[j].number = row.number => row.number = None
  BY <1>1, <1>4, OwnNumber DEF Exists
<1>9. Alone => StepAlone(w, row)
  <2> SUFFICES ASSUME Alone PROVE StepAlone(w, row)
    OBVIOUS
  <2>1. /\ inv[i].status \in Final /\ Exists(i) /\ GapInv
        /\ i \notin cut => inv[i].total = Sum(inv[i].lines)
    BY <1>1, AloneFacts
  <2>2. Numbers' = Numbers
    BY <1>1, <1>2, <1>4, <2>1, NumbersSame DEF IInv, BaseInv, Final
  <2>3. GapInv'
    BY <1>5, <2>1, <2>2, GapKept DEF At
  <2> QED
    BY <1>3, <1>4, <1>5, <1>6, <2>1, <2>3 DEF StepAlone
<1> HIDE DEF i
<1> QED
  BY <1>1, <1>2, <1>4, <1>5, <1>6, <1>7, <1>8, <1>9, StepInv DEF i

LEMMA SetStatusStep ==
  ASSUME IInv, NEW w \in Workers, SetSent(w) \/ SetPaid(w)
  PROVE  IInv'
<1>1. PICK at \in {"sent", "paid"}, status \in {"SENT", "PAID"} :
        /\ SetStatus(w, at, status)
        /\ status = "SENT" => at = "sent"
  BY DEF SetSent, SetPaid
<1> DEFINE i == call[w].inv
           row == [inv[i] EXCEPT !.status = status]
<1>2. /\ call[w] # None /\ call[w].at = at /\ i \in Invoices /\ Exists(i)
      /\ inv[i] \in InvRow /\ inv[i].number \in Nat
      /\ inv[i].status # "DRAFT" /\ inv[i].status # "none"
      /\ inv[i].status # "deleted"
  BY <1>1, CallFacts DEF SetStatus, At, CallOK, Exists
<1>3. inv' = [inv EXCEPT ![i] = row]
  BY <1>1 DEF SetStatus
<1>4. status \in Final /\ status \in Statuses
  BY DEF Final, Statuses
<1>5. /\ row \in InvRow /\ row.mailed = inv[i].mailed
      /\ row.status = status /\ row.scope = inv[i].scope
      /\ row.auto = inv[i].auto /\ row.lines = inv[i].lines
      /\ row.number = inv[i].number /\ row.total = inv[i].total
  BY <1>2, <1>4 DEF InvRow
<1> HIDE DEF row
<1>6. CallType' /\ call'[w] = None
      /\ \A v \in Workers : v # w => call'[v] = call[v]
  BY <1>1, CallWritten DEF SetStatus, End, IInv, BaseInv
<1>7. UNCHANGED <<books, run, cut, faults>>
  BY <1>1 DEF SetStatus
<1>8. PageStays /\ CountType'
  BY <1>1, <1>2, <1>4, <1>6, <1>7, PageShows
  DEF SetStatus, IInv, BaseInv, CountType
<1>9. \A j \in Invoices \ {i} :
        Exists(j) /\ inv[j].number = row.number => row.number = None
  BY <1>2, <1>5, OwnNumber
<1>10. row.status \notin {"none", "DRAFT", "deleted"}
  BY <1>5
<1>11. Alone => StepAlone(w, row)
  <2> SUFFICES ASSUME Alone PROVE StepAlone(w, row)
    OBVIOUS
  <2>1. /\ inv[i].mailed # None =>
             /\ inv[i].mailed.number = inv[i].number
             /\ inv[i].mailed.total = inv[i].total
        /\ i \notin cut => inv[i].total = Sum(inv[i].lines)
        /\ at = "sent" => inv[i].mailed # None
        /\ GapInv
    BY <1>2, AloneFacts
  <2>2. Numbers' = Numbers
    BY <1>2, <1>3, <1>5, <1>10, NumbersSame DEF IInv, BaseInv
  <2>3. GapInv'
    BY <1>6, <2>1, <2>2, GapKept DEF At
  <2> QED
    BY <1>1, <1>5, <1>6, <1>7, <2>1, <2>3 DEF StepAlone
<1> HIDE DEF i
<1> QED
  BY <1>2, <1>3, <1>5, <1>6, <1>7, <1>8, <1>9, <1>10, <1>11, StepInv DEF i

LEMMA FinalizeStep ==
  ASSUME IInv, NEW w \in Workers, Finalize(w)
  PROVE  IInv'
<1> DEFINE i == call[w].inv
           k == call[w].read
           row == [inv[i] EXCEPT !.status = "FINALIZED", !.number = k]
<1>1. /\ call[w] # None /\ call[w].at = "assign" /\ i \in Invoices /\ Exists(i)
      /\ inv[i] \in InvRow /\ k \in Nat
      /\ inv[i].status \notin {"none", "deleted"}
      /\ inv[i].status = "DRAFT" => inv[i].number = None /\ inv[i].mailed = None
  BY CallFacts DEF Finalize, At, Exists, CallOK
<1>2. UNCHANGED <<books, run, cut, faults>> /\ CountType'
  BY DEF Finalize, IInv, BaseInv, CountType
<1>3. CASE k \in Numbers \ {inv[i].number}
  <2>1. Goto(w, "number") /\ UNCHANGED <<inv, page>>
    BY <1>3 DEF Finalize
  <2>2. /\ CallType' /\ call'[w].at = "number" /\ call'[w].inv = i
        /\ \A v \in Workers : v # w => call'[v] = call[v]
    BY <1>1, <2>1, CallMoved DEF Goto, Labels, IInv, BaseInv
  <2>3. Alone => GapInv'
    <3>1. Numbers' = Numbers
      BY <2>1 DEF Numbers, Exists
    <3> QED
      BY <2>2, <3>1, GapKept DEF IInv, AloneInv, At
  <2> HIDE DEF i
  <2> QED
    BY <1>1, <1>2, <2>1, <2>2, <2>3, StaysInv DEF i
<1>4. CASE k \notin Numbers \ {inv[i].number}
  <2>1. /\ inv' = [inv EXCEPT ![i] = row]
        /\ IF w \in Runs THEN Goto(w, "mail") ELSE End(w)
        /\ Shows(w, "FINALIZED")
    BY <1>4 DEF Finalize
  <2>2. /\ row \in InvRow /\ row.status = "FINALIZED" /\ row.number = k
        /\ row.scope = inv[i].scope /\ row.auto = inv[i].auto
        /\ row.lines = inv[i].lines /\ row.total = inv[i].total
        /\ row.mailed = inv[i].mailed
    <3> DEFINE half == [inv[i] EXCEPT !.status = "FINALIZED"]
    <3>1. /\ half \in InvRow /\ half.status = "FINALIZED"
          /\ half.scope = inv[i].scope /\ half.auto = inv[i].auto
          /\ half.lines = inv[i].lines /\ half.total = inv[i].total
          /\ half.mailed = inv[i].mailed
      BY <1>1 DEF InvRow, Statuses, Final
    <3>2. row = [half EXCEPT !.number = k]
      OBVIOUS
    <3> HIDE DEF half, k
    <3> QED
      BY <1>1, <3>1, <3>2 DEF InvRow
  <2>3. /\ CallType' /\ \A v \in Workers : v # w => call'[v] = call[v]
        /\ call'[w] # None =>
             w \in Runs /\ call'[w].at = "mail" /\ call'[w].inv = i
    <3>1. CASE w \in Runs
      BY <1>1, <2>1, <3>1, CallMoved DEF Goto, Labels, IInv, BaseInv
    <3>2. CASE w \notin Runs
      BY <2>1, <3>2, CallWritten DEF End, IInv, BaseInv
    <3> QED
      BY <3>1, <3>2
  <2>4. PageStays
    <3>1. w \in Clerks => call'[w] = None
      BY <2>3, BillingAssumption
    <3> QED
      BY <1>1, <2>1, <3>1, PageShows DEF IInv, BaseInv, Statuses, Final
  <2> HIDE DEF row
  <2>5. \A j \in Invoices \ {i} :
          Exists(j) /\ inv[j].number = row.number => row.number = None
    <3> SUFFICES ASSUME NEW j \in Invoices \ {i}, Exists(j), inv[j].number = k
                 PROVE  k = None
      BY <2>2
    <3>1. k # None => k \in Numbers
      BY DEF Numbers
    <3>2. k # None => k = inv[i].number
      BY <1>4, <3>1
    <3> QED
      BY <1>1, <3>2, OwnNumber
  <2>6. Alone => StepAlone(w, row)
    <3> SUFFICES ASSUME Alone PROVE StepAlone(w, row)
      OBVIOUS
    <3>1. /\ inv[i].status = "DRAFT"
          /\ i \notin cut => inv[i].total = Sum(inv[i].lines)
          /\ GapInv
      BY <1>1, AloneFacts
    <3>2. inv[i].number = None /\ inv[i].mailed = None
      BY <1>1, <3>1
    <3>3. k # None /\ k \notin Numbers
      BY <1>1, <1>4, <3>2, BillingAssumption
    <3>4. Numbers' = Numbers \cup {k}
      <4>1. \A j \in Invoices : inv'[j] = IF j = i THEN row ELSE inv[j]
        BY <2>1 DEF row, IInv, BaseInv, InvType
      <4>2. \A n : n \in Numbers <=>
              n # None /\ \E j \in Invoices : Exists(j) /\ inv[j].number = n
        BY DEF Numbers
      <4>3. \A n : n \in Numbers' <=>
              /\ n # None
              /\ \E j \in Invoices :
                   inv'[j].status \notin {"none", "deleted"}
                     /\ inv'[j].number = n
        BY DEF Numbers, Exists
      <4>4. ASSUME NEW n PROVE n \in Numbers' <=> n \in Numbers \cup {k}
        <5>1. CASE n = k
          BY <1>1, <2>2, <3>3, <4>1, <4>3, <5>1
        <5>2. CASE n # k
          <6>1. n \in Numbers' => n \in Numbers
            BY <2>2, <4>1, <4>2, <4>3, <5>2 DEF Exists
          <6>2. n \in Numbers => n \in Numbers'
            BY <3>2, <4>1, <4>2, <4>3, <5>2 DEF Exists
          <6> QED
            BY <5>2, <6>1, <6>2
        <5> QED
          BY <5>1, <5>2
      <4> QED
        BY <4>4
    <3>5. GapInv'
      <4>1. PICK n \in Nat :
              /\ Numbers = 1..n
              /\ \A v \in Workers :
                   At(v, "assign") => call[v].read \in 1..(n + 1)
        BY <3>1 DEF GapInv
      <4>2. k \in 1..(n + 1)
        BY <1>1, <4>1 DEF At
      <4>3. k = n + 1
        BY <3>3, <4>1, <4>2
      <4>4. Numbers' = 1..(n + 1) /\ n + 1 \in Nat
        BY <3>4, <4>1, <4>3
      <4>5. \A v \in Workers : At(v, "assign")'
              => At(v, "assign") /\ call'[v].read = call[v].read
        BY <2>3 DEF At
      <4>6. \A v \in Workers : At(v, "assign")'
              => call'[v].read \in 1..((n + 1) + 1)
        BY <4>1, <4>5
      <4> QED
        BY <4>4, <4>6 DEF GapInv
    <3>6. /\ row.status \in Final /\ row.status # "SENT" /\ row.mailed = None
          /\ i \notin cut' => row.total = Sum(row.lines)
          /\ call'[w] # None => call'[w].at = "mail"
      BY <1>2, <2>2, <2>3, <3>1, <3>2 DEF Final
    <3> QED
      BY <3>5, <3>6 DEF StepAlone
  <2>7. row.status = "FINALIZED" /\ row.number \in Nat
    BY <1>1, <2>2
  <2> HIDE DEF i, k
  <2> QED
    BY <1>1, <1>2, <2>1, <2>2, <2>3, <2>4, <2>5, <2>6, <2>7, StepInv DEF i
<1> QED
  BY <1>3, <1>4

LEMMA StepKeeps ==
  ASSUME IInv, NEW w \in Workers, Step(w)
  PROVE  IInv'
BY WriteLineStep, RecomputeTotalsStep, SetTotalStep, DeleteRowStep,
   NextNumberStep, FinalizeStep, MailStep, SetStatusStep, CallFailsStep
DEF Step

-----------------------------------------------------------------------------
(***************************************************************************)
(* The buttons.                                                            *)
(***************************************************************************)
LEMMA ClickStep ==
  ASSUME IInv, NEW c \in Clerks, page[c] # None,
         NEW at \in {"line", "delete", "number", "mail", "paid"}, NEW need,
         need = IF at \in {"mail", "paid"} THEN Final ELSE {"DRAFT"},
         Clicks(c, need, at)
  PROVE  IInv'
<1> DEFINE i == page[c].inv
           new == [inv |-> i, at |-> at, read |-> None]
<1> USE DEF IInv, BaseInv
<1>1. c \in Workers /\ i \in Invoices
  BY DEF Workers, PageType, Forms
<1>2. /\ call[c] = None /\ Exists(i) /\ inv[i].status \in need
      /\ Alone => Untouched(i)
      /\ call' = [call EXCEPT ![c] = new]
      /\ UNCHANGED <<books, inv, page, run, cut, faults>>
  BY DEF Clicks, Begins
<1>3. new \in Calls /\ new.inv = i /\ new.at = at
  BY <1>1 DEF Calls, Labels
<1> HIDE DEF new
<1>4. /\ CallType' /\ call'[c] = new
      /\ \A v \in Workers : v # c => call'[v] = call[v]
  BY <1>1, <1>2, <1>3, CallWritten
<1> HIDE DEF i
<1>5. /\ inv[i].status # "none"
      /\ at \in {"mail", "paid"} => inv[i].status \in Final
      /\ at \notin {"mail", "paid"} => inv[i].status = "DRAFT"
      /\ at \in {"mail", "paid"} =>
           inv[i].number \in Nat /\ inv[i].status # "DRAFT"
  BY <1>1, <1>2 DEF RowInv, Exists, Final
<1>6. /\ BooksType' /\ InvType' /\ PageType' /\ RunType' /\ CountType'
      /\ RowInv' /\ NumbersInv' /\ Numbers' = Numbers
  BY <1>2 DEF BooksType, InvType, PageType, RunType, CountType, RowInv,
              NumbersInv, Numbers, Exists
<1>7. CallInv'
  <2> SUFFICES ASSUME NEW v \in Workers PROVE CallOK(v)'
    BY DEF CallInv
  <2>1. CASE v = c
    BY <1>2, <1>3, <1>4, <1>5, <2>1 DEF CallOK
  <2>2. CASE v # c
    BY <1>2, <1>4, <2>2 DEF CallInv, CallOK
  <2> QED
    BY <2>1, <2>2
<1>8. PageInv'
  BY <1>2, <1>4 DEF PageInv, Workers
<1>9. IdleInv'
  BY <1>2, <1>4, BillingAssumption DEF IdleInv, Workers
<1>10. Alone => AloneInv'
  <2> SUFFICES ASSUME Alone PROVE AloneInv'
    OBVIOUS
  <2> USE DEF AloneInv
  <2>1. OwnInv'
    BY <1>2, <1>3, <1>4 DEF OwnInv, Untouched
  <2>2. StageInv'
    BY <1>2, <1>3, <1>4, <1>5 DEF StageInv
  <2>3. GapInv'
    BY <1>3, <1>4, <1>6, GapKept DEF At
  <2>4. TotalInv'
    <3>1. \A j \in Invoices : Summing(j) => Summing(j)'
      BY <1>2, <1>4 DEF Summing
    <3>2. \A v \in Workers : At(v, "total")' => v # c /\ At(v, "total")
      BY <1>3, <1>4 DEF At
    <3>3. \A j \in Invoices : Exists(j)' /\ j \notin cut' /\ ~Summing(j)'
            => inv'[j].total = Sum(inv'[j].lines)
      BY <1>2, <3>1 DEF TotalInv, Exists
    <3>4. \A v \in Workers : At(v, "total")'
            => call'[v].read = Sum(inv'[call'[v].inv].lines)
      BY <1>2, <1>4, <3>2 DEF TotalInv
    <3> QED
      BY <3>3, <3>4 DEF TotalInv
  <2>5. MailedInv'
    <3>1. \A v \in Workers : At(v, "sent")' => v # c /\ At(v, "sent")
      BY <1>3, <1>4 DEF At
    <3>2. \A v \in Workers : At(v, "sent")'
            => inv'[call'[v].inv].mailed # None
      BY <1>2, <1>4, <3>1 DEF MailedInv
    <3> QED
      BY <1>2, <3>2 DEF MailedInv, Exists
  <2>6. RunInv'
    BY <1>2, RunsKept DEF Exists
  <2> QED
    BY <2>1, <2>2, <2>3, <2>4, <2>5, <2>6
<1> QED
  BY <1>4, <1>6, <1>7, <1>8, <1>9, <1>10

LEMMA ButtonStep ==
  ASSUME IInv, NEW c \in Clerks, Button(c)
  PROVE  IInv'
<1>1. CASE EditLine(c)
  BY <1>1, ClickStep DEF EditLine, IsDraft
<1>2. CASE DeleteInvoice(c)
  BY <1>2, ClickStep DEF DeleteInvoice, IsDraft
<1>3. CASE FinalizeInvoice(c)
  BY <1>3, ClickStep DEF FinalizeInvoice, IsDraft
<1>4. CASE SendInvoice(c)
  BY <1>4, ClickStep DEF SendInvoice, CanSend
<1>5. CASE MarkPaid(c)
  BY <1>5, ClickStep DEF MarkPaid, Lifecycle
<1> QED
  BY <1>1, <1>2, <1>3, <1>4, <1>5 DEF Button

-----------------------------------------------------------------------------
(***************************************************************************)
(* The drafts: a row that was free, of no call and no page, is written;    *)
(* a run's call may start on it.                                           *)
(***************************************************************************)
LEMMA DraftWritten ==
  ASSUME IInv, NEW i \in Invoices, NEW t \in Scopes, NEW auto \in BOOLEAN,
         CreateDraft(i, t, auto),
         CallType', NEW w \in Workers, call[w] = None,
         call'[w] # None => call'[w].inv = i /\ call'[w].at = "number",
         \A v \in Workers : v # w => call'[v] = call[v],
         UNCHANGED <<books, cut, faults>>
  PROVE  /\ BooksType' /\ InvType' /\ CountType'
         /\ RowInv' /\ NumbersInv' /\ CallInv'
         /\ Alone => /\ OwnInv' /\ StageInv' /\ GapInv'
                     /\ TotalInv' /\ MailedInv'
         /\ ~Exists(i) /\ inv[i].status = "none"
         /\ inv'[i].status = "DRAFT" /\ inv'[i].scope = t
         /\ inv'[i].auto = auto
         /\ \A j \in Invoices : j # i => inv'[j] = inv[j]
<1> USE DEF IInv, BaseInv
<1> DEFINE l == ComputeStatement(t)
           row == [inv[i] EXCEPT !.status = "DRAFT", !.scope = t,
                     !.auto = auto, !.lines = l, !.total = Sum(l)]
<1>1. inv[i].status = "none" /\ inv' = [inv EXCEPT ![i] = row]
  BY DEF CreateDraft
<1>2. l \in Lines /\ Sum(l) \in Nat
  <2>1. books[t] \in Books
    BY DEF BooksType
  <2>2. l \in Lines
    BY <2>1, BillingAssumption DEF ComputeStatement, Books, Lines
  <2> QED
    BY <2>2, SumIsNat
<1>3. /\ inv[i] \in InvRow
      /\ inv[i].number = None /\ inv[i].mailed = None
  BY <1>1 DEF InvType, RowInv
<1> HIDE DEF l
<1>4. /\ row.status = "DRAFT" /\ row.scope = t /\ row.auto = auto
      /\ row.lines = l /\ row.total = Sum(l)
      /\ row.number = None /\ row.mailed = None
      /\ row \in InvRow
  <2> DEFINE sum == Sum(l)
             a == [inv[i] EXCEPT !.status = "DRAFT", !.scope = t]
             b == [a EXCEPT !.auto = auto, !.lines = l]
  <2>1. /\ a \in InvRow /\ a.status = "DRAFT" /\ a.scope = t
        /\ a.number = None /\ a.mailed = None
    BY <1>3 DEF InvRow, Statuses
  <2>2. row = [b EXCEPT !.total = sum]
    OBVIOUS
  <2> HIDE DEF a, sum
  <2>3. /\ b \in InvRow /\ b.status = "DRAFT" /\ b.scope = t
        /\ b.auto = auto /\ b.lines = l
        /\ b.number = None /\ b.mailed = None
    BY <1>2, <2>1 DEF InvRow
  <2>4. sum \in Nat
    BY <1>2 DEF sum
  <2> HIDE DEF b
  <2>5. /\ row.status = "DRAFT" /\ row.scope = t /\ row.auto = auto
        /\ row.lines = l /\ row.total = sum
        /\ row.number = None /\ row.mailed = None
        /\ row \in InvRow
    BY <2>2, <2>3, <2>4 DEF InvRow
  <2> QED
    BY <2>5 DEF sum
<1> HIDE DEF row
<1>5. /\ InvType' /\ RowInv' /\ NumbersInv' /\ inv'[i] = row
      /\ \A j \in Invoices : j # i => inv'[j] = inv[j]
  BY <1>1, <1>4, RowWritten DEF Final
<1>6. \A v \in Workers : call[v] # None
        => call[v].inv # i /\ call[v].inv \in Invoices /\ v # w
  BY <1>1 DEF CallInv, CallOK, CallType, Calls
<1>7. ~Exists(i)
  BY <1>1 DEF Exists
<1>8. Numbers' = Numbers
  BY <1>1, <1>4, <1>7, NumbersSame
<1>9. CallInv'
  <2> SUFFICES ASSUME NEW v \in Workers PROVE CallOK(v)'
    BY DEF CallInv
  <2>1. CASE v = w
    BY <1>4, <1>5, <2>1 DEF CallOK
  <2>2. CASE v # w
    BY <1>5, <1>6, <2>2 DEF CallInv, CallOK
  <2> QED
    BY <2>1, <2>2
<1>10. BooksType' /\ CountType'
  BY DEF BooksType, CountType
<1>11. ASSUME Alone
       PROVE  OwnInv' /\ StageInv' /\ GapInv' /\ TotalInv' /\ MailedInv'
  <2> USE <1>11 DEF AloneInv
  <2>1. OwnInv'
    BY <1>6 DEF OwnInv
  <2>2. StageInv'
    <3> SUFFICES ASSUME NEW v \in Workers, call'[v] # None
                 PROVE  IF call'[v].at \in {"mail", "sent", "paid"}
                        THEN inv'[call'[v].inv].status \in Final
                        ELSE inv'[call'[v].inv].status = "DRAFT"
      BY DEF StageInv
    <3>1. CASE v = w
      BY <1>4, <1>5, <3>1
    <3>2. CASE v # w
      BY <1>5, <1>6, <3>2 DEF StageInv
    <3> QED
      BY <3>1, <3>2
  <2>3. GapInv'
    <3>1. \A v \in Workers : At(v, "assign")'
            => At(v, "assign") /\ call'[v].read = call[v].read
      BY DEF At
    <3> QED
      BY <1>8, <3>1, GapKept
  <2>4. TotalInv'
    <3>1. \A j \in Invoices : Summing(j) => Summing(j)'
      BY <1>6 DEF Summing
    <3>2. ASSUME NEW j \in Invoices, Exists(j)', j \notin cut', ~Summing(j)'
          PROVE  inv'[j].total = Sum(inv'[j].lines)
      <4>1. CASE j = i
        BY <1>4, <1>5, <4>1
      <4>2. CASE j # i
        <5>1. Exists(j) /\ inv'[j] = inv[j]
          BY <1>5, <3>2, <4>2 DEF Exists
        <5> QED
          BY <3>1, <3>2, <5>1 DEF TotalInv
      <4> QED
        BY <4>1, <4>2
    <3>3. ASSUME NEW v \in Workers, At(v, "total")'
          PROVE  call'[v].read = Sum(inv'[call'[v].inv].lines)
      <4>1. v # w /\ At(v, "total")
        BY <3>3 DEF At
      <4> QED
        BY <1>5, <1>6, <4>1 DEF TotalInv, At
    <3> QED
      BY <3>2, <3>3 DEF TotalInv
  <2>5. MailedInv'
    <3>1. \A j \in Invoices : Exists(j)' =>
            /\ inv'[j].status = "SENT" => inv'[j].mailed # None
            /\ inv'[j].mailed # None =>
                 /\ inv'[j].mailed.number = inv'[j].number
                 /\ inv'[j].mailed.total = inv'[j].total
      BY <1>4, <1>5 DEF MailedInv, Exists
    <3>2. ASSUME NEW v \in Workers, At(v, "sent")'
          PROVE  inv'[call'[v].inv].mailed # None
      <4>1. v # w /\ At(v, "sent")
        BY <3>2 DEF At
      <4> QED
        BY <1>5, <1>6, <4>1 DEF MailedInv, At
    <3> QED
      BY <3>1, <3>2 DEF MailedInv
  <2> QED
    BY <2>1, <2>2, <2>3, <2>4, <2>5
<1> QED
  BY <1>1, <1>4, <1>5, <1>7, <1>9, <1>10, <1>11

LEMMA CreateInvoiceStep ==
  ASSUME IInv, NEW c \in Clerks, NEW i \in Invoices, NEW t \in Scopes,
         CreateInvoice(c, i, t)
  PROVE  IInv'
<1> DEFINE p == [inv |-> i, shown |-> "DRAFT"]
<1>1. /\ c \in Workers /\ call[c] = None /\ CreateDraft(i, t, FALSE)
      /\ page' = [page EXCEPT ![c] = p]
      /\ UNCHANGED <<books, call, run, cut, faults>>
  BY DEF CreateInvoice, Workers
<1>2. p \in Forms /\ p.inv = i
  BY DEF Forms, Statuses
<1> HIDE DEF p
<1>3. CallType'
  BY <1>1 DEF IInv, BaseInv, CallType
<1>4. /\ BooksType' /\ InvType' /\ CountType'
      /\ RowInv' /\ NumbersInv' /\ CallInv'
      /\ Alone => /\ OwnInv' /\ StageInv' /\ GapInv'
                  /\ TotalInv' /\ MailedInv'
      /\ ~Exists(i) /\ inv'[i].status = "DRAFT" /\ inv'[i].auto = FALSE
      /\ \A j \in Invoices : j # i => inv'[j] = inv[j]
  BY <1>1, <1>3, DraftWritten
<1>5. PageType' /\ RunType'
  BY <1>1, <1>2 DEF IInv, BaseInv, PageType, RunType
<1>6. PageInv'
  <2>1. page'[c] = p /\ \A d \in Clerks : d # c => page'[d] = page[d]
    BY <1>1 DEF IInv, BaseInv, PageType
  <2>2. \A d \in Clerks : page[d] # None => page[d].inv \in Invoices
    BY DEF IInv, BaseInv, PageType, Forms
  <2>3. \A j \in Invoices : inv[j].status # "none" => inv'[j].status # "none"
    BY <1>4
  <2>4. ASSUME NEW d \in Clerks
        PROVE  /\ page'[d] # None => inv'[page'[d].inv].status # "none"
               /\ call'[d] # None => page'[d] # None
    <3>1. CASE d = c
      BY <1>1, <1>2, <1>4, <2>1, <3>1
    <3>2. CASE d # c
      BY <1>1, <2>1, <2>2, <2>3, <3>2 DEF IInv, BaseInv, PageInv
    <3> QED
      BY <3>1, <3>2
  <2> QED
    BY <2>4 DEF PageInv
<1>7. IdleInv'
  BY <1>1 DEF IInv, BaseInv, IdleInv
<1>8. Alone => RunInv'
  <2> SUFFICES ASSUME Alone PROVE RunInv'
    OBVIOUS
  <2>1. RunInv
    BY DEF IInv, AloneInv
  <2>2. \A j \in Invoices : Exists(j)' /\ inv'[j].auto
          => Exists(j) /\ inv'[j] = inv[j]
    BY <1>4 DEF Exists
  <2> HIDE DEF p
  <2> QED
    BY <1>1, <2>1, <2>2, RunsKept
<1> QED
  BY <1>3, <1>4, <1>5, <1>6, <1>7, <1>8 DEF IInv, BaseInv, AloneInv

LEMMA DraftStep ==
  ASSUME IInv, NEW r \in Runs, NEW i \in Invoices, Draft(r, i)
  PROVE  IInv'
<1> DEFINE t == run[r].at
           new == [inv |-> i, at |-> "number", read |-> None]
           rr == [run[r] EXCEPT !.at = None]
<1>1. /\ r \in Workers /\ run[r] # None /\ t # None /\ run[r] \in RunRow
      /\ t \in Scopes /\ call[r] = None
  BY DEF Draft, Workers, IInv, BaseInv, RunType, RunRow, IdleInv
<1>2. /\ CreateDraft(i, t, TRUE)
      /\ run' = [run EXCEPT ![r] = rr]
      /\ call' = IF AutoSend THEN [call EXCEPT ![r] = new] ELSE call
      /\ UNCHANGED <<books, page, cut, faults>>
  BY DEF Draft
<1>3. rr \in RunRow /\ rr.at = None /\ rr.todo = run[r].todo
  BY <1>1 DEF RunRow
<1> HIDE DEF rr
<1>4. /\ run'[r] = rr /\ \A q \in Runs : q # r => run'[q] = run[q]
      /\ RunType'
  BY <1>2, <1>3 DEF IInv, BaseInv, RunType
<1>5. new \in Calls /\ new.inv = i /\ new.at = "number"
  BY DEF Calls, Labels
<1> HIDE DEF new
<1>6. /\ CallType'
      /\ call'[r] # None => call'[r].inv = i /\ call'[r].at = "number"
      /\ \A v \in Workers : v # r => call'[v] = call[v]
  <2>1. CASE AutoSend
    BY <1>1, <1>2, <1>5, <2>1, CallWritten DEF IInv, BaseInv
  <2>2. CASE ~AutoSend
    BY <1>1, <1>2, <2>2 DEF IInv, BaseInv, CallType
  <2> QED
    BY <2>1, <2>2
<1> HIDE DEF t
<1>7. /\ BooksType' /\ InvType' /\ CountType'
      /\ RowInv' /\ NumbersInv' /\ CallInv'
      /\ Alone => /\ OwnInv' /\ StageInv' /\ GapInv'
                  /\ TotalInv' /\ MailedInv'
      /\ ~Exists(i) /\ inv'[i].status = "DRAFT" /\ inv'[i].scope = t
      /\ inv'[i].auto = TRUE
      /\ \A j \in Invoices : j # i => inv'[j] = inv[j]
  <2>1. PICK auto \in BOOLEAN : auto = TRUE
    OBVIOUS
  <2>2. CreateDraft(i, t, auto)
    BY <1>2, <2>1
  <2>3. /\ BooksType' /\ InvType' /\ CountType'
        /\ RowInv' /\ NumbersInv' /\ CallInv'
        /\ Alone => /\ OwnInv' /\ StageInv' /\ GapInv'
                    /\ TotalInv' /\ MailedInv'
        /\ ~Exists(i) /\ inv'[i].status = "DRAFT" /\ inv'[i].scope = t
        /\ inv'[i].auto = auto
        /\ \A j \in Invoices : j # i => inv'[j] = inv[j]
    BY <1>1, <1>2, <1>6, <2>2, DraftWritten
  <2> QED
    BY <2>1, <2>3
<1>8. PageType' /\ PageInv'
  <2>1. \A d \in Clerks : call'[d] = call[d]
    BY <1>6, BillingAssumption DEF Workers
  <2>2. \A d \in Clerks : page[d] # None => page[d].inv \in Invoices
    BY DEF IInv, BaseInv, PageType, Forms
  <2>3. \A j \in Invoices : inv[j].status # "none" => inv'[j].status # "none"
    BY <1>7
  <2> QED
    BY <1>2, <2>1, <2>2, <2>3 DEF IInv, BaseInv, PageType, PageInv
<1>9. IdleInv'
  BY <1>3, <1>4, <1>6 DEF IInv, BaseInv, IdleInv, Workers
<1>10. ASSUME Alone PROVE RunInv'
  <2> USE <1>10
  <2>1. RunInv
    BY DEF IInv, AloneInv
  <2>2. ~Drafted(t) /\ t \notin run[r].todo
    BY <1>1, <2>1 DEF RunInv, t
  <2>3. \A j \in Invoices : Exists(j)' /\ j # i => Exists(j) /\ inv'[j] = inv[j]
    BY <1>7 DEF Exists
  <2>4. \A u : u # t => (Drafted(u)' => Drafted(u))
    BY <1>7, <2>3 DEF Drafted, InvoicesOf
  <2>5. \A j \in Invoices : Exists(j) /\ inv[j].auto => inv[j].scope # t
    BY <2>2 DEF Drafted, InvoicesOf
  <2>6. \A j, k \in Invoices :
          /\ Exists(j)' /\ Exists(k)' /\ inv'[j].auto /\ inv'[k].auto
          /\ inv'[j].scope = inv'[k].scope
          => j = k
    <3> SUFFICES ASSUME NEW j \in Invoices, NEW k \in Invoices,
                        Exists(j)', Exists(k)', inv'[j].auto, inv'[k].auto,
                        inv'[j].scope = inv'[k].scope, j # k
                 PROVE  FALSE
      OBVIOUS
    <3>1. CASE j = i
      BY <1>7, <2>3, <2>5, <3>1
    <3>2. CASE k = i
      BY <1>7, <2>3, <2>5, <3>2
    <3>3. CASE j # i /\ k # i
      BY <2>1, <2>3, <3>3 DEF RunInv
    <3> QED
      BY <3>1, <3>2, <3>3
  <2>7. \A q \in Runs : run'[q] # None => q = r
    BY <1>1, <1>4, <2>1 DEF RunInv
  <2>8. \A u \in rr.todo \cap Events : ~Drafted(u)'
    <3>1. \A u \in run[r].todo \cap Events : u # t /\ ~Drafted(u)
      BY <1>1, <2>1, <2>2 DEF RunInv
    <3> QED
      BY <1>3, <2>4, <3>1
  <2>9. None \notin rr.todo
    <3>1. rr.todo \subseteq Scopes
      BY <1>3 DEF RunRow
    <3> QED
      BY <3>1, BillingAssumption DEF Scopes
  <2> QED
    BY <1>3, <1>4, <2>6, <2>7, <2>8, <2>9 DEF RunInv
<1> QED
  BY <1>4, <1>6, <1>7, <1>8, <1>9, <1>10 DEF IInv, BaseInv, AloneInv

-----------------------------------------------------------------------------
(***************************************************************************)
(* The books, the pages and the runs, which leave the invoices alone.      *)
(***************************************************************************)
LEMMA RowsStay ==
  ASSUME IInv, UNCHANGED <<inv, call, cut>>,
         BooksType', PageType', RunType', CountType', PageInv', IdleInv',
         Alone => RunInv'
  PROVE  IInv'
BY RowsKept DEF IInv, BaseInv, AloneInv

LEMMA BooksStep ==
  ASSUME IInv, NEW t \in Scopes, ScopeEnds(t) \/ RefundOrder(t)
  PROVE  IInv'
<1>1. UNCHANGED <<inv, call, page, run, cut, faults>>
  BY DEF ScopeEnds, RefundOrder
<1>2. BooksType'
  <2>1. PICK b \in Books : books' = [books EXCEPT ![t] = b]
    <3>1. books[t] \in Books /\ books \in [Scopes -> Books]
      BY DEF IInv, BaseInv, BooksType
    <3>2. CASE ScopeEnds(t)
      <4> DEFINE b == [books[t] EXCEPT !.over = TRUE]
      <4>1. b \in Books
        BY <3>1 DEF Books
      <4>2. books' = [books EXCEPT ![t] = b]
        BY <3>2 DEF ScopeEnds
      <4> QED
        BY <4>1, <4>2
    <3>3. CASE RefundOrder(t)
      <4> DEFINE a == [books[t] EXCEPT !.paid = 0]
                 b == [a EXCEPT !.back = 1]
      <4>1. a \in Books
        BY <3>1 DEF Books
      <4>2. b \in Books
        BY <4>1 DEF Books
      <4>3. books' = [books EXCEPT ![t] = b]
        BY <3>1, <3>3 DEF RefundOrder
      <4> QED
        BY <4>2, <4>3
    <3> QED
      BY <3>2, <3>3
  <2> QED
    BY <2>1 DEF IInv, BaseInv, BooksType
<1>3. PageType' /\ RunType' /\ CountType' /\ PageInv' /\ IdleInv'
  BY <1>1
  DEF IInv, BaseInv, PageType, RunType, CountType, PageInv, IdleInv
<1>4. Alone => RunInv'
  BY <1>1, RunsKept DEF IInv, AloneInv, Exists
<1> QED
  BY <1>1, <1>2, <1>3, <1>4, RowsStay

LEMMA OpenInvoiceStep ==
  ASSUME IInv, NEW c \in Clerks, NEW i \in Invoices, OpenInvoice(c, i)
  PROVE  IInv'
<1> DEFINE p == [inv |-> i, shown |-> inv[i].status]
<1>1. /\ call[c] = None /\ Exists(i) /\ page' = [page EXCEPT ![c] = p]
      /\ UNCHANGED <<books, inv, call, run, cut, faults>>
  BY DEF OpenInvoice
<1>2. p \in Forms /\ p.inv = i
  BY DEF Forms, IInv, BaseInv, InvType, InvRow
<1> HIDE DEF p
<1>3. /\ page'[c] = p /\ \A d \in Clerks : d # c => page'[d] = page[d]
      /\ PageType'
  BY <1>1, <1>2 DEF IInv, BaseInv, PageType
<1>4. PageInv'
  <2>1. inv[i].status # "none"
    BY <1>1 DEF Exists
  <2> QED
    BY <1>1, <1>2, <1>3, <2>1 DEF IInv, BaseInv, PageInv
<1>5. BooksType' /\ RunType' /\ CountType' /\ IdleInv'
  BY <1>1 DEF IInv, BaseInv, BooksType, RunType, CountType, IdleInv
<1>6. Alone => RunInv'
  BY <1>1, RunsKept DEF IInv, AloneInv, Exists
<1> QED
  BY <1>1, <1>3, <1>4, <1>5, <1>6, RowsStay

\* A run's row is written, or it ends.
LEMMA RunWritten ==
  ASSUME IInv, NEW r \in Runs, NEW rr \in RunRow \cup {None},
         run' = [run EXCEPT ![r] = rr],
         UNCHANGED <<books, inv, call, page, cut>>, CountType',
         rr # None /\ rr.at # None => call[r] = None,
         Alone /\ rr # None =>
           /\ \A q \in Runs : q # r => run[q] = None
           /\ rr.at # None => ~Drafted(rr.at)
           /\ rr.at \notin rr.todo
           /\ \A t \in rr.todo \cap Events : ~Drafted(t)
  PROVE  IInv'
<1>1. /\ run'[r] = rr /\ \A q \in Runs : q # r => run'[q] = run[q]
      /\ RunType'
  BY DEF IInv, BaseInv, RunType
<1>2. BooksType' /\ PageType' /\ PageInv'
  BY DEF IInv, BaseInv, BooksType, PageType, PageInv
<1>3. IdleInv'
  BY <1>1 DEF IInv, BaseInv, IdleInv
<1>4. ASSUME Alone PROVE RunInv'
  <2>1. RunInv
    BY <1>4 DEF IInv, AloneInv
  <2>2. \A t : Drafted(t)' <=> Drafted(t)
    BY DEF Drafted, InvoicesOf, Exists
  <2>3. \A q, s \in Runs : run'[q] # None /\ run'[s] # None => q = s
    BY <1>1, <1>4, <2>1 DEF RunInv
  <2>4. ASSUME NEW q \in Runs, run'[q] # None
        PROVE  /\ \A u : u = run'[q].at /\ u # None => ~Drafted(u)
               /\ run'[q].at \notin run'[q].todo
               /\ \A t \in run'[q].todo \cap Events : ~Drafted(t)
    <3>1. CASE q = r
      BY <1>1, <1>4, <2>4, <3>1
    <3>2. CASE q # r
      BY <1>1, <2>1, <2>4, <3>2 DEF RunInv
    <3> QED
      BY <3>1, <3>2
  <2>5. \A i, j \in Invoices :
          /\ Exists(i)' /\ Exists(j)' /\ inv'[i].auto /\ inv'[j].auto
          /\ inv'[i].scope = inv'[j].scope
          => i = j
    BY <2>1 DEF RunInv, Exists
  <2> QED
    BY <2>2, <2>3, <2>4, <2>5 DEF RunInv, Drafted, InvoicesOf, Exists
<1> QED
  BY <1>1, <1>2, <1>3, <1>4, RowsStay

LEMMA RunAutoStep ==
  ASSUME IInv, NEW r \in Runs, RunAuto(r)
  PROVE  IInv'
<1>1. PICK kind \in {Events, Months} :
        run' = [run EXCEPT ![r] = [todo |-> Due(kind), at |-> None]]
  BY DEF RunAuto
<1> DEFINE rr == [todo |-> Due(kind), at |-> None]
<1>2. /\ run[r] = None /\ (Alone => \A q \in Runs : run[q] = None)
      /\ UNCHANGED <<books, inv, call, page, cut, faults>>
  BY DEF RunAuto
<1>3. Due(kind) \subseteq Scopes
  BY DEF Due, Scopes
<1>4. rr \in RunRow /\ rr.at = None /\ rr.todo = Due(kind)
  BY <1>3 DEF RunRow
<1>5. None \notin Due(kind)
  BY <1>3, BillingAssumption DEF Scopes
<1>6. \A t \in Due(kind) \cap Events : ~Drafted(t)
  BY DEF Due, Drafted
<1> HIDE DEF rr
<1>7. CountType'
  BY <1>2 DEF IInv, BaseInv, CountType
<1>8. run' = [run EXCEPT ![r] = rr]
  BY <1>1 DEF rr
<1> QED
  BY <1>2, <1>4, <1>5, <1>6, <1>7, <1>8, RunWritten

LEMMA ConsiderStep ==
  ASSUME IInv, NEW r \in Runs, NEW t \in Scopes, Consider(r, t)
  PROVE  IInv'
<1> DEFINE at == IF AlreadyBilled(t) \/ NothingToBill(t) THEN None ELSE t
           rr == [todo |-> run[r].todo \ {t}, at |-> at]
<1>1. /\ run[r] # None /\ run[r].at = None /\ call[r] = None
      /\ t \in run[r].todo /\ run' = [run EXCEPT ![r] = rr]
      /\ UNCHANGED <<books, inv, call, page, cut, faults>>
  BY DEF Consider, Idle
<1>2. run[r] \in RunRow /\ run[r].todo \subseteq Scopes
  BY <1>1 DEF IInv, BaseInv, RunType, RunRow
<1>3. at \in Scopes \cup {None} /\ (at # None => at = t /\ ~AlreadyBilled(t))
  OBVIOUS
<1> HIDE DEF at
<1>4. rr \in RunRow /\ rr.at = at /\ rr.todo = run[r].todo \ {t}
  BY <1>2, <1>3 DEF RunRow
<1> HIDE DEF rr
<1>5. CountType'
  BY <1>1 DEF IInv, BaseInv, CountType
<1>6. ASSUME Alone
      PROVE  /\ \A q \in Runs : q # r => run[q] = None
             /\ rr.at # None => ~Drafted(rr.at)
             /\ rr.at \notin rr.todo
             /\ \A u \in rr.todo \cap Events : ~Drafted(u)
  <2>1. RunInv
    BY <1>6 DEF IInv, AloneInv
  <2>2. \A u \in run[r].todo \cap Events : ~Drafted(u)
    BY <1>1, <2>1 DEF RunInv
  <2>3. \A q \in Runs : q # r => run[q] = None
    BY <1>1, <2>1 DEF RunInv
  <2>4. at # None => ~Drafted(at)
    <3>1. CASE t \in Events
      BY <1>1, <1>3, <2>2, <3>1
    <3>2. CASE t \in Months
      BY <1>3, <3>2 DEF AlreadyBilled, Drafted
    <3> QED
      BY <3>1, <3>2 DEF Scopes
  <2>5. None \notin rr.todo /\ t \notin rr.todo
    BY <1>2, <1>4, BillingAssumption DEF Scopes
  <2> QED
    BY <1>3, <1>4, <2>2, <2>3, <2>4, <2>5
<1> QED
  BY <1>1, <1>4, <1>5, <1>6, RunWritten

LEMMA RunClosesStep ==
  ASSUME IInv, NEW r \in Runs, DraftFails(r) \/ RunEnds(r)
  PROVE  IInv'
<1>1. CASE DraftFails(r)
  <2> DEFINE rr == [run[r] EXCEPT !.at = None]
  <2>1. /\ run[r] # None /\ faults < MaxFaults /\ faults' = faults + 1
        /\ run' = [run EXCEPT ![r] = rr]
        /\ UNCHANGED <<books, inv, call, page, cut>>
    BY <1>1 DEF DraftFails
  <2>2. run[r] \in RunRow
    BY <2>1 DEF IInv, BaseInv, RunType
  <2>3. rr \in RunRow /\ rr.at = None /\ rr.todo = run[r].todo
    BY <2>2 DEF RunRow
  <2> HIDE DEF rr
  <2>4. CountType'
    BY <2>1, BillingAssumption DEF IInv, BaseInv, CountType
  <2>5. None \notin rr.todo
    BY <2>3, BillingAssumption DEF RunRow, Scopes
  <2>6. Alone => /\ \A q \in Runs : q # r => run[q] = None
                 /\ \A u \in rr.todo \cap Events : ~Drafted(u)
    BY <2>1, <2>3 DEF IInv, AloneInv, RunInv
  <2> QED
    BY <2>1, <2>3, <2>4, <2>5, <2>6, RunWritten
<1>2. CASE RunEnds(r)
  <2>1. /\ run' = [run EXCEPT ![r] = None]
        /\ UNCHANGED <<books, inv, call, page, cut, faults>>
    BY <1>2 DEF RunEnds
  <2>2. CountType'
    BY <2>1 DEF IInv, BaseInv, CountType
  <2> QED
    BY <2>1, <2>2, RunWritten
<1> QED
  BY <1>1, <1>2

LEMMA RestartStep == IInv /\ Restart => IInv'
<1> SUFFICES ASSUME IInv, Restart PROVE IInv'
  OBVIOUS
<1> USE DEF IInv, BaseInv
<1>1. /\ faults < MaxFaults /\ faults' = faults + 1
      /\ cut' = cut \cup UNION {Broken(w) : w \in Workers}
      /\ call' = [w \in Workers |-> None]
      /\ run' = [r \in Runs |-> None]
      /\ UNCHANGED <<books, inv, page>>
  BY DEF Restart
<1>2. \A w \in Workers : Broken(w) \subseteq Invoices
  BY DEF Broken, At, CallType, Calls
<1>3. CountType' /\ CallType' /\ RunType' /\ BooksType' /\ InvType' /\ PageType'
  BY <1>1, <1>2, BillingAssumption
  DEF CountType, CallType, RunType, BooksType, InvType, PageType
<1>4. Numbers' = Numbers
  BY <1>1 DEF Numbers, Exists
<1>5. RowInv' /\ NumbersInv'
  BY <1>1, <1>4 DEF RowInv, NumbersInv, Exists
<1>6. CallInv' /\ PageInv' /\ IdleInv'
  BY <1>1 DEF CallInv, CallOK, PageInv, IdleInv, Workers
<1>7. ASSUME Alone PROVE AloneInv'
  <2>1. AloneInv
    BY <1>7
  <2>2. OwnInv' /\ StageInv'
    BY <1>1 DEF OwnInv, StageInv
  <2>3. GapInv'
    BY <1>1, <1>4, <2>1 DEF AloneInv, GapInv, At
  <2>4. \A i \in Invoices : Summing(i) => i \in cut'
    BY <1>1 DEF Summing, Broken, At
  <2>5. TotalInv'
    BY <1>1, <2>1, <2>4 DEF AloneInv, TotalInv, Exists, At
  <2>6. MailedInv'
    BY <1>1, <2>1 DEF AloneInv, MailedInv, Exists, At
  <2>7. RunInv'
    BY <1>1, <2>1 DEF AloneInv, RunInv, Exists
  <2> QED
    BY <2>2, <2>3, <2>5, <2>6, <2>7 DEF AloneInv
<1> QED
  BY <1>3, <1>5, <1>6, <1>7

-----------------------------------------------------------------------------
(***************************************************************************)
(* The invariant, and what it says.                                        *)
(***************************************************************************)
LEMMA NextInv == IInv /\ [Next]_vars => IInv'
<1> SUFFICES ASSUME IInv, [Next]_vars PROVE IInv'
  OBVIOUS
<1>1. ASSUME NEW t \in Scopes, ScopeEnds(t) \/ RefundOrder(t) PROVE IInv'
  BY <1>1, BooksStep
<1>2. ASSUME NEW c \in Clerks, Button(c) PROVE IInv'
  BY <1>2, ButtonStep
<1>3. ASSUME NEW c \in Clerks, NEW i \in Invoices, OpenInvoice(c, i)
      PROVE  IInv'
  BY <1>3, OpenInvoiceStep
<1>4. ASSUME NEW c \in Clerks, NEW i \in Invoices, NEW t \in Scopes,
             CreateInvoice(c, i, t)
      PROVE  IInv'
  BY <1>4, CreateInvoiceStep
<1>5. ASSUME NEW w \in Workers, Step(w) PROVE IInv'
  BY <1>5, StepKeeps
<1>6. ASSUME NEW r \in Runs, RunAuto(r) \/ DraftFails(r) \/ RunEnds(r)
      PROVE  IInv'
  BY <1>6, RunAutoStep, RunClosesStep
<1>7. ASSUME NEW r \in Runs, NEW t \in Scopes, Consider(r, t) PROVE IInv'
  BY <1>7, ConsiderStep
<1>8. ASSUME NEW r \in Runs, NEW i \in Invoices, Draft(r, i) PROVE IInv'
  BY <1>8, DraftStep
<1>9. CASE Restart
  BY <1>9, RestartStep
<1>10. CASE UNCHANGED vars
  <2>1. UNCHANGED <<books, inv, call, page, run, cut, faults>>
    BY <1>10 DEF vars
  <2>2. /\ BooksType' /\ PageType' /\ RunType' /\ CountType'
        /\ PageInv' /\ IdleInv'
    BY <2>1 DEF IInv, BaseInv, BooksType, PageType, RunType, CountType,
                PageInv, IdleInv
  <2>3. Alone => RunInv'
    BY <2>1, RunsKept DEF IInv, AloneInv, Exists
  <2> QED
    BY <2>1, <2>2, <2>3, RowsStay
<1> QED
  BY <1>1, <1>2, <1>3, <1>4, <1>5, <1>6, <1>7, <1>8, <1>9, <1>10 DEF Next

LEMMA SpecInv == Spec => []IInv
BY InitInv, NextInv, PTL DEF Spec

\* The ledger is well formed whatever runs side by side: a number is given
\* with the first final status and shared by no other invoice that exists.
THEOREM LedgerWellFormed == Spec => []BillingTypeOK
<1>1. IInv => BillingTypeOK
  <2> SUFFICES ASSUME IInv PROVE BillingTypeOK
    OBVIOUS
  <2> USE DEF IInv, BaseInv
  <2>1. books \in [Scopes -> [over: BOOLEAN, paid: {0, 1}, back: {0, 1}]]
    BY DEF BooksType, Books
  <2>2. cut \subseteq Invoices /\ faults \in 0..MaxFaults
    BY DEF CountType
  <2>3. ASSUME NEW i \in Invoices
        PROVE  /\ inv[i].status \in Final \cup {"none", "DRAFT", "deleted"}
               /\ Exists(i) =>
                    (inv[i].number # None <=> inv[i].status \in Final)
               /\ inv[i].lines.custom \in 0..MaxCustom
    <3>1. inv[i] \in InvRow
      BY DEF InvType
    <3>2. inv[i].status \in Statuses /\ inv[i].lines \in Lines
      BY <3>1 DEF InvRow
    <3>3. Exists(i) => (inv[i].number # None <=> inv[i].status \in Final)
      BY <3>2, BillingAssumption DEF RowInv, Exists, Statuses, Final
    <3> QED
      BY <3>2, <3>3 DEF Statuses, Lines
  <2>4. \A i, j \in Invoices :
          Exists(i) /\ Exists(j) /\ inv[i].number = inv[j].number
            => i = j \/ inv[i].number = None
    BY DEF NumbersInv
  <2>5. \A c \in Clerks : page[c] # None => inv[page[c].inv].status # "none"
    BY DEF PageInv
  <2> QED
    BY <2>1, <2>2, <2>3, <2>4, <2>5 DEF BillingTypeOK
<1> QED
  BY <1>1, SpecInv, PTL

\* As long as calls and runs do not overlap, the numbers of a year have no
\* gap: a failure between reading the highest and storing the next loses none.
THEOREM YearWithoutGap == Alone => (Spec => []NumbersWithoutGap)
<1>1. Alone /\ IInv => NumbersWithoutGap
  <2> SUFFICES ASSUME Alone, IInv PROVE NumbersWithoutGap
    OBVIOUS
  <2>1. PICK n \in Nat : Numbers = 1..n
    BY DEF IInv, AloneInv, GapInv
  <2>2. Cardinality(1..n) = n
    BY FS_Interval
  <2> QED
    BY <2>1, <2>2 DEF NumbersWithoutGap
<1>2. SUFFICES ASSUME Alone PROVE Spec => []NumbersWithoutGap
  OBVIOUS
<1>3. IInv => NumbersWithoutGap
  BY <1>1, <1>2
<1> QED
  BY <1>3, SpecInv, PTL

\* As long as they do not overlap, a final invoice adds up and is what was
\* mailed, unless an edit of it broke off before its total.
THEOREM MailedIsRecorded == Alone => (Spec => []SentAsRecorded)
<1>1. Alone /\ IInv => SentAsRecorded
  <2> SUFFICES ASSUME Alone, IInv, NEW i \in Invoices,
                      inv[i].status \in Final, i \notin cut
               PROVE  /\ inv[i].total = Sum(inv[i].lines)
                      /\ inv[i].status = "SENT" => inv[i].mailed # None
                      /\ inv[i].mailed # None =>
                           /\ inv[i].mailed.number = inv[i].number
                           /\ inv[i].mailed.total = inv[i].total
    BY DEF SentAsRecorded
  <2>1. Exists(i)
    BY DEF Exists, Final
  <2>2. ~Summing(i)
    BY DEF IInv, AloneInv, StageInv, Summing, Final
  <2> QED
    BY <2>1, <2>2 DEF IInv, AloneInv, TotalInv, MailedInv
<1>2. SUFFICES ASSUME Alone PROVE Spec => []SentAsRecorded
  OBVIOUS
<1>3. IInv => SentAsRecorded
  BY <1>1, <1>2
<1> QED
  BY <1>3, SpecInv, PTL

\* As long as runs do not overlap, the crons draft one invoice for an event
\* or a month, also when a run dies half way and the next starts over.
THEOREM CronsBillOnce == Alone => (Spec => []BilledOnce)
<1>1. Alone /\ IInv => BilledOnce
  <2> SUFFICES ASSUME Alone, IInv, NEW t \in Scopes
               PROVE  Cardinality({i \in InvoicesOf(t) : inv[i].auto}) <= 1
    BY DEF BilledOnce
  <2> DEFINE S == {i \in InvoicesOf(t) : inv[i].auto}
  <2>1. \A i, j \in S : i = j
    BY DEF InvoicesOf, IInv, AloneInv, RunInv
  <2> HIDE DEF S
  <2>2. CASE S = {}
    BY <2>2, FS_EmptySet DEF S
  <2>3. CASE S # {}
    <3>1. PICK i : S = {i}
      BY <2>1, <2>3
    <3>2. Cardinality(S) = 1
      BY <3>1, FS_Singleton
    <3> QED
      BY <3>2 DEF S
  <2> QED
    BY <2>2, <2>3
<1>2. SUFFICES ASSUME Alone PROVE Spec => []BilledOnce
  OBVIOUS
<1>3. IInv => BilledOnce
  BY <1>1, <1>2
<1> QED
  BY <1>3, SpecInv, PTL

\* As long as calls do not overlap, a number that was given stays: what breaks
\* it is a second finalize of the same draft, which checked the status before
\* the first one wrote it.
THEOREM NumberStaysAlone == Alone => (Spec => NumberStays)
<1>1. SUFFICES ASSUME Alone PROVE Spec => NumberStays
  OBVIOUS
<1>2. ASSUME IInv, [Next]_vars, NEW i \in Invoices, inv[i].number # None
      PROVE  inv'[i].number = inv[i].number
  <2> USE <1>1, <1>2
  <2>1. inv \in [Invoices -> InvRow]
    BY DEF IInv, BaseInv, InvType
  <2>2. inv[i].status \notin {"none", "DRAFT"}
    BY DEF IInv, BaseInv, RowInv
  <2>3. ASSUME NEW w \in Workers, Step(w)
        PROVE  inv'[i].number = inv[i].number
    <3> DEFINE j == call[w].inv
    <3> USE <2>3
    <3>1. CASE WriteLine(w)
      <4>1. PICK k \in 0..MaxCustom : inv' = [inv EXCEPT ![j].lines.custom = k]
        BY <3>1 DEF WriteLine
      <4> DEFINE l == [inv[j].lines EXCEPT !.custom = k]
      <4>2. inv' = [inv EXCEPT ![j] = [@ EXCEPT !.lines = l]]
        BY <4>1
      <4> HIDE DEF l, j
      <4> QED
        BY <2>1, <4>2 DEF InvRow
    <3>2. CASE SetTotal(w)
      <4>1. inv' = [inv EXCEPT ![j].total = call[w].read]
        BY <3>2 DEF SetTotal
      <4> HIDE DEF j
      <4> QED
        BY <2>1, <4>1 DEF InvRow
    <3>3. CASE DeleteRow(w)
      <4>1. inv' = [inv EXCEPT ![j].status = "deleted"]
        BY <3>3 DEF DeleteRow
      <4> HIDE DEF j
      <4> QED
        BY <2>1, <4>1 DEF InvRow
    <3>4. CASE Finalize(w)
      <4>1. call[w] # None /\ call[w].at = "assign"
        BY <3>4 DEF Finalize, At
      <4>2. inv[j].status = "DRAFT"
        BY <4>1 DEF IInv, AloneInv, StageInv
      <4>3. i # j
        BY <2>2, <4>2
      <4>4. inv'[i] = inv[i]
        BY <2>1, <3>4, <4>3 DEF Finalize
      <4> QED
        BY <4>4
    <3>5. CASE Mail(w)
      <4> DEFINE m == [number |-> inv[j].number, total |-> inv[j].total]
      <4>1. inv' = [inv EXCEPT ![j].mailed = m]
        BY <3>5 DEF Mail
      <4> HIDE DEF m, j
      <4> QED
        BY <2>1, <4>1 DEF InvRow
    <3>6. ASSUME NEW s, NEW status, SetStatus(w, s, status)
          PROVE  inv'[i].number = inv[i].number
      <4>1. inv' = [inv EXCEPT ![j].status = status]
        BY <3>6 DEF SetStatus
      <4> HIDE DEF j
      <4> QED
        BY <2>1, <4>1 DEF InvRow
    <3>7. CASE RecomputeTotals(w) \/ NextNumber(w) \/ CallFails(w)
      BY <3>7 DEF RecomputeTotals, NextNumber, CallFails
    <3> QED
      BY <3>1, <3>2, <3>3, <3>4, <3>5, <3>6, <3>7 DEF Step, SetSent, SetPaid
  <2>4. ASSUME NEW k \in Invoices, NEW t, NEW auto, CreateDraft(k, t, auto)
        PROVE  inv'[i].number = inv[i].number
    <3>1. k # i
      BY <2>2, <2>4 DEF CreateDraft
    <3>2. inv'[i] = inv[i]
      BY <2>1, <2>4, <3>1 DEF CreateDraft
    <3> QED
      BY <3>2
  <2>5. ASSUME NEW c \in Clerks, Button(c) PROVE UNCHANGED inv
    BY <2>5 DEF Button, EditLine, DeleteInvoice, FinalizeInvoice, SendInvoice,
                MarkPaid, Clicks
  <2>6. ASSUME NEW c \in Clerks, NEW k \in Invoices, NEW t \in Scopes,
               CreateInvoice(c, k, t)
        PROVE  inv'[i].number = inv[i].number
    BY <2>4, <2>6 DEF CreateInvoice
  <2>7. ASSUME NEW r \in Runs, NEW k \in Invoices, Draft(r, k)
        PROVE  inv'[i].number = inv[i].number
    BY <2>4, <2>7 DEF Draft
  <2>8. ASSUME \/ UNCHANGED vars
               \/ Restart
               \/ \E t \in Scopes : ScopeEnds(t) \/ RefundOrder(t)
               \/ \E c \in Clerks, k \in Invoices : OpenInvoice(c, k)
               \/ \E r \in Runs :
                    \/ RunAuto(r) \/ DraftFails(r) \/ RunEnds(r)
                    \/ \E t \in Scopes : Consider(r, t)
        PROVE  UNCHANGED inv
    BY <2>8 DEF vars, Restart, ScopeEnds, RefundOrder, OpenInvoice, RunAuto,
                DraftFails, RunEnds, Consider
  <2> QED
    BY <2>3, <2>5, <2>6, <2>7, <2>8 DEF Next
<1>3. IInv /\ [Next]_vars
        => [\A i \in Invoices : inv[i].number # None
              => inv'[i].number = inv[i].number]_vars
  BY <1>2
<1> QED
  BY <1>3, SpecInv, PTL DEF Spec, NumberStays
=============================================================================
