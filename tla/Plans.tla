------------------------------- MODULE Plans --------------------------------
(***************************************************************************)
(* The sale of a termin by a seating plan: the owner of a venue draws      *)
(* plans with sections (SeatMapsService), an organizer turns a termin's    *)
(* sale between ticket types and a plan (TerminsService.applyModeChange,   *)
(* a chain of database calls without a lock), and customers buy in the     *)
(* sections meanwhile.  One venue, one termin, one organizer who plans;    *)
(* every SEATED section has one seat.  The tables and their foreign keys   *)
(* are those of schema.prisma.                                             *)
(***************************************************************************)
EXTENDS Naturals, FiniteSets

CONSTANTS
  Orders,       \* orders customers may place in a section
  Maps,         \* SeatMap ids
  Sections,     \* Section ids
  MapOf,        \* the plan each section is drawn in
  Seated,       \* the sections of mode SEATED
  MaxSwitches,  \* bound: switches of the termin's mode or plan
  None          \* null

ASSUME PlansAssumption ==
  /\ MapOf \in [Sections -> Maps] /\ Maps \cap Sections = {}
  /\ Seated \subseteq Sections
  /\ MaxSwitches \in Nat
  /\ None \notin Orders \cup Maps \cup Sections \cup Nat
  /\ None \notin [born: Nat, by: Orders \cup {None}]

VARIABLES
  venue,     \* the Venue row: [there, active, shared]
  drawn,     \* SeatMap and Section rows: "new", "there" or "deleted"
  termin,    \* the Termin row: [mode, map], mode "none" before it exists
  rows,      \* TerminSection (with its TerminSeat) of each section, or None
  orders,    \* Order and its item: [status, section, row, ticket]
  edit,      \* TerminsService.update under way, or None
  page,      \* the organizer's page of the termin
  switches,  \* switches begun, which number the rows created (history)
  overtaken  \* orders committed between a switch's check and its deletion
             \* (history)

sale == <<rows, orders, overtaken>>
planning == <<termin, rows, edit, page, switches>>
vars == <<venue, drawn, termin, rows, orders, edit, page, switches, overtaken>>

There(x) == drawn[x] = "there"
SectionsOf(m) == {s \in Sections : MapOf[s] = m}
DrawnIn(m) == {s \in SectionsOf(m) : There(s)}

NoPage == [shown |-> FALSE, mode |-> "GENERAL", map |-> None, maps |-> {},
           sections |-> {}, saving |-> FALSE, error |-> FALSE]

Init ==
  /\ venue = [there |-> TRUE, active |-> TRUE, shared |-> TRUE]
  /\ drawn = [x \in Maps \cup Sections |-> "new"]
  /\ termin = [mode |-> "none", map |-> None]
  /\ rows = [s \in Sections |-> None]
  /\ orders = [o \in Orders |->
       [status |-> "NEW", section |-> None, row |-> None, ticket |-> "none"]]
  /\ edit = None
  /\ page = NoPage
  /\ switches = 0
  /\ overtaken = {}

(***************************************************************************)
(* The venue and its plans.  The owner's pages list what was there when    *)
(* they were loaded, so a request may be about what is gone by now: it is  *)
(* then refused and changes nothing.                                       *)
(***************************************************************************)
VenueListed == venue.there
AccessOffered == VenueListed
Listed(m) == drawn[m] # "new"
Edited(s) == Listed(MapOf[s])
InEditor(s) == Edited(s) /\ drawn[s] # "new"
NewSection(s) == Edited(s) /\ drawn[s] = "new"
Drawable(m) == VenueListed /\ drawn[m] = "new"

CreateMap(m) ==
  /\ Drawable(m)
  /\ drawn' = [drawn EXCEPT ![m] = "there"]
  /\ UNCHANGED <<venue, planning, orders, overtaken>>

CreateSection(s) ==
  /\ NewSection(s) /\ There(MapOf[s])
  /\ drawn' = [drawn EXCEPT ![s] = "there"]
  /\ UNCHANGED <<venue, planning, orders, overtaken>>

\* TerminSection keeps its section: the foreign key restricts.
DeleteSection(s) ==
  /\ InEditor(s) /\ There(s) /\ rows[s] = None
  /\ drawn' = [drawn EXCEPT ![s] = "deleted"]
  /\ UNCHANGED <<venue, planning, orders, overtaken>>

\* Sections cascade and may restrict; a termin of the plan loses it.
DeleteMap(m) ==
  /\ Listed(m) /\ There(m) /\ \A s \in SectionsOf(m) : rows[s] = None
  /\ drawn' = [x \in DOMAIN drawn |->
       IF x = m \/ (x \in SectionsOf(m) /\ There(x)) THEN "deleted"
       ELSE drawn[x]]
  /\ termin' = IF termin.map = m THEN [termin EXCEPT !.map = None] ELSE termin
  /\ UNCHANGED <<venue, sale, edit, page, switches>>

\* A venue with termins is deactivated, another deleted with its plans.
RemoveVenue ==
  /\ VenueListed
  /\ IF termin.mode # "none"
     THEN venue' = [venue EXCEPT !.active = FALSE] /\ drawn' = drawn
     ELSE /\ venue' = [venue EXCEPT !.there = FALSE]
          /\ drawn' = [x \in DOMAIN drawn |->
               IF There(x) THEN "deleted" ELSE drawn[x]]
  /\ UNCHANGED <<planning, orders, overtaken>>

Reactivate ==
  /\ VenueListed /\ ~venue.active
  /\ venue' = [venue EXCEPT !.active = TRUE]
  /\ UNCHANGED <<drawn, planning, orders, overtaken>>

SetAccess ==
  /\ AccessOffered
  /\ venue' = [venue EXCEPT !.shared = ~venue.shared]
  /\ UNCHANGED <<drawn, planning, orders, overtaken>>

(***************************************************************************)
(* The organizer's pages.                                                  *)
(***************************************************************************)
\* The form offers active venues only; the server asks for access alone.
CreateTermin ==
  /\ termin.mode = "none" /\ venue.there /\ venue.active /\ venue.shared
  /\ termin' = [mode |-> "GENERAL", map |-> None]
  /\ UNCHANGED <<venue, drawn, sale, edit, page, switches>>

WithRow == {s \in Sections : rows[s] # None}

\* Plans of a venue that is not shared any more are not listed.
LoadPage ==
  /\ termin.mode # "none" /\ ~page.shown /\ edit = None
  /\ page' = [shown |-> TRUE, mode |-> termin.mode, map |-> termin.map,
              maps |-> IF venue.shared THEN {m \in Maps : There(m)} ELSE {},
              sections |-> IF termin.mode = "SEATMAP" THEN WithRow ELSE {},
              saving |-> FALSE, error |-> FALSE]
  /\ UNCHANGED <<venue, drawn, termin, sale, edit, switches>>

LeavePage ==
  /\ page.shown /\ ~page.saving
  /\ page' = NoPage
  /\ UNCHANGED <<venue, drawn, termin, sale, edit, switches>>

\* A price needs its TerminSection; success lists the sections again.
SavePrice(s) ==
  /\ page.shown /\ ~page.saving /\ s \in page.sections
  /\ page' = IF rows[s] # None
             THEN [page EXCEPT !.sections = WithRow, !.error = FALSE]
             ELSE [page EXCEPT !.error = TRUE]
  /\ UNCHANGED <<venue, drawn, termin, sale, edit, switches>>

(***************************************************************************)
(* TerminsService.update with a mode: the row is read first and its plan   *)
(* is what the later steps compare with.                                   *)
(***************************************************************************)
Begin(mode, m) ==
  /\ edit = None /\ switches < MaxSwitches
  /\ switches' = switches + 1
  /\ edit' = [step |-> IF mode = "GENERAL" THEN "check" ELSE "read",
              mode |-> mode, map |-> m, from |-> termin.map, read |-> {}]
  /\ page' = [page EXCEPT !.saving = TRUE, !.error = FALSE]

SwitchMode ==
  /\ page.shown /\ ~page.saving
  /\ \/ page.mode # "GENERAL" /\ Begin("GENERAL", None)
     \/ \E m \in page.maps \ {page.map} : Begin("SEATMAP", m)
     \/ /\ page.mode = "GENERAL" /\ page.map \in page.maps
        /\ Begin("SEATMAP", page.map)
  /\ UNCHANGED <<venue, drawn, termin, sale>>

Step(s) == edit # None /\ edit.step = s
Goto(s) == edit' = [edit EXCEPT !.step = s]

\* (mutant: the rows of the old plan are not looked at)
ReadMapAnyhow ==
  /\ Step("read") /\ There(edit.map)
  /\ edit' = [edit EXCEPT !.read = DrawnIn(edit.map), !.step = "rows"]
  /\ UNCHANGED <<venue, drawn, termin, sale, page, switches>>

ReadMap ==
  /\ Step("read") /\ There(edit.map)
  /\ edit' = [edit EXCEPT !.read = DrawnIn(edit.map),
       !.step = IF edit.from # None /\ edit.from # edit.map
                THEN "check" ELSE "rows"]
  /\ UNCHANGED <<venue, drawn, termin, sale, page, switches>>

Reserving == {"PENDING", "PAID"}
\* (mutant: an order which may still be paid does not count)
PaidOnSections ==
  {o \in Orders : orders[o].row # None /\ orders[o].status = "PAID"}

SoldOnSections ==
  {o \in Orders : orders[o].row # None /\ orders[o].status \in Reserving}

AssertNoSectionSales ==
  /\ Step("check") /\ SoldOnSections = {}
  /\ Goto("drop")
  /\ UNCHANGED <<venue, drawn, termin, sale, page, switches>>

\* Deleting the rows sets the terminSectionId of their items to null.
DropRows ==
  /\ rows' = [s \in Sections |-> None]
  /\ orders' = [o \in Orders |-> [orders[o] EXCEPT !.row = None]]

ToGeneral ==
  /\ Step("drop") /\ edit.mode = "GENERAL"
  /\ DropRows
  /\ termin' = [mode |-> "GENERAL", map |-> None]
  /\ Goto("rest")
  /\ UNCHANGED <<venue, drawn, page, switches, overtaken>>

DropOldPlan ==
  /\ Step("drop") /\ edit.mode = "SEATMAP"
  /\ DropRows
  /\ Goto("rows")
  /\ UNCHANGED <<venue, drawn, termin, page, switches, overtaken>>

\* Rows which exist stay as they are (skipDuplicates).
CreateRows ==
  /\ Step("rows") /\ There(edit.map) /\ \A s \in edit.read : There(s)
  /\ termin' = [mode |-> "SEATMAP", map |-> edit.map]
  /\ rows' = [s \in Sections |->
       IF s \in edit.read /\ rows[s] = None
       THEN [born |-> switches, by |-> None] ELSE rows[s]]
  /\ Goto("rest")
  /\ UNCHANGED <<venue, drawn, orders, page, switches, overtaken>>

\* The page shows what it asked for; the list of sections is fetched.
Succeeds ==
  /\ Step("rest")
  /\ edit' = None
  /\ page' = [page EXCEPT !.saving = FALSE, !.mode = edit.mode,
       !.map = edit.map,
       !.sections = IF edit.mode = "SEATMAP" THEN WithRow ELSE {}]
  /\ UNCHANGED <<venue, drawn, termin, sale, switches>>

\* (mutant: the page does not report it)
FailsSilently ==
  /\ edit # None
  /\ edit' = None
  /\ page' = [page EXCEPT !.saving = FALSE]
  /\ UNCHANGED <<venue, drawn, termin, sale, switches>>

\* A check refuses, the database fails, the process dies, or the answer is
\* lost: what was committed stays, the page reports an error.
Fails ==
  /\ edit # None
  /\ edit' = None
  /\ page' = [page EXCEPT !.saving = FALSE, !.error = TRUE]
  /\ UNCHANGED <<venue, drawn, termin, sale, switches>>

UpdateTermin ==
  ReadMap \/ AssertNoSectionSales \/ ToGeneral \/ DropOldPlan \/ CreateRows
    \/ Succeeds \/ Fails

(***************************************************************************)
(* The customers' orders.                                                  *)
(***************************************************************************)
\* The picker sends the TerminSection it was shown and the server finds it.
Pickable(s) == rows[s] # None /\ (s \in Seated => rows[s].by = None)

Choose(o, s) ==
  /\ orders[o].status = "NEW" /\ termin.mode = "SEATMAP" /\ Pickable(s)
  /\ orders' = [orders EXCEPT ![o].status = "CHOSEN", ![o].section = s,
                              ![o].row = rows[s].born]
  /\ UNCHANGED <<venue, drawn, planning, overtaken>>

RowOf(o) ==
  LET s == orders[o].section
  IN rows[s] # None /\ rows[s].born = orders[o].row

\* The transaction: the item refers to that row, the seat is claimed.
CommitOrder(o) ==
  LET s == orders[o].section IN
  /\ orders[o].status = "CHOSEN" /\ RowOf(o) /\ Pickable(s)
  /\ orders' = [orders EXCEPT ![o].status = "PENDING"]
  /\ rows' = IF s \in Seated THEN [rows EXCEPT ![s].by = o] ELSE rows
  /\ overtaken' = IF Step("drop") THEN overtaken \cup {o} ELSE overtaken
  /\ UNCHANGED <<venue, drawn, termin, edit, page, switches>>

OrderRefused(o) ==
  /\ orders[o].status = "CHOSEN"
  /\ orders' = [orders EXCEPT ![o] =
       [status |-> "NEW", section |-> None, row |-> None, ticket |-> "none"]]
  /\ UNCHANGED <<venue, drawn, planning, overtaken>>

HoldsSeat(o) == rows[orders[o].section] # None
                  /\ rows[orders[o].section].by = o

\* One ticket per held seat, or one per place of the item.
FulfillOrder(o) ==
  /\ orders[o].status = "PENDING"
  /\ orders' = [orders EXCEPT ![o].status = "PAID",
                 ![o].ticket = IF HoldsSeat(o) THEN "seat" ELSE "place"]
  /\ UNCHANGED <<venue, drawn, planning, overtaken>>

\* (mutant: the seat stays with the order)
KeepSeat(o) == rows' = rows

Release(o) ==
  rows' = IF HoldsSeat(o) THEN [rows EXCEPT ![orders[o].section].by = None]
          ELSE rows

ExpireOrder(o) ==
  /\ orders[o].status = "PENDING"
  /\ orders' = [orders EXCEPT ![o].status = "CANCELLED"]
  /\ Release(o)
  /\ UNCHANGED <<venue, drawn, termin, edit, page, switches, overtaken>>

RefundOrder(o) ==
  /\ orders[o].status = "PAID"
  /\ orders' = [orders EXCEPT ![o].status = "REFUNDED"]
  /\ Release(o)
  /\ UNCHANGED <<venue, drawn, termin, edit, page, switches, overtaken>>

Next ==
  \/ \E m \in Maps : CreateMap(m) \/ DeleteMap(m)
  \/ \E s \in Sections : CreateSection(s) \/ DeleteSection(s) \/ SavePrice(s)
  \/ RemoveVenue \/ Reactivate \/ SetAccess
  \/ CreateTermin \/ LoadPage \/ LeavePage \/ SwitchMode \/ UpdateTermin
  \/ \E o \in Orders :
       \/ \E s \in Sections : Choose(o, s)
       \/ CommitOrder(o) \/ OrderRefused(o) \/ FulfillOrder(o)
       \/ ExpireOrder(o) \/ RefundOrder(o)

Spec == Init /\ [][Next]_vars

(***************************************************************************)
(* Properties.                                                             *)
(***************************************************************************)
Live(o) == orders[o].status \in Reserving

\* The tables' shapes, and what the keys say across them: without a plan no
\* rows, a row's section and plan exist, and the order on a seat is a live
\* one of that very row.
PlansTypeOK ==
  /\ venue \in [there: BOOLEAN, active: BOOLEAN, shared: BOOLEAN]
  /\ drawn \in [Maps \cup Sections -> {"new", "there", "deleted"}]
  /\ termin.mode \in {"none", "GENERAL", "SEATMAP"}
  /\ termin.map \in Maps \cup {None}
  /\ termin.mode # "SEATMAP" => termin.map = None /\ WithRow = {}
  /\ switches \in 0..MaxSwitches /\ overtaken \subseteq Orders
  /\ \A s \in WithRow :
       /\ There(s) /\ There(MapOf[s])
       /\ rows[s].by # None =>
            LET o == rows[s].by
            IN Live(o) /\ orders[o].section = s /\ RowOf(o)
  /\ \A o \in Orders :
       orders[o].status \in {"NEW", "CHOSEN", "PENDING", "PAID", "CANCELLED",
                             "REFUNDED"}

\* Planning never takes from a customer what was sold: an order that is paid
\* or may still be paid keeps the row it was made for, on a numbered seat also
\* the seat, and its ticket names the seat.  The orders that commit between a
\* switch's check and its deletion are excepted: there the code does lose them.
SalesSurvivePlanning ==
  \A o \in Orders \ overtaken : Live(o) =>
    /\ RowOf(o)
    /\ orders[o].section \in Seated =>
         /\ HoldsSeat(o)
         /\ orders[o].status = "PAID" => orders[o].ticket = "seat"

\* What is on sale is the plan the termin names, in whatever order plans are
\* switched, deleted, drawn on and left half switched.
PlanOfItsMap == \A s \in WithRow : MapOf[s] = termin.map

\* When the page reports no error after a switch it shows the termin as the
\* database has it; a plan that was deleted meanwhile is all that may differ.
PageTellsPlan ==
  [][page.saving /\ ~page'.saving /\ ~page'.error
       => /\ page'.mode = termin.mode
          /\ page'.map # termin.map => ~There(page'.map)
          /\ page'.sections = WithRow]_vars
=============================================================================
