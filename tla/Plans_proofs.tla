---------------------------- MODULE Plans_proofs ----------------------------
(***************************************************************************)
(* The safety of Plans for any number of orders, plans, sections and       *)
(* switches.                                                               *)
(***************************************************************************)
EXTENDS Plans, TLAPS

OrderRow ==
  [status: {"NEW", "CHOSEN", "PENDING", "PAID", "CANCELLED", "REFUNDED"},
   section: Sections \cup {None}, row: Nat \cup {None},
   ticket: {"none", "seat", "place"}]
SectionRow == [born: Nat, by: Orders \cup {None}]
Modes == {"none", "GENERAL", "SEATMAP"}
Plan == Maps \cup {None}
Edits == [step: {"read", "check", "drop", "rows", "rest"},
          mode: {"GENERAL", "SEATMAP"}, map: Plan, from: Plan,
          read: SUBSET Sections]
Forms == [shown: BOOLEAN, mode: Modes, map: Plan, maps: SUBSET Maps,
          sections: SUBSET Sections, saving: BOOLEAN, error: BOOLEAN]

DrawnType ==
  /\ venue \in [there: BOOLEAN, active: BOOLEAN, shared: BOOLEAN]
  /\ drawn \in [Maps \cup Sections -> {"new", "there", "deleted"}]

SaleType ==
  /\ rows \in [Sections -> SectionRow \cup {None}]
  /\ orders \in [Orders -> OrderRow]
  /\ overtaken \subseteq Orders

PlanningType ==
  /\ termin \in [mode: Modes, map: Plan]
  /\ edit \in Edits \cup {None}
  /\ page \in Forms
  /\ switches \in 0..MaxSwitches

\* What is on sale is drawn, and without a plan nothing is.
RowInv ==
  /\ \A s \in WithRow : There(s) /\ There(MapOf[s])
  /\ termin.mode # "SEATMAP" => termin.map = None /\ WithRow = {}

OrderInv ==
  \A o \in Orders :
    orders[o].status # "NEW" => orders[o].section \in Sections

\* The order on a seat is a live one of that very row.
SeatInv ==
  \A s \in WithRow : rows[s].by # None =>
    /\ Live(rows[s].by)
    /\ orders[rows[s].by].section = s
    /\ RowOf(rows[s].by)

\* Once the check has passed, only an order that overtook it has a row.
DropInv ==
  Step("drop") => \A o \in Orders :
    Live(o) /\ orders[o].row # None => o \in overtaken

\* An update works on the plan of its request, and the termin's own plan is
\* the one it read first unless that was deleted.
EditInv ==
  edit # None =>
    /\ termin.mode # "none"
    /\ edit.mode = "SEATMAP" => edit.map \in Maps
    /\ edit.mode = "GENERAL" => edit.map = None
    /\ edit.step \in {"read", "rows"} => edit.mode = "SEATMAP"
    /\ edit.read \subseteq SectionsOf(edit.map)
    /\ edit.step \in {"read", "check"} => termin.map \in {edit.from, None}
    /\ edit.step = "rows" => \A s \in WithRow : MapOf[s] = edit.map
    /\ edit.step = "rest" =>
         /\ termin.mode = edit.mode
         /\ termin.map # edit.map =>
              termin.map = None /\ drawn[edit.map] = "deleted"

FormInv ==
  /\ page.shown => termin.mode # "none"
  /\ page.saving => page.shown

IInv ==
  /\ DrawnType /\ SaleType /\ PlanningType
  /\ RowInv /\ OrderInv /\ SeatInv
  /\ DropInv /\ EditInv /\ FormInv
  /\ PlanOfItsMap
  /\ SalesSurvivePlanning

-----------------------------------------------------------------------------
LEMMA InitInv == Init => IInv
<1> SUFFICES ASSUME Init PROVE IInv
  OBVIOUS
<1>1. DrawnType /\ SaleType
  BY DEF Init, DrawnType, SaleType, OrderRow
<1>2. PlanningType
  BY PlansAssumption
  DEF Init, NoPage, PlanningType, Modes, Plan, Forms
<1>3. WithRow = {}
  BY DEF Init, WithRow
<1>4. RowInv /\ SeatInv /\ PlanOfItsMap
  BY <1>3 DEF Init, RowInv, SeatInv, PlanOfItsMap
<1>5. OrderInv /\ DropInv /\ EditInv /\ FormInv
  BY DEF Init, NoPage, OrderInv, DropInv, Step, EditInv, FormInv
<1>6. SalesSurvivePlanning
  BY DEF Init, SalesSurvivePlanning, Live, Reserving
<1> QED
  BY <1>1, <1>2, <1>4, <1>5, <1>6 DEF IInv

\* What the sale keeps as long as its tables stay.
SaleInv == OrderInv /\ SeatInv /\ SalesSurvivePlanning

LEMMA SaleKept ==
  ASSUME SaleInv, UNCHANGED sale
  PROVE  SaleInv' /\ WithRow' = WithRow
BY DEF SaleInv, sale, OrderInv, SeatInv, SalesSurvivePlanning, WithRow, Live,
       RowOf, HoldsSeat

-----------------------------------------------------------------------------
(***************************************************************************)
(* The venue and its plans.                                                *)
(***************************************************************************)
\* A step that only draws: it removes nothing that is on sale.
LEMMA DrawStep ==
  ASSUME IInv, DrawnType', UNCHANGED <<planning, sale>>,
         \A s \in WithRow : There(s)' /\ There(MapOf[s])',
         \A m \in Maps : drawn[m] = "deleted" => drawn'[m] = "deleted"
  PROVE  IInv'
<1> USE DEF IInv
<1>1. SaleInv' /\ WithRow' = WithRow
  BY SaleKept DEF SaleInv
<1>2. SaleType' /\ PlanningType'
  BY DEF SaleType, PlanningType, sale, planning
<1>3. RowInv' /\ PlanOfItsMap'
  BY <1>1 DEF RowInv, PlanOfItsMap, planning
<1>4. DropInv' /\ FormInv'
  BY DEF DropInv, Step, Live, FormInv, planning, sale
<1>5. EditInv'
  <2>1. edit # None /\ edit.mode = "SEATMAP" => edit.map \in Maps
    BY DEF EditInv
  <2>2. edit # None /\ edit.step = "rest" /\ termin.map # edit.map
          => edit.map \in Maps
    BY DEF EditInv, PlanningType, Edits
  <2> QED
    BY <1>1, <2>1, <2>2 DEF EditInv, SectionsOf, planning
<1> QED
  BY <1>1, <1>2, <1>3, <1>4, <1>5 DEF SaleInv

LEMMA CreateMapStep ==
  ASSUME IInv, NEW m \in Maps, CreateMap(m)
  PROVE  IInv'
<1> USE DEF IInv
<1>1. DrawnType'
  BY DEF DrawnType, CreateMap
<1>2. UNCHANGED <<planning, sale>>
  BY DEF CreateMap, planning, sale
<1>3. \A s \in WithRow : There(s)' /\ There(MapOf[s])'
  BY PlansAssumption DEF DrawnType, RowInv, WithRow, There, CreateMap
<1>4. \A n \in Maps : drawn[n] = "deleted" => drawn'[n] = "deleted"
  BY DEF DrawnType, CreateMap, Drawable
<1> QED
  BY <1>1, <1>2, <1>3, <1>4, DrawStep

LEMMA CreateSectionStep ==
  ASSUME IInv, NEW s \in Sections, CreateSection(s)
  PROVE  IInv'
<1> USE DEF IInv
<1>1. DrawnType'
  BY DEF DrawnType, CreateSection
<1>2. UNCHANGED <<planning, sale>>
  BY DEF CreateSection, planning, sale
<1>3. \A t \in WithRow : There(t)' /\ There(MapOf[t])'
  BY PlansAssumption DEF DrawnType, RowInv, WithRow, There, CreateSection
<1>4. \A n \in Maps : drawn[n] = "deleted" => drawn'[n] = "deleted"
  BY PlansAssumption DEF DrawnType, CreateSection
<1> QED
  BY <1>1, <1>2, <1>3, <1>4, DrawStep

LEMMA DeleteSectionStep ==
  ASSUME IInv, NEW s \in Sections, DeleteSection(s)
  PROVE  IInv'
<1> USE DEF IInv
<1>1. DrawnType'
  BY DEF DrawnType, DeleteSection
<1>2. UNCHANGED <<planning, sale>>
  BY DEF DeleteSection, planning, sale
<1>3. \A t \in WithRow : There(t)' /\ There(MapOf[t])'
  BY PlansAssumption DEF DrawnType, RowInv, WithRow, There, DeleteSection
<1>4. \A n \in Maps : drawn[n] = "deleted" => drawn'[n] = "deleted"
  BY PlansAssumption DEF DrawnType, DeleteSection
<1> QED
  BY <1>1, <1>2, <1>3, <1>4, DrawStep

LEMMA RemoveVenueStep ==
  ASSUME IInv, RemoveVenue
  PROVE  IInv'
<1> USE DEF IInv
<1>1. DrawnType'
  BY DEF DrawnType, RemoveVenue, There
<1>2. UNCHANGED <<planning, sale>>
  BY DEF RemoveVenue, planning, sale
<1>3. \A t \in WithRow : There(t)' /\ There(MapOf[t])'
  BY DEF RowInv, RemoveVenue, There
<1>4. \A n \in Maps : drawn[n] = "deleted" => drawn'[n] = "deleted"
  BY DEF DrawnType, RemoveVenue, There
<1> QED
  BY <1>1, <1>2, <1>3, <1>4, DrawStep

LEMMA VenueStep ==
  ASSUME IInv, Reactivate \/ SetAccess
  PROVE  IInv'
<1> USE DEF IInv
<1>1. DrawnType' /\ drawn' = drawn
  <2>1. (~venue.shared) \in BOOLEAN
    OBVIOUS
  <2> QED
    BY <2>1 DEF DrawnType, Reactivate, SetAccess
<1>2. UNCHANGED <<planning, sale>>
  BY DEF Reactivate, SetAccess, planning, sale
<1> QED
  BY <1>1, <1>2, DrawStep DEF RowInv, There

LEMMA DeleteMapStep ==
  ASSUME IInv, NEW m \in Maps, DeleteMap(m)
  PROVE  IInv'
<1> USE DEF IInv
<1>1. DrawnType'
  BY DEF DrawnType, DeleteMap
<1>2. SaleInv' /\ WithRow' = WithRow /\ SaleType'
  BY SaleKept DEF SaleInv, SaleType, DeleteMap, sale
<1>3. /\ termin' \in [mode: Modes, map: Plan] /\ termin'.mode = termin.mode
      /\ termin'.map = IF termin.map = m THEN None ELSE termin.map
  BY DEF DeleteMap, PlanningType, Plan
<1>4. PlanningType'
  BY <1>3 DEF PlanningType, DeleteMap
<1>5. \A s \in WithRow : MapOf[s] # m /\ MapOf[s] \in Maps /\ s \in Sections
  BY PlansAssumption DEF DeleteMap, SectionsOf, WithRow
<1>6. \A s \in WithRow : There(s)' /\ There(MapOf[s])'
  BY <1>5, PlansAssumption DEF DrawnType, RowInv, DeleteMap, SectionsOf, There
<1>7. termin.map = m => WithRow = {}
  BY <1>5 DEF PlanOfItsMap
<1>8. RowInv' /\ PlanOfItsMap'
  BY <1>2, <1>3, <1>6, <1>7 DEF RowInv, PlanOfItsMap
<1>9. DropInv' /\ FormInv'
  BY <1>3 DEF DropInv, Step, Live, FormInv, DeleteMap, sale
<1>10. EditInv'
  <2> SUFFICES ASSUME edit # None PROVE EditInv'
    BY DEF EditInv, DeleteMap
  <2>1. termin.map \in Plan
    BY DEF PlanningType
  <2>2. edit.step \in {"read", "check"} => termin'.map \in {edit.from, None}
    BY <1>3 DEF EditInv
  <2>3. edit.step = "rest" =>
          /\ termin'.mode = edit.mode
          /\ termin'.map # edit.map =>
               termin'.map = None /\ drawn'[edit.map] = "deleted"
    <3> SUFFICES ASSUME edit.step = "rest", termin'.map # edit.map
                 PROVE  termin'.map = None /\ drawn'[edit.map] = "deleted"
      BY <1>3 DEF EditInv
    <3>1. CASE termin.map # edit.map
      <4>1. termin.map = None /\ drawn[edit.map] = "deleted"
        BY <3>1 DEF EditInv
      <4>2. edit.map \in Maps
        BY <3>1, <4>1 DEF EditInv, PlanningType, Edits
      <4> QED
        BY <1>3, <4>1, <4>2 DEF DeleteMap, DrawnType, There
    <3>2. CASE termin.map = edit.map
      <4>1. termin.map = m
        BY <1>3, <3>2
      <4> QED
        BY <1>3, <3>2, <4>1 DEF DeleteMap, DrawnType
    <3> QED
      BY <3>1, <3>2
  <2> QED
    BY <1>2, <1>3, <2>2, <2>3 DEF EditInv, DeleteMap, SectionsOf
<1> QED
  BY <1>1, <1>2, <1>4, <1>8, <1>9, <1>10 DEF SaleInv

-----------------------------------------------------------------------------
(***************************************************************************)
(* The organizer's page and the update of the termin.                      *)
(***************************************************************************)
\* A step of the page or of the update that leaves the sale alone.
LEMMA PlanningStep ==
  ASSUME IInv, UNCHANGED <<drawn, sale>>, DrawnType', PlanningType',
         termin' = termin \/ (WithRow = {} /\ termin'.map = None),
         DropInv', EditInv', FormInv'
  PROVE  IInv'
<1> USE DEF IInv
<1>1. SaleInv' /\ WithRow' = WithRow /\ SaleType'
  BY SaleKept DEF SaleInv, SaleType, sale
<1>2. RowInv'
  BY <1>1 DEF RowInv, There
<1>3. PlanOfItsMap'
  BY <1>1 DEF PlanOfItsMap
<1> QED
  BY <1>1, <1>2, <1>3 DEF SaleInv

LEMMA CreateTerminStep ==
  ASSUME IInv, CreateTermin
  PROVE  IInv'
<1> USE DEF IInv
<1>1. PlanningType' /\ termin'.map = None /\ termin'.mode = "GENERAL"
  BY DEF PlanningType, CreateTermin, Modes, Plan
<1>2. WithRow = {}
  BY DEF RowInv, CreateTermin
<1>3. DropInv' /\ EditInv' /\ FormInv' /\ DrawnType'
  BY <1>1 DEF DropInv, Step, Live, EditInv, FormInv, DrawnType, CreateTermin,
              sale
<1> QED
  BY <1>1, <1>2, <1>3, PlanningStep DEF CreateTermin

\* The page moves, the update does not.
LEMMA PageStep ==
  ASSUME IInv, UNCHANGED <<venue, drawn, termin, sale, edit, switches>>,
         page' \in Forms, FormInv'
  PROVE  IInv'
<1> USE DEF IInv
<1>1. PlanningType' /\ DrawnType'
  BY DEF PlanningType, DrawnType
<1>2. DropInv' /\ EditInv'
  BY DEF DropInv, Step, Live, EditInv, WithRow, sale
<1> QED
  BY <1>1, <1>2, PlanningStep

LEMMA LoadPageStep ==
  ASSUME IInv, LoadPage
  PROVE  IInv'
<1> USE DEF IInv
<1> DEFINE ms == IF venue.shared THEN {m \in Maps : There(m)} ELSE {}
           ss == IF termin.mode = "SEATMAP" THEN WithRow ELSE {}
           p == [shown |-> TRUE, mode |-> termin.mode, map |-> termin.map,
                 maps |-> ms, sections |-> ss, saving |-> FALSE,
                 error |-> FALSE]
<1>1. ms \in SUBSET Maps /\ ss \in SUBSET Sections
  BY DEF WithRow
<1>2. page' = p
  BY DEF LoadPage
<1> HIDE DEF ms, ss
<1>3. p \in Forms
  BY <1>1 DEF PlanningType, Forms
<1>4. FormInv'
  BY <1>2 DEF FormInv, LoadPage
<1> HIDE DEF p
<1> QED
  BY <1>2, <1>3, <1>4, PageStep DEF LoadPage

LEMMA LeavePageStep ==
  ASSUME IInv, LeavePage
  PROVE  IInv'
<1>1. page' \in Forms /\ FormInv'
  BY DEF LeavePage, NoPage, FormInv, Forms, Modes, Plan
<1> QED
  BY <1>1, PageStep DEF LeavePage

LEMMA SavePriceStep ==
  ASSUME IInv, NEW s \in Sections, SavePrice(s)
  PROVE  IInv'
<1> USE DEF IInv
<1>1. page \in Forms /\ WithRow \in SUBSET Sections
  BY DEF PlanningType, WithRow
<1>2. CASE page' = [page EXCEPT !.sections = WithRow, !.error = FALSE]
  <2>1. page' \in Forms /\ FormInv'
    BY <1>1, <1>2 DEF Forms, FormInv, SavePrice
  <2> QED
    BY <2>1, PageStep DEF SavePrice
<1>3. CASE page' = [page EXCEPT !.error = TRUE]
  <2>1. page' \in Forms /\ FormInv'
    BY <1>1, <1>3 DEF Forms, FormInv, SavePrice
  <2> QED
    BY <2>1, PageStep DEF SavePrice
<1> QED
  BY <1>2, <1>3 DEF SavePrice

LEMMA BeginStep ==
  ASSUME IInv, NEW mode \in {"GENERAL", "SEATMAP"}, NEW m \in Plan,
         mode = "SEATMAP" => m \in Maps,
         mode = "GENERAL" => m = None,
         page.shown, Begin(mode, m),
         UNCHANGED <<venue, drawn, termin, sale>>
  PROVE  IInv'
<1> USE DEF IInv
<1> DEFINE st == IF mode = "GENERAL" THEN "check" ELSE "read"
           e == [step |-> st, mode |-> mode, map |-> m, from |-> termin.map,
                 read |-> {}]
<1>1. termin.map \in Plan /\ page \in Forms
  BY DEF PlanningType
<1>2. /\ e \in Edits
      /\ e.step = st /\ e.mode = mode /\ e.map = m /\ e.from = termin.map
      /\ e.read = {}
  BY <1>1 DEF Edits
<1>3. edit' = e
  BY DEF Begin
<1> HIDE DEF e
<1>4. /\ page' \in Forms
      /\ page'.shown = page.shown /\ page'.saving = TRUE
  BY <1>1 DEF Begin, Forms
<1>5. switches' \in 0..MaxSwitches
  BY PlansAssumption DEF Begin, PlanningType
<1>6. PlanningType' /\ DrawnType'
  BY <1>2, <1>3, <1>4, <1>5 DEF PlanningType, DrawnType
<1>7. DropInv' /\ FormInv'
  BY <1>2, <1>3, <1>4 DEF DropInv, Step, FormInv
<1>8. EditInv'
  BY <1>2, <1>3 DEF EditInv, FormInv, SectionsOf
<1> QED
  BY <1>6, <1>7, <1>8, PlanningStep

LEMMA SwitchModeStep ==
  ASSUME IInv, SwitchMode
  PROVE  IInv'
<1>1. page.maps \subseteq Maps
  BY DEF IInv, PlanningType, Forms
<1> QED
  BY <1>1, BeginStep DEF SwitchMode, Plan

\* The update goes on to its next step.
LEMMA NextStep ==
  ASSUME NEW e \in Edits,
         NEW step \in {"read", "check", "drop", "rows", "rest"},
         NEW f, f = [e EXCEPT !.step = step]
  PROVE  /\ f \in Edits
         /\ f.step = step /\ f.mode = e.mode /\ f.map = e.map /\ f.from = e.from
         /\ f.read = e.read
BY DEF Edits

LEMMA ReadMapStep ==
  ASSUME IInv, ReadMap
  PROVE  IInv'
<1> USE DEF IInv
<1> DEFINE next == IF edit.from # None /\ edit.from # edit.map
                   THEN "check" ELSE "rows"
<1>1. edit # None /\ edit \in Edits /\ edit.step = "read"
  BY DEF ReadMap, Step, PlanningType
<1>2. /\ edit.mode = "SEATMAP" /\ edit.map \in Maps
      /\ termin.map \in {edit.from, None} /\ termin.mode # "none"
  BY <1>1 DEF EditInv
<1>3. DrawnIn(edit.map) \in SUBSET Sections
      /\ DrawnIn(edit.map) \subseteq SectionsOf(edit.map)
  BY DEF DrawnIn, SectionsOf
<1>4. /\ edit' \in Edits
      /\ edit'.step = next /\ edit'.mode = edit.mode /\ edit'.map = edit.map
      /\ edit'.from = edit.from /\ edit'.read = DrawnIn(edit.map)
  BY <1>1, <1>3 DEF ReadMap, Edits
<1>5. PlanningType' /\ DrawnType'
  BY <1>4 DEF PlanningType, DrawnType, ReadMap
<1>6. DropInv' /\ FormInv'
  BY <1>4 DEF DropInv, Step, FormInv, ReadMap
<1>7. next = "rows" => \A s \in WithRow : MapOf[s] = edit.map
  <2>1. \A s \in WithRow : MapOf[s] \in Maps /\ MapOf[s] # None
    BY PlansAssumption DEF WithRow
  <2> QED
    BY <1>2, <2>1 DEF PlanOfItsMap
<1>8. EditInv'
  <2>1. WithRow' = WithRow
    BY DEF ReadMap, WithRow, sale
  <2> QED
    BY <1>2, <1>3, <1>4, <1>7, <2>1 DEF EditInv, SectionsOf, ReadMap
<1> QED
  BY <1>5, <1>6, <1>8, PlanningStep DEF ReadMap

LEMMA AssertNoSectionSalesStep ==
  ASSUME IInv, AssertNoSectionSales
  PROVE  IInv'
<1> USE DEF IInv
<1>1. edit # None /\ edit \in Edits /\ edit.step = "check"
  BY DEF AssertNoSectionSales, Step, PlanningType
<1>2. /\ edit' \in Edits /\ edit'.step = "drop"
      /\ edit'.mode = edit.mode /\ edit'.map = edit.map
      /\ edit'.from = edit.from /\ edit'.read = edit.read
  BY <1>1, NextStep DEF AssertNoSectionSales, Goto
<1>3. PlanningType' /\ DrawnType' /\ FormInv'
  BY <1>2 DEF PlanningType, DrawnType, FormInv, AssertNoSectionSales
<1>4. DropInv'
  BY DEF DropInv, SoldOnSections, Live, AssertNoSectionSales, sale
<1>5. EditInv'
  BY <1>1, <1>2 DEF EditInv, SectionsOf, AssertNoSectionSales
<1> QED
  BY <1>3, <1>4, <1>5, PlanningStep DEF AssertNoSectionSales

\* No order that counts depends on the rows that are deleted.
LEMMA RowsDropped ==
  ASSUME IInv, Step("drop"), DropRows, UNCHANGED overtaken
  PROVE  /\ SaleType' /\ WithRow' = {}
         /\ OrderInv' /\ SeatInv' /\ SalesSurvivePlanning'
<1> USE DEF IInv
<1>1. rows' \in [Sections -> SectionRow \cup {None}] /\ WithRow' = {}
  BY DEF DropRows, WithRow
<1>2. /\ orders' \in [Orders -> OrderRow]
      /\ \A o \in Orders : /\ orders'[o].status = orders[o].status
                           /\ orders'[o].section = orders[o].section
  BY DEF DropRows, SaleType, OrderRow
<1>3. \A o \in Orders \ overtaken : ~Live(o)
  <2> SUFFICES ASSUME NEW o \in Orders \ overtaken, Live(o) PROVE FALSE
    OBVIOUS
  <2>1. RowOf(o) /\ orders[o].section \in Sections
    BY DEF SalesSurvivePlanning, OrderInv, Live, Reserving
  <2>2. orders[o].row \in Nat
    BY <2>1 DEF RowOf, SaleType, SectionRow
  <2> QED
    BY <2>2, PlansAssumption DEF DropInv
<1>4. SaleType' /\ OrderInv'
  BY <1>1, <1>2 DEF SaleType, OrderInv
<1>5. SeatInv'
  BY <1>1 DEF SeatInv
<1>6. SalesSurvivePlanning'
  BY <1>2, <1>3 DEF SalesSurvivePlanning, Live
<1> QED
  BY <1>1, <1>4, <1>5, <1>6

LEMMA ToGeneralStep ==
  ASSUME IInv, ToGeneral
  PROVE  IInv'
<1> USE DEF IInv
<1>1. edit # None /\ edit \in Edits /\ edit.step = "drop"
  BY DEF ToGeneral, Step, PlanningType
<1>2. /\ edit' \in Edits /\ edit'.step = "rest"
      /\ edit'.mode = edit.mode /\ edit'.map = edit.map
      /\ edit'.from = edit.from /\ edit'.read = edit.read
  BY <1>1, NextStep DEF ToGeneral, Goto
<1>3. /\ SaleType' /\ WithRow' = {}
      /\ OrderInv' /\ SeatInv' /\ SalesSurvivePlanning'
  BY RowsDropped DEF ToGeneral
<1>4. termin'.mode = "GENERAL" /\ termin'.map = None
  BY DEF ToGeneral
<1>5. PlanningType' /\ DrawnType' /\ FormInv'
  BY <1>2, <1>4 DEF PlanningType, DrawnType, FormInv, ToGeneral, Modes, Plan
<1>6. RowInv' /\ PlanOfItsMap'
  BY <1>3, <1>4 DEF RowInv, PlanOfItsMap
<1>7. DropInv' /\ EditInv'
  BY <1>1, <1>2, <1>4 DEF DropInv, Step, EditInv, SectionsOf, ToGeneral
<1> QED
  BY <1>3, <1>5, <1>6, <1>7

LEMMA DropOldPlanStep ==
  ASSUME IInv, DropOldPlan
  PROVE  IInv'
<1> USE DEF IInv
<1>1. edit # None /\ edit \in Edits /\ edit.step = "drop"
  BY DEF DropOldPlan, Step, PlanningType
<1>2. /\ edit' \in Edits /\ edit'.step = "rows"
      /\ edit'.mode = edit.mode /\ edit'.map = edit.map
      /\ edit'.from = edit.from /\ edit'.read = edit.read
  BY <1>1, NextStep DEF DropOldPlan, Goto
<1>3. /\ SaleType' /\ WithRow' = {}
      /\ OrderInv' /\ SeatInv' /\ SalesSurvivePlanning'
  BY RowsDropped DEF DropOldPlan
<1>4. PlanningType' /\ DrawnType' /\ FormInv'
  BY <1>2 DEF PlanningType, DrawnType, FormInv, DropOldPlan
<1>5. RowInv' /\ PlanOfItsMap'
  BY <1>3 DEF RowInv, PlanOfItsMap, DropOldPlan
<1>6. DropInv' /\ EditInv'
  BY <1>1, <1>2, <1>3 DEF DropInv, Step, EditInv, SectionsOf, DropOldPlan
<1> QED
  BY <1>3, <1>4, <1>5, <1>6

LEMMA CreateRowsStep ==
  ASSUME IInv, CreateRows
  PROVE  IInv'
<1> USE DEF IInv
<1> DEFINE new == [born |-> switches, by |-> None]
<1>1. /\ edit # None /\ edit \in Edits /\ edit.step = "rows"
      /\ edit.mode = "SEATMAP" /\ edit.map \in Maps
      /\ edit.read \subseteq SectionsOf(edit.map)
      /\ \A s \in WithRow : MapOf[s] = edit.map
  BY DEF CreateRows, Step, PlanningType, EditInv
<1>2. /\ edit' \in Edits /\ edit'.step = "rest"
      /\ edit'.mode = edit.mode /\ edit'.map = edit.map
      /\ edit'.from = edit.from /\ edit'.read = edit.read
  BY <1>1, NextStep DEF CreateRows, Goto
<1>3. new \in SectionRow /\ new.by = None /\ new # None
  <2>1. switches \in Nat
    BY PlansAssumption DEF PlanningType
  <2> QED
    BY <2>1, PlansAssumption DEF SectionRow
<1>4. \A s \in Sections :
        rows'[s] = IF s \in edit.read /\ rows[s] = None THEN new ELSE rows[s]
  BY DEF CreateRows
<1> HIDE DEF new
<1>5. rows' \in [Sections -> SectionRow \cup {None}]
  BY <1>3 DEF CreateRows, SaleType, new
<1>6. SaleType'
  BY <1>5 DEF SaleType, CreateRows
<1>7. WithRow' = WithRow \cup edit.read
  BY <1>1, <1>3, <1>4 DEF WithRow, SectionsOf
<1>8. \A s \in WithRow' : MapOf[s] = edit.map /\ There(s) /\ There(MapOf[s])
  BY <1>1, <1>7 DEF CreateRows, SectionsOf, RowInv
<1>9. termin'.mode = "SEATMAP" /\ termin'.map = edit.map
  BY DEF CreateRows
<1>10. RowInv' /\ PlanOfItsMap'
  BY <1>8, <1>9 DEF RowInv, PlanOfItsMap, There, CreateRows
<1>11. PlanningType' /\ DrawnType' /\ FormInv'
  BY <1>1, <1>2, <1>9
  DEF PlanningType, DrawnType, FormInv, CreateRows, Modes, Plan
<1>12. DropInv' /\ EditInv'
  BY <1>1, <1>2, <1>9 DEF DropInv, Step, EditInv, SectionsOf, CreateRows
<1>13. \A s \in WithRow : rows'[s] = rows[s]
  BY <1>4 DEF WithRow
<1>14. \A o \in Orders : orders[o].section \in Sections /\ RowOf(o) => RowOf(o)'
  BY <1>13 DEF RowOf, WithRow, CreateRows
<1>15. OrderInv' /\ SeatInv'
  <2>1. OrderInv'
    BY DEF OrderInv, CreateRows
  <2>2. ASSUME NEW s \in WithRow', rows'[s].by # None
        PROVE  /\ Live(rows'[s].by) /\ rows'[s] = rows[s]
               /\ orders[rows'[s].by].section = s /\ rows'[s].by \in Orders
               /\ RowOf(rows[s].by)
    <3>1. s \in WithRow /\ rows'[s] = rows[s]
      BY <1>3, <1>4, <1>13, <2>2 DEF WithRow
    <3> QED
      BY <2>2, <3>1 DEF SeatInv, WithRow, SaleType, SectionRow
  <2>3. SeatInv'
    <3> SUFFICES ASSUME NEW s \in WithRow', rows'[s].by # None
                 PROVE  /\ Live(rows[s].by)'
                        /\ orders'[rows'[s].by].section = s
                        /\ RowOf(rows[s].by)'
      BY DEF SeatInv
    <3>1. /\ Live(rows'[s].by) /\ rows'[s] = rows[s]
          /\ orders[rows'[s].by].section = s /\ rows'[s].by \in Orders
          /\ RowOf(rows[s].by)
      BY <2>2
    <3>2. s \in Sections
      BY DEF WithRow
    <3> QED
      BY <3>1, <3>2 DEF Live, RowOf, CreateRows
  <2> QED
    BY <2>1, <2>3
<1>16. SalesSurvivePlanning'
  <2>1. \A o \in Orders : Live(o) => orders[o].section \in Sections
    BY DEF OrderInv, Live, Reserving
  <2>2. \A o \in Orders : orders[o].section \in Sections /\ HoldsSeat(o)
          => HoldsSeat(o)'
    BY <1>13 DEF HoldsSeat, WithRow, CreateRows
  <2> QED
    BY <1>14, <2>1, <2>2 DEF SalesSurvivePlanning, Live, CreateRows
<1> QED
  BY <1>6, <1>10, <1>11, <1>12, <1>15, <1>16

LEMMA EndStep ==
  ASSUME IInv, Succeeds \/ Fails
  PROVE  IInv'
<1> USE DEF IInv
<1>1. edit' = None /\ UNCHANGED <<venue, drawn, termin, sale, switches>>
  BY DEF Succeeds, Fails
<1>2. page' \in Forms /\ page'.shown = page.shown /\ page'.saving = FALSE
  <2>1. page \in Forms /\ WithRow \in SUBSET Sections
    BY DEF PlanningType, WithRow
  <2>2. CASE Fails
    BY <2>1, <2>2 DEF Fails, Forms
  <2>3. CASE Succeeds
    <3> DEFINE ss == IF edit.mode = "SEATMAP" THEN WithRow ELSE {}
    <3>1. ss \in SUBSET Sections
      BY <2>1
    <3>2. edit.mode \in Modes /\ edit.map \in Plan
      BY <2>3 DEF Succeeds, Step, PlanningType, Edits, Modes
    <3>3. page' = [page EXCEPT !.saving = FALSE, !.mode = edit.mode,
                               !.map = edit.map, !.sections = ss]
      BY <2>3 DEF Succeeds
    <3> HIDE DEF ss
    <3> QED
      BY <2>1, <3>1, <3>2, <3>3 DEF Forms
  <2> QED
    BY <2>2, <2>3
<1>3. PlanningType' /\ DrawnType'
  BY <1>1, <1>2 DEF PlanningType, DrawnType
<1>4. DropInv' /\ EditInv' /\ FormInv'
  BY <1>1, <1>2 DEF DropInv, Step, EditInv, FormInv
<1> QED
  BY <1>1, <1>3, <1>4, PlanningStep

-----------------------------------------------------------------------------
(***************************************************************************)
(* The customers' orders.                                                  *)
(***************************************************************************)
\* A step of one order moves nothing of the plans.
LEMMA OrderStep ==
  ASSUME IInv, UNCHANGED <<venue, drawn, termin, edit, page, switches>>,
         SaleType', WithRow' = WithRow, SaleInv', DropInv'
  PROVE  IInv'
<1> USE DEF IInv
<1>1. DrawnType' /\ PlanningType' /\ FormInv'
  BY DEF DrawnType, PlanningType, FormInv
<1>2. RowInv' /\ EditInv' /\ PlanOfItsMap'
  BY DEF RowInv, EditInv, PlanOfItsMap, There
<1> QED
  BY <1>1, <1>2 DEF SaleInv

\* The row of one order is written, with a status among those it may have.
LEMMA OrderWritten ==
  ASSUME SaleType, NEW o \in Orders, NEW row \in OrderRow,
         orders' = [orders EXCEPT ![o] = row],
         rows' = rows, overtaken' = overtaken
  PROVE  /\ SaleType' /\ WithRow' = WithRow
         /\ orders'[o] = row
         /\ \A p \in Orders \ {o} : orders'[p] = orders[p]
BY DEF SaleType, WithRow

\* While it is not placed an order has nothing to lose.
LEMMA IdleOrder ==
  ASSUME IInv, NEW o \in Orders, NEW row \in OrderRow,
         orders' = [orders EXCEPT ![o] = row],
         UNCHANGED <<venue, drawn, planning, overtaken>>,
         orders[o].status \notin Reserving, row.status \notin Reserving,
         row.status # "NEW" => row.section \in Sections
  PROVE  IInv'
<1> USE DEF IInv
<1>1. /\ SaleType' /\ WithRow' = WithRow
      /\ orders'[o] = row
      /\ \A p \in Orders \ {o} : orders'[p] = orders[p]
  BY OrderWritten DEF planning
<1>2. OrderInv' /\ DropInv'
  BY <1>1 DEF OrderInv, DropInv, Step, Live, planning
<1>3. SeatInv'
  <2> SUFFICES ASSUME NEW s \in WithRow, rows[s].by # None
               PROVE  /\ Live(rows[s].by)'
                      /\ orders'[rows[s].by].section = s
                      /\ RowOf(rows[s].by)'
    BY <1>1 DEF SeatInv, planning
  <2>1. /\ Live(rows[s].by) /\ orders[rows[s].by].section = s
        /\ RowOf(rows[s].by) /\ rows[s].by \in Orders
    BY DEF SeatInv, SaleType, SectionRow, WithRow
  <2>2. rows[s].by # o
    BY <2>1 DEF Live
  <2> QED
    BY <1>1, <2>1, <2>2 DEF Live, RowOf, planning
<1>4. SalesSurvivePlanning'
  BY <1>1 DEF SalesSurvivePlanning, Live, RowOf, HoldsSeat, planning
<1> QED
  BY <1>1, <1>2, <1>3, <1>4, OrderStep DEF SaleInv, planning

LEMMA ChooseStep ==
  ASSUME IInv, NEW o \in Orders, NEW s \in Sections, Choose(o, s)
  PROVE  IInv'
<1> DEFINE row == [orders[o] EXCEPT !.status = "CHOSEN", !.section = s,
                                    !.row = rows[s].born]
<1>1. orders[o] \in OrderRow /\ rows[s].born \in Nat
  BY DEF IInv, SaleType, SectionRow, Choose, Pickable
<1>2. row \in OrderRow /\ row.status = "CHOSEN" /\ row.section = s
  BY <1>1 DEF OrderRow
<1>3. orders' = [orders EXCEPT ![o] = row]
  BY DEF Choose, IInv, SaleType
<1> HIDE DEF row
<1> QED
  BY <1>2, <1>3, IdleOrder DEF Choose, Reserving

LEMMA OrderRefusedStep ==
  ASSUME IInv, NEW o \in Orders, OrderRefused(o)
  PROVE  IInv'
<1> DEFINE row ==
      [status |-> "NEW", section |-> None, row |-> None, ticket |-> "none"]
<1>1. row \in OrderRow /\ row.status = "NEW"
  BY DEF OrderRow
<1>2. orders' = [orders EXCEPT ![o] = row]
  BY DEF OrderRefused
<1> HIDE DEF row
<1> QED
  BY <1>1, <1>2, IdleOrder DEF OrderRefused, Reserving

LEMMA FulfillOrderStep ==
  ASSUME IInv, NEW o \in Orders, FulfillOrder(o)
  PROVE  IInv'
<1> USE DEF IInv
<1> DEFINE tk == IF HoldsSeat(o) THEN "seat" ELSE "place"
           row == [orders[o] EXCEPT !.status = "PAID", !.ticket = tk]
<1>1. orders[o] \in OrderRow /\ orders[o].status = "PENDING"
  BY DEF SaleType, FulfillOrder
<1>2. /\ row \in OrderRow /\ row.status = "PAID" /\ row.ticket = tk
      /\ row.section = orders[o].section /\ row.row = orders[o].row
  <2>1. tk \in {"none", "seat", "place"}
    OBVIOUS
  <2> HIDE DEF tk
  <2> QED
    BY <1>1, <2>1 DEF OrderRow
<1>3. orders' = [orders EXCEPT ![o] = row]
  BY DEF FulfillOrder, SaleType
<1> HIDE DEF row
<1>4. /\ SaleType' /\ WithRow' = WithRow
      /\ orders'[o] = row
      /\ \A p \in Orders \ {o} : orders'[p] = orders[p]
  BY <1>2, <1>3, OrderWritten DEF FulfillOrder, planning
<1>5. /\ \A p \in Orders : /\ orders'[p].section = orders[p].section
                           /\ orders'[p].row = orders[p].row
                           /\ Live(p)' <=> Live(p)
      /\ \A p \in Orders : RowOf(p)' <=> RowOf(p)
      /\ \A p \in Orders : HoldsSeat(p)' <=> HoldsSeat(p)
  BY <1>1, <1>2, <1>4
  DEF Live, Reserving, RowOf, HoldsSeat, FulfillOrder, planning
<1>6. OrderInv'
  BY <1>1, <1>2, <1>4 DEF OrderInv
<1>7. DropInv'
  BY <1>5 DEF DropInv, Step, FulfillOrder, planning
<1>8. SeatInv'
  <2>1. \A s \in WithRow : rows[s].by # None => rows[s].by \in Orders
    BY DEF SaleType, SectionRow, WithRow
  <2>2. rows' = rows
    BY DEF FulfillOrder, planning
  <2> SUFFICES ASSUME NEW s \in WithRow, rows[s].by # None
               PROVE  /\ Live(rows[s].by)'
                      /\ orders'[rows[s].by].section = s
                      /\ RowOf(rows[s].by)'
    BY <1>4, <2>2 DEF SeatInv
  <2> DEFINE p == rows[s].by
  <2>3. p \in Orders /\ Live(p) /\ orders[p].section = s /\ RowOf(p)
    BY <2>1 DEF SeatInv
  <2> QED
    BY <1>5, <2>2, <2>3 DEF Live, RowOf
<1>9. SalesSurvivePlanning'
  <2> SUFFICES ASSUME NEW p \in Orders \ overtaken, Live(p)
               PROVE  /\ RowOf(p)'
                      /\ orders'[p].section \in Seated =>
                           /\ HoldsSeat(p)'
                           /\ orders'[p].status = "PAID" =>
                                orders'[p].ticket = "seat"
    BY <1>5 DEF SalesSurvivePlanning, FulfillOrder, planning
  <2>1. p # o => orders'[p] = orders[p]
    BY <1>4
  <2> QED
    BY <1>2, <1>4, <1>5, <2>1 DEF SalesSurvivePlanning
<1> QED
  BY <1>4, <1>6, <1>7, <1>8, <1>9, OrderStep DEF SaleInv, FulfillOrder, planning

\* One section's row, which exists, gets another holder.
LEMMA HolderWritten ==
  ASSUME SaleType, NEW s \in Sections, rows[s] # None,
         NEW by \in Orders \cup {None},
         rows' = [rows EXCEPT ![s].by = by]
  PROVE  /\ rows' \in [Sections -> SectionRow \cup {None}]
         /\ WithRow' = WithRow
         /\ rows'[s].by = by
         /\ \A t \in Sections : t # s => rows'[t] = rows[t]
         /\ \A t \in Sections : rows[t] # None => rows'[t].born = rows[t].born
<1> DEFINE row == [rows[s] EXCEPT !.by = by]
<1>1. rows[s] \in SectionRow
  BY DEF SaleType
<1>2. row \in SectionRow /\ row.by = by /\ row.born = rows[s].born
  BY <1>1 DEF SectionRow
<1>3. rows' = [rows EXCEPT ![s] = row]
  BY DEF SaleType
<1> HIDE DEF row
<1>4. row # None
  BY <1>2, PlansAssumption DEF SectionRow
<1>5. rows' \in [Sections -> SectionRow \cup {None}]
      /\ \A t \in Sections : rows'[t] = IF t = s THEN row ELSE rows[t]
  BY <1>2, <1>3 DEF SaleType
<1> QED
  BY <1>2, <1>4, <1>5 DEF WithRow

LEMMA CommitOrderStep ==
  ASSUME IInv, NEW o \in Orders, CommitOrder(o)
  PROVE  IInv'
<1> USE DEF IInv
<1> DEFINE row == [orders[o] EXCEPT !.status = "PENDING"]
           s == orders[o].section
<1>1. /\ orders[o] \in OrderRow /\ orders[o].status = "CHOSEN"
      /\ s \in Sections /\ RowOf(o) /\ rows[s] # None
      /\ s \in Seated => rows[s].by = None
  BY DEF SaleType, CommitOrder, OrderInv, Pickable
<1>2. /\ row \in OrderRow /\ row.status = "PENDING"
      /\ row.section = s /\ row.row = orders[o].row
  BY <1>1 DEF OrderRow
<1>3. orders' = [orders EXCEPT ![o] = row]
  BY DEF CommitOrder, SaleType
<1>4. /\ orders' \in [Orders -> OrderRow] /\ orders'[o] = row
      /\ \A p \in Orders \ {o} : orders'[p] = orders[p]
  <2> HIDE DEF row
  <2> QED
    BY <1>2, <1>3 DEF SaleType
<1>5. rows' = IF s \in Seated THEN [rows EXCEPT ![s].by = o] ELSE rows
  BY DEF CommitOrder
<1> HIDE DEF s, row
<1>6. /\ rows' \in [Sections -> SectionRow \cup {None}]
      /\ WithRow' = WithRow
      /\ s \in Seated => rows'[s].by = o
      /\ s \notin Seated => rows' = rows
      /\ \A t \in Sections : t # s => rows'[t] = rows[t]
      /\ \A t \in Sections : rows[t] # None => rows'[t].born = rows[t].born
  <2>1. CASE s \in Seated
    BY <1>1, <1>5, <2>1, HolderWritten
  <2>2. CASE s \notin Seated
    BY <1>5, <2>2 DEF SaleType, WithRow
  <2> QED
    BY <2>1, <2>2
<1>7. /\ overtaken \subseteq overtaken'
      /\ overtaken' \subseteq Orders
      /\ Step("drop") => o \in overtaken'
  BY DEF CommitOrder, SaleType
<1>8. SaleType'
  BY <1>4, <1>6, <1>7 DEF SaleType
<1>9. \A t \in Sections : rows[t] # None => rows'[t] # None
  BY <1>6 DEF WithRow
<1>10. \A p \in Orders : orders[p].section \in Sections /\ RowOf(p) => RowOf(p)'
  BY <1>2, <1>4, <1>6, <1>9 DEF RowOf, s
<1>11. OrderInv'
  BY <1>1, <1>2, <1>4 DEF OrderInv
<1>12. DropInv'
  BY <1>4, <1>7 DEF DropInv, Step, Live, CommitOrder
<1>13. SeatInv'
  <2> SUFFICES ASSUME NEW t \in WithRow, NEW p, p = rows'[t].by, p # None
               PROVE  /\ p \in Orders
                      /\ orders'[p].status \in Reserving
                      /\ orders'[p].section = t
                      /\ RowOf(p)'
    <3>1. \A t \in WithRow' : rows'[t].by # None =>
            /\ rows'[t].by \in Orders
            /\ orders'[rows'[t].by].status \in Reserving
            /\ orders'[rows'[t].by].section = t
            /\ \A p : p = rows'[t].by => RowOf(p)'
      BY <1>6
    <3> QED
      BY <3>1 DEF SeatInv, Live, RowOf
  <2>1. t \in Sections /\ rows[t] # None
    BY DEF WithRow
  <2>2. CASE rows'[t] = rows[t]
    <3>1. /\ p \in Orders /\ Live(p) /\ orders[p].section = t /\ RowOf(p)
      BY <2>1, <2>2 DEF SeatInv, SaleType, SectionRow
    <3>2. p # o
      BY <1>1, <3>1 DEF Live, Reserving
    <3> QED
      BY <1>4, <1>10, <2>1, <3>1, <3>2 DEF Live
  <2>3. CASE rows'[t] # rows[t]
    <3>1. t = s /\ p = o
      BY <1>6, <2>1, <2>3
    <3> QED
      BY <1>1, <1>2, <1>4, <1>10, <3>1 DEF Reserving, s
  <2> QED
    BY <2>2, <2>3
<1>14. SalesSurvivePlanning'
  <2> SUFFICES ASSUME NEW p \in Orders \ overtaken, Live(p)'
               PROVE  /\ RowOf(p)'
                      /\ orders'[p].section \in Seated =>
                           /\ HoldsSeat(p)'
                           /\ orders'[p].status = "PAID" =>
                                orders'[p].ticket = "seat"
    BY <1>7 DEF SalesSurvivePlanning
  <2>1. CASE p = o
    BY <1>1, <1>2, <1>4, <1>6, <1>9, <1>10, <2>1 DEF HoldsSeat, s
  <2>2. CASE p # o
    <3>1. orders'[p] = orders[p] /\ Live(p)
      BY <1>4, <2>2 DEF Live
    <3>2. /\ orders[p].section \in Sections /\ RowOf(p)
          /\ orders[p].section \in Seated =>
               /\ HoldsSeat(p)
               /\ orders[p].status = "PAID" => orders[p].ticket = "seat"
      BY <3>1 DEF SalesSurvivePlanning, OrderInv, Live, Reserving
    <3>3. orders[p].section \in Seated => orders[p].section # s
      BY <1>1, <2>2, <3>2, PlansAssumption DEF HoldsSeat
    <3> QED
      BY <1>6, <1>9, <1>10, <3>1, <3>2, <3>3 DEF HoldsSeat
  <2> QED
    BY <2>1, <2>2
<1> QED
  BY <1>6, <1>8, <1>11, <1>12, <1>13, <1>14, OrderStep DEF SaleInv, CommitOrder

LEMMA ReleaseStep ==
  ASSUME IInv, NEW o \in Orders, ExpireOrder(o) \/ RefundOrder(o)
  PROVE  IInv'
<1> USE DEF IInv
<1> DEFINE s == orders[o].section
<1>1. PICK status \in {"CANCELLED", "REFUNDED"} :
        orders' = [orders EXCEPT ![o].status = status]
  BY DEF ExpireOrder, RefundOrder
<1>2. Live(o) /\ s \in Sections /\ orders[o] \in OrderRow
  BY DEF SaleType, OrderInv, ExpireOrder, RefundOrder, Live, Reserving
<1> DEFINE row == [orders[o] EXCEPT !.status = status]
<1>3. /\ row \in OrderRow /\ row.status = status /\ row.section = s
  BY <1>2 DEF OrderRow
<1>4. /\ orders' \in [Orders -> OrderRow] /\ orders'[o] = row
      /\ \A p \in Orders \ {o} : orders'[p] = orders[p]
  <2>1. orders' = [orders EXCEPT ![o] = row]
    BY <1>1
  <2> HIDE DEF row
  <2> QED
    BY <1>3, <2>1 DEF SaleType
<1>5. rows' = IF HoldsSeat(o) THEN [rows EXCEPT ![s].by = None] ELSE rows
  BY DEF ExpireOrder, RefundOrder, Release
<1> HIDE DEF s, row
<1>6. /\ rows' \in [Sections -> SectionRow \cup {None}]
      /\ WithRow' = WithRow
      /\ HoldsSeat(o) => rows'[s].by = None
      /\ ~HoldsSeat(o) => rows' = rows
      /\ \A t \in Sections : t # s => rows'[t] = rows[t]
      /\ \A t \in Sections : rows[t] # None => rows'[t].born = rows[t].born
  <2>1. CASE HoldsSeat(o)
    BY <1>2, <1>5, <2>1, HolderWritten DEF HoldsSeat, s
  <2>2. CASE ~HoldsSeat(o)
    BY <1>5, <2>2 DEF SaleType, WithRow
  <2> QED
    BY <2>1, <2>2
<1>7. SaleType'
  BY <1>4, <1>6 DEF SaleType, ExpireOrder, RefundOrder
<1>8. \A t \in Sections : rows[t] # None => rows'[t] # None
  BY <1>6 DEF WithRow
<1>9. ~Live(o)'
  BY <1>3, <1>4 DEF Live, Reserving
<1>10. \A p \in Orders \ {o} :
         orders[p].section \in Sections /\ RowOf(p) => RowOf(p)'
  BY <1>4, <1>6, <1>8 DEF RowOf
<1>11. OrderInv' /\ DropInv'
  <2>1. UNCHANGED <<edit, overtaken>>
    BY DEF ExpireOrder, RefundOrder
  <2> QED
    BY <1>2, <1>3, <1>4, <1>9, <2>1 DEF OrderInv, DropInv, Step, Live
<1>12. SeatInv'
  <2> SUFFICES ASSUME NEW t \in WithRow, NEW p, p = rows'[t].by, p # None
               PROVE  /\ p \in Orders
                      /\ orders'[p].status \in Reserving
                      /\ orders'[p].section = t
                      /\ RowOf(p)'
    <3>1. \A t \in WithRow' : rows'[t].by # None =>
            /\ rows'[t].by \in Orders
            /\ orders'[rows'[t].by].status \in Reserving
            /\ orders'[rows'[t].by].section = t
            /\ \A p : p = rows'[t].by => RowOf(p)'
      BY <1>6
    <3> QED
      BY <3>1 DEF SeatInv, Live, RowOf
  <2>1. t \in Sections /\ rows[t] # None
    BY DEF WithRow
  <2>2. rows'[t] = rows[t]
    BY <1>6, <2>1
  <2>3. /\ p \in Orders /\ Live(p) /\ orders[p].section = t /\ RowOf(p)
    BY <2>1, <2>2 DEF SeatInv, SaleType, SectionRow
  <2>4. p # o
    BY <1>6, <2>1, <2>2, <2>3 DEF HoldsSeat, s
  <2> QED
    BY <1>4, <1>10, <2>1, <2>3, <2>4 DEF Live
<1>13. SalesSurvivePlanning'
  <2> SUFFICES ASSUME NEW p \in Orders \ overtaken, Live(p)'
               PROVE  /\ RowOf(p)'
                      /\ orders'[p].section \in Seated =>
                           /\ HoldsSeat(p)'
                           /\ orders'[p].status = "PAID" =>
                                orders'[p].ticket = "seat"
    BY DEF SalesSurvivePlanning, ExpireOrder, RefundOrder
  <2>1. p # o
    BY <1>9
  <2>2. orders'[p] = orders[p] /\ Live(p)
    BY <1>4, <2>1 DEF Live
  <2>3. /\ orders[p].section \in Sections /\ RowOf(p)
        /\ orders[p].section \in Seated =>
             /\ HoldsSeat(p)
             /\ orders[p].status = "PAID" => orders[p].ticket = "seat"
    BY <2>2 DEF SalesSurvivePlanning, OrderInv, Live, Reserving
  <2>4. HoldsSeat(p) => orders[p].section # s \/ ~HoldsSeat(o)
    BY <2>1 DEF HoldsSeat, s
  <2> QED
    BY <1>6, <1>8, <1>10, <2>1, <2>2, <2>3, <2>4 DEF HoldsSeat
<1> QED
  BY <1>6, <1>7, <1>11, <1>12, <1>13, OrderStep
  DEF SaleInv, ExpireOrder, RefundOrder

-----------------------------------------------------------------------------
LEMMA NextInv == IInv /\ [Next]_vars => IInv'
<1> SUFFICES ASSUME IInv, [Next]_vars PROVE IInv'
  OBVIOUS
<1>1. ASSUME NEW m \in Maps, CreateMap(m) \/ DeleteMap(m) PROVE IInv'
  BY <1>1, CreateMapStep, DeleteMapStep
<1>2. ASSUME NEW s \in Sections,
             CreateSection(s) \/ DeleteSection(s) \/ SavePrice(s)
      PROVE  IInv'
  BY <1>2, CreateSectionStep, DeleteSectionStep, SavePriceStep
<1>3. ASSUME RemoveVenue \/ Reactivate \/ SetAccess PROVE IInv'
  BY <1>3, RemoveVenueStep, VenueStep
<1>4. ASSUME CreateTermin \/ LoadPage \/ LeavePage \/ SwitchMode PROVE IInv'
  BY <1>4, CreateTerminStep, LoadPageStep, LeavePageStep, SwitchModeStep
<1>5. ASSUME UpdateTermin PROVE IInv'
  BY <1>5, ReadMapStep, AssertNoSectionSalesStep, ToGeneralStep,
     DropOldPlanStep, CreateRowsStep, EndStep DEF UpdateTermin
<1>6. ASSUME NEW o \in Orders,
             \/ \E s \in Sections : Choose(o, s)
             \/ CommitOrder(o) \/ OrderRefused(o) \/ FulfillOrder(o)
             \/ ExpireOrder(o) \/ RefundOrder(o)
      PROVE  IInv'
  BY <1>6, ChooseStep, CommitOrderStep, OrderRefusedStep, FulfillOrderStep,
     ReleaseStep
<1>7. ASSUME UNCHANGED vars PROVE IInv'
  BY <1>7, PageStep DEF vars, IInv, FormInv, PlanningType, sale
<1> QED
  BY <1>1, <1>2, <1>3, <1>4, <1>5, <1>6, <1>7 DEF Next

LEMMA SpecInv == Spec => []IInv
BY InitInv, NextInv, PTL DEF Spec

\* The keys of the tables hold: a row's section and plan exist, the order on
\* a seat is a live one of that very row, without a plan there are no rows.
THEOREM KeysHold == Spec => []PlansTypeOK
<1>1. IInv => PlansTypeOK
  <2> SUFFICES ASSUME IInv PROVE PlansTypeOK
    OBVIOUS
  <2> USE DEF IInv
  <2>1. termin.mode \in Modes /\ termin.map \in Plan
    BY DEF PlanningType
  <2>2. \A o \in Orders :
          orders[o].status \in {"NEW", "CHOSEN", "PENDING", "PAID",
                                "CANCELLED", "REFUNDED"}
    BY DEF SaleType, OrderRow
  <2> QED
    BY <2>1, <2>2 DEF PlansTypeOK, DrawnType, PlanningType, SaleType, RowInv,
                      SeatInv, Modes, Plan
<1> QED
  BY <1>1, SpecInv, PTL

\* No planning takes what was sold: a paid or payable order keeps its row and
\* seat, unless it committed between a switch's check and its deletion.
THEOREM SoldIsKept == Spec => []SalesSurvivePlanning
<1>1. IInv => SalesSurvivePlanning
  BY DEF IInv
<1> QED
  BY <1>1, SpecInv, PTL

\* What is on sale is the plan the termin names.
THEOREM OnePlanOnSale == Spec => []PlanOfItsMap
<1>1. IInv => PlanOfItsMap
  BY DEF IInv
<1> QED
  BY <1>1, SpecInv, PTL

\* A switch that reports no error leaves the page as the database is.
THEOREM PageAnswersTruly == Spec => PageTellsPlan
<1> DEFINE Told == page.saving /\ ~page'.saving /\ ~page'.error
              => /\ page'.mode = termin.mode
                 /\ page'.map # termin.map => ~There(page'.map)
                 /\ page'.sections = WithRow
<1>1. IInv /\ [Next]_vars => [Told]_vars
  <2> SUFFICES ASSUME IInv, Next, page.saving, ~page'.saving, ~page'.error
               PROVE  /\ page'.mode = termin.mode
                      /\ page'.map # termin.map => ~There(page'.map)
                      /\ page'.sections = WithRow
    OBVIOUS
  <2> USE DEF IInv
  <2>1. page \in Forms /\ page.shown
    BY DEF PlanningType, FormInv
  <2>2. page' # page
    OBVIOUS
  <2>3. Succeeds
    <3>1. ~LoadPage /\ ~LeavePage /\ ~SwitchMode
      BY <2>1 DEF LoadPage, LeavePage, SwitchMode
    <3>2. ~\E s \in Sections : SavePrice(s)
      BY DEF SavePrice
    <3>3. ~Fails
      BY <2>1 DEF Fails, Forms
    <3>4. \A m \in Maps : ~CreateMap(m) /\ ~DeleteMap(m)
      BY <2>2 DEF CreateMap, DeleteMap, planning
    <3>5. \A s \in Sections : ~CreateSection(s) /\ ~DeleteSection(s)
      BY <2>2 DEF CreateSection, DeleteSection, planning
    <3>6. ~RemoveVenue /\ ~Reactivate /\ ~SetAccess /\ ~CreateTermin
      BY <2>2 DEF RemoveVenue, Reactivate, SetAccess, CreateTermin, planning
    <3>7. /\ ~ReadMap /\ ~AssertNoSectionSales /\ ~ToGeneral /\ ~DropOldPlan
          /\ ~CreateRows
      BY <2>2 DEF ReadMap, AssertNoSectionSales, ToGeneral, DropOldPlan,
                  CreateRows
    <3>8. \A o \in Orders :
            /\ \A s \in Sections : ~Choose(o, s)
            /\ ~CommitOrder(o) /\ ~OrderRefused(o) /\ ~FulfillOrder(o)
            /\ ~ExpireOrder(o) /\ ~RefundOrder(o)
      BY <2>2 DEF Choose, CommitOrder, OrderRefused, FulfillOrder, ExpireOrder,
                  RefundOrder, planning
    <3> QED
      BY <3>1, <3>2, <3>3, <3>4, <3>5, <3>6, <3>7, <3>8 DEF Next, UpdateTermin
  <2>4. /\ edit # None /\ edit \in Edits /\ edit.step = "rest"
        /\ termin.mode = edit.mode
        /\ termin.map # edit.map => drawn[edit.map] = "deleted"
    BY <2>3 DEF Succeeds, Step, PlanningType, EditInv
  <2>5. /\ page'.mode = edit.mode /\ page'.map = edit.map
        /\ page'.sections = IF edit.mode = "SEATMAP" THEN WithRow ELSE {}
    BY <2>1, <2>3 DEF Succeeds, Forms
  <2>6. edit.mode # "SEATMAP" => WithRow = {}
    BY <2>4 DEF RowInv
  <2> QED
    BY <2>4, <2>5, <2>6 DEF There
<1> QED
  BY <1>1, SpecInv, PTL DEF Spec, PageTellsPlan
=============================================================================
