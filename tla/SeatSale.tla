------------------------------ MODULE SeatSale ------------------------------
(***************************************************************************)
(* What the sale of numbered seats promises, without transactions, locks,  *)
(* webhooks or jobs: while the occurrence is open, a seat belongs to at    *)
(* most one order, an order gets all of its seats or none, keeps them when *)
(* it is paid, and gives all of them back, in one step, only if it lapses  *)
(* unpaid.  SeatCheckout implements this module.                           *)
(***************************************************************************)
CONSTANTS Orders, Seats, Nobody

VARIABLES
  open,   \* the occurrence has not been called off
  phase,  \* life of an order: new, pending, paid, ended
  owner   \* the order a seat belongs to, or Nobody

Phases == {"new", "pending", "paid", "ended"}

SaleTypeOK ==
  /\ open \in BOOLEAN
  /\ phase \in [Orders -> Phases]
  /\ owner \in [Seats -> Orders \cup {Nobody}]

SeatsOf(o) == {s \in Seats : owner[s] = o}

SaleInit ==
  /\ open = TRUE
  /\ phase = [o \in Orders |-> "new"]
  /\ owner = [s \in Seats |-> Nobody]

Reserve(o, S) ==
  /\ open
  /\ phase[o] = "new"
  /\ \A s \in S : owner[s] = Nobody
  /\ phase' = [phase EXCEPT ![o] = "pending"]
  /\ owner' = [s \in Seats |-> IF s \in S THEN o ELSE owner[s]]
  /\ UNCHANGED open

Pay(o) ==
  /\ open
  /\ phase[o] = "pending"
  /\ phase' = [phase EXCEPT ![o] = "paid"]
  /\ UNCHANGED <<open, owner>>

Lapse(O) ==
  /\ open
  /\ \A o \in O : phase[o] = "pending"
  /\ phase' = [o \in Orders |-> IF o \in O THEN "ended" ELSE phase[o]]
  /\ owner' = [s \in Seats |-> IF owner[s] \in O THEN Nobody ELSE owner[s]]
  /\ UNCHANGED open

\* Once the occurrence is called off the seats are promised to nobody; an
\* order still never goes back in its life.
Forward(before, after) ==
  \/ after = before
  \/ before = "new"
  \/ before = "pending" /\ after \in {"paid", "ended"}
  \/ before = "paid" /\ after = "ended"

CallOff ==
  /\ open' = FALSE
  /\ \A o \in Orders : Forward(phase[o], phase'[o])
  /\ phase' \in [Orders -> Phases]
  /\ owner' \in [Seats -> Orders \cup {Nobody}]

SaleNext ==
  \/ \E o \in Orders, S \in SUBSET Seats : Reserve(o, S)
  \/ \E o \in Orders : Pay(o)
  \/ \E O \in SUBSET Orders : Lapse(O)
  \/ CallOff

saleVars == <<open, phase, owner>>

SaleSpec == SaleInit /\ [][SaleNext]_saleVars

=============================================================================
