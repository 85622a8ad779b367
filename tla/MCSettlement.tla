------------------------------ MODULE MCSettlement ------------------------------
(***************************************************************************)
(* Settlement checked over parcels, percentages and times to departure.    *)
(* A state is one booking whose departure comes closer hour by hour.       *)
(***************************************************************************)
EXTENDS Settlement

CONSTANTS Grams,        \* weights of parcels
          Odd           \* unrounded amounts, to exercise the rounding

ASSUME SettlementAssumption == Grams \subseteq Nat /\ Odd \subseteq Nat

(* PLATFORM_COST_PERCENTAGE, in and out of 0..100. *)
Percentages == {-3, 0, 1, 10, 33, 50, 99, 100, 120}

(* From before the 48-hour limit to after the departure. *)
FirstHour == 50
LastHour == -2

VARIABLES amount, percent, hours

vars == <<amount, percent, hours>>

Init ==
    /\ amount \in {BookingAmount(g) : g \in Grams} \cup Odd
    /\ percent \in Percentages
    /\ hours = FirstHour

HourPasses ==
    /\ hours > LastHour
    /\ hours' = hours - 1
    /\ UNCHANGED <<amount, percent>>

Spec == Init /\ [][HourPasses]_vars

(* Whether the booking at hand is cancelled or delivered, its amount is    *)
(* handed out: but for one unit of rounding, and exactly, in that order.   *)
DivisionConserves ==
    /\ CancelConserves(amount, hours)
    /\ DeliveryConserves(amount, percent)

(* An hour later, cancelling brings the sender no more than an hour ago.   *)
WaitingNeverPays ==
    [][LaterCancelsGetLess(amount, hours, hours')]_vars

===============================================================================
