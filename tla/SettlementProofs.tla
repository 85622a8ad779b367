----------------------------- MODULE SettlementProofs -----------------------------
(***************************************************************************)
(* MCSettlement's booking, as its departure comes closer: what MoneyProofs *)
(* proves of one division holds at every hour of it.                       *)
(***************************************************************************)
EXTENDS MCSettlement, MoneyProofs

-----------------------------------------------------------------------------
(* The booking at hand, as its departure comes closer *)

TypeInv ==
    /\ amount \in Nat
    /\ percent \in Int
    /\ hours \in Int

LEMMA PricesAreAmounts ==
    ASSUME NEW g \in Nat
    PROVE  BookingAmount(g) \in Nat
<1>1. g * PerKgCost \in Nat
  BY DEF PerKgCost, Euro
<1>2. (g * PerKgCost) \div 1000 \in Nat
  BY <1>1
<1>3. QED
  BY <1>2 DEF BookingAmount, FixedCost, Euro

LEMMA TypeHolds ==
    Spec => []TypeInv
<1>1. Init => TypeInv
  <2> SUFFICES ASSUME Init
               PROVE  TypeInv
    OBVIOUS
  <2>1. amount \in Nat
    BY SettlementAssumption, PricesAreAmounts DEF Init
  <2>2. percent \in Int
    BY DEF Init, Percentages
  <2>3. hours \in Int
    BY DEF Init, FirstHour
  <2>4. QED
    BY <2>1, <2>2, <2>3 DEF TypeInv
<1>2. TypeInv /\ [HourPasses]_vars => TypeInv'
  BY DEF TypeInv, HourPasses, vars
<1>3. QED
  BY <1>1, <1>2, PTL DEF Spec

(* At every hour before and after the departure, a booking's amount is     *)
(* handed out by a cancellation to within one unit and by a delivery       *)
(* exactly, whatever parcels there are.                                    *)
THEOREM DivisionIsConserved ==
    Spec => []DivisionConserves
<1>1. TypeInv => DivisionConserves
  BY CancelConserved, DeliveryConserved DEF TypeInv, DivisionConserves
<1>2. QED
  BY <1>1, TypeHolds, PTL

(* As the hours pass, cancelling never brings the sender more.             *)
THEOREM WaitingIsNoUse ==
    Spec => WaitingNeverPays
<1>1. /\ TypeInv
      /\ TypeInv'
      /\ [HourPasses]_vars
      => [LaterCancelsGetLess(amount, hours, hours')]_vars
  BY WaitingCosts DEF TypeInv, HourPasses, vars
<1>2. QED
  BY <1>1, TypeHolds, PTL DEF Spec, WaitingNeverPays

===============================================================================
