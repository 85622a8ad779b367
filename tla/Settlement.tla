------------------------------ MODULE Settlement ------------------------------
(***************************************************************************)
(* The arithmetic of a booking: its price, and how its amount is divided   *)
(* when the sender cancels and when the parcel is delivered.               *)
(*                                                                         *)
(* Money is an integer number of units of 0.0001 euro: every amount and    *)
(* balance is a Decimal(15, 4) column (prisma/schema.prisma), and a value  *)
(* with more decimals is rounded to four when Postgres stores it.  Weights *)
(* are integer grams.                                                      *)
(***************************************************************************)
EXTENDS Integers

-----------------------------------------------------------------------------
(* One euro, and the price list of config/app.config.ts.                   *)
Euro == 10000
FixedCost == 20 * Euro
PerKgCost == 6 * Euro

(* weight * 6 euros has at most four decimals when the weight is in grams, *)
(* so the price is exact: 6 euros per kg is 60 units per gram.             *)
BookingAmount(grams) == FixedCost + (grams * PerKgCost) \div 1000

-----------------------------------------------------------------------------
(* Mutant: the database cuts the decimals off. *)
ShareCut(amount, percent) == (amount * percent) \div 100

(* The share `percent` of `amount`, as the database stores it: the nearest *)
(* unit, halves away from zero.                                            *)
Share(amount, percent) == (amount * percent + 50) \div 100

Split == [sender : Nat, traveller : Nat, platform : Nat]

(* What a cancellation by the traveller pays: all of it to the sender.     *)
FullRefund(amount) == [sender |-> amount, traveller |-> 0, platform |-> 0]

(* Mutant: the two later bands are swapped. *)
SenderCancelSwapped(amount, hours) ==
    IF hours > 48
        THEN FullRefund(amount)
    ELSE IF hours >= 24
        THEN [sender    |-> Share(amount, 36),
              traveller |-> Share(amount, 36),
              platform  |-> Share(amount, 28)]
    ELSE [sender    |-> Share(amount, 80),
          traveller |-> 0,
          platform  |-> Share(amount, 20)]

(* What a cancellation by the sender pays, by the hours left before the    *)
(* departure of the travel (negative once it has left).                    *)
SenderCancelSplit(amount, hours) ==
    IF hours > 48
        THEN FullRefund(amount)
    ELSE IF hours >= 24
        THEN [sender    |-> Share(amount, 80),
              traveller |-> 0,
              platform  |-> Share(amount, 20)]
    ELSE [sender    |-> Share(amount, 36),
          traveller |-> Share(amount, 36),
          platform  |-> Share(amount, 28)]

-----------------------------------------------------------------------------
(* PLATFORM_COST_PERCENTAGE forced into 0..100.                            *)
Normalized(percent) ==
    IF percent < 0 THEN 0 ELSE IF percent > 100 THEN 100 ELSE percent

(* The commissions toFixed(4) may return: the nearest unit to the exact    *)
(* share.  On an exact half the binary representation decides, so both     *)
(* neighbours are possible.                                                *)
Commissions(amount, percent) ==
    LET exact == amount * Normalized(percent)
    IN  {c \in {exact \div 100, exact \div 100 + 1} :
            /\ 2 * (100 * c - exact) <= 100
            /\ 2 * (exact - 100 * c) <= 100}

(* What a delivery may pay: the commission to the platform and what is     *)
(* left to the traveller.                                                  *)
DeliverySplits(amount, percent) ==
    {[sender |-> 0, traveller |-> amount - c, platform |-> c] :
        c \in Commissions(amount, percent)}

(* All that a split pays out. *)
Paid(split) == split.sender + split.traveller + split.platform

-----------------------------------------------------------------------------
(* Properties of the division, for one amount *)

(* A cancellation hands out the amount to within one unit (a hundredth of  *)
(* a cent): each share is rounded on its own when it is stored, so the     *)
(* three can lose or gain one unit together, and never more.               *)
CancelConserves(amount, hours) ==
    Paid(SenderCancelSplit(amount, hours)) \in amount - 1 .. amount + 1

(* Waiting never pays: the later the sender cancels, the less comes back.  *)
LaterCancelsGetLess(amount, hours, later) ==
    later <= hours =>
        SenderCancelSplit(amount, later).sender
            <= SenderCancelSplit(amount, hours).sender

(* A delivery hands out the amount exactly and takes from nobody, whatever *)
(* percentage is configured, because the traveller gets what is left.      *)
DeliveryConserves(amount, percent) ==
    \A split \in DeliverySplits(amount, percent) :
        /\ Paid(split) = amount
        /\ split.traveller >= 0
        /\ split.platform >= 0

===============================================================================
