---------------------------- MODULE MCBookingEscrow ----------------------------
(***************************************************************************)
(* Small instances of BookingEscrow: one sender, one traveller, and the    *)
(* sender's bookings on the traveller's trip.                              *)
(***************************************************************************)
EXTENDS BookingEscrow, TLC

CONSTANTS sender, traveller

MCUsers == {sender, traveller}
MCOwnerOf == [b \in Bookings |-> sender]
MCTravellerOf == [b \in Bookings |-> traveller]
MCAmount == [b \in Bookings |-> 107]

(* Enough for one booking and not for two. *)
MCInitialBalance == [u \in MCUsers |-> 150]

(* Either side of 24 hours; MCSettlement goes through the others. *)
MCHours == {36, 12}
MCLate == {12}

MCPercentage == 10

(* The operations of each run. *)
MCConcurrentOps == AllOps \ {"webhook", "notAccept", "notAcceptRefuse",
                             "notRefuse"}
MCMoneyOps == {"payFromWallet", "cancel", "expire"} \cup Answers
MCPaymentOps == {"payFromWallet", "webhook", "accept", "refuse", "expire"}
MCWalletOps == {"payFromWallet"}
MCCardOps == {"payFromWallet", "webhook"}
MCDeliveryOps == {"payFromWallet", "accept", "pickUp", "dropOff", "cancel"}

Symmetric == Permutations(Requests)

===============================================================================
