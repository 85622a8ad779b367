------------------------------ MODULE EscrowLedger ------------------------------
(***************************************************************************)
(* What the booking handlers promise about a booking's money, whatever the *)
(* interleaving, the failures and the deliveries of webhooks: four counts  *)
(* and the payment_status column, and the only ways they may change.       *)
(*                                                                         *)
(*   - The wallet pays a booking at most once, and the debit and the       *)
(*     column change together.                                             *)
(*   - The column says "completed" only of money that was taken, from the  *)
(*     wallet or from a card.                                              *)
(*   - It says "refunded" only after money was given back.                 *)
(*   - Nothing taken or given back is ever forgotten.                      *)
(***************************************************************************)
EXTENDS Naturals

CONSTANTS Bookings

VARIABLES mark,         \* the payment_status column
          debits,       \* wallet payments
          charges,      \* card payments
          refunds,      \* refunds and settlements credited to wallets
          payouts       \* deliveries paid out

ledgerVars == <<mark, debits, charges, refunds, payouts>>

Init ==
    /\ mark = [b \in Bookings |-> "pending"]
    /\ debits = [b \in Bookings |-> 0]
    /\ charges = [b \in Bookings |-> 0]
    /\ refunds = [b \in Bookings |-> 0]
    /\ payouts = [b \in Bookings |-> 0]

PayFromWallet(b) ==
    /\ debits[b] = 0
    /\ debits' = [debits EXCEPT ![b] = 1]
    /\ mark' = [mark EXCEPT ![b] = "completed"]
    /\ UNCHANGED <<charges, refunds, payouts>>

PayByCard(b) ==
    /\ charges' = [charges EXCEPT ![b] = @ + 1]
    /\ UNCHANGED <<mark, debits, refunds, payouts>>

RecordCardPayment(b) ==
    /\ charges[b] > 0
    /\ mark' = [mark EXCEPT ![b] = "completed"]
    /\ UNCHANGED <<debits, charges, refunds, payouts>>

GiveBack(b) ==
    /\ refunds' = [refunds EXCEPT ![b] = @ + 1]
    /\ UNCHANGED <<mark, debits, charges, payouts>>

RecordRefund(b) ==
    /\ refunds[b] > 0
    /\ mark' = [mark EXCEPT ![b] = "refunded"]
    /\ UNCHANGED <<debits, charges, refunds, payouts>>

PayOut(b) ==
    /\ payouts' = [payouts EXCEPT ![b] = @ + 1]
    /\ UNCHANGED <<mark, debits, charges, refunds>>

Next ==
    \E b \in Bookings :
        \/ PayFromWallet(b) \/ PayByCard(b) \/ RecordCardPayment(b)
        \/ GiveBack(b) \/ RecordRefund(b) \/ PayOut(b)

Spec == Init /\ [][Next]_ledgerVars

===============================================================================
