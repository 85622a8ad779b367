----------------------------- MODULE MCWalletPayout -----------------------------
(***************************************************************************)
(* A small instance of WalletPayout.                                       *)
(***************************************************************************)
EXTENDS WalletPayout, TLC

(* One and a half euros and a half cent, and one euro: a wallet of 1.60    *)
(* pays any of them, and not two.                                          *)
MCAmounts == {15050, 10000}
MCBalance == 16000

Symmetric ==
    Permutations(Users) \cup Permutations(Accounts) \cup Permutations(Procs)

===============================================================================
