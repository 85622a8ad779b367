------------------------------ MODULE MCAccounts ------------------------------
(***************************************************************************)
(* A small instance of Accounts.                                           *)
(***************************************************************************)
EXTENDS Accounts, TLC

Symmetric ==
    Permutations(Users) \cup Permutations(Emails) \cup Permutations(Codes)
        \cup Permutations(Procs)

===============================================================================
