-------------------------------- MODULE MCCards --------------------------------
(***************************************************************************)
(* A small instance of Cards.                                              *)
(***************************************************************************)
EXTENDS Cards, TLC

Symmetric ==
    Permutations(Users) \cup Permutations(CardIds) \cup Permutations(Customers)
        \cup Permutations(Procs)

===============================================================================
