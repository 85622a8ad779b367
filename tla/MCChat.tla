-------------------------------- MODULE MCChat --------------------------------
(***************************************************************************)
(* A small instance of Chat.                                               *)
(***************************************************************************)
EXTENDS Chat, TLC

Symmetric ==
    Permutations(Users) \cup Permutations(Sockets) \cup Permutations(Convs)
        \cup Permutations(Procs)

===============================================================================
