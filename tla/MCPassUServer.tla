--------------------------- MODULE MCPassUServer ---------------------------
(* Instances of PassUServer and OrderlyUse for TLC.                          *)
EXTENDS OrderlyUse

(* Ids left in uninitialised memory: none, and a pattern that is no id.      *)
MCForeignIds == {0, 205}

(* The same and the id of a socket that used the memory before.              *)
MCStaleIds == {0, 1, 205}

(* Connections differ in nothing but their names.                            *)
Symmetry == Permutations(Sockets)

=============================================================================
