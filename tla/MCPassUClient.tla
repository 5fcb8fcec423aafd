--------------------------- MODULE MCPassUClient ---------------------------
(* Instances of PassUClient and OrderlyClient for TLC.                       *)
EXTENDS OrderlyClient, TLC

(* Device objects differ in nothing but their names.                         *)
Symmetry == Permutations(Children)

=============================================================================
