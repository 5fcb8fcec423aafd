---------------------------- MODULE MCChildDevice ---------------------------
(* Instances of ChildDevice and QuietDevice for TLC.                         *)
EXTENDS QuietDevice

(* Requests of one kind differ in nothing but their names.                   *)
Symmetry == Permutations(Reads) \union Permutations(Writes)

=============================================================================
