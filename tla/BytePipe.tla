------------------------------ MODULE BytePipe ------------------------------
(***************************************************************************)
(* What the looped-back pair of bulk pipes promises: a bounded first-in    *)
(* first-out pipe.  A write puts a prefix of its data at the end, once; a  *)
(* read takes data from the front; a removal of the device drops what is   *)
(* left.                                                                   *)
(***************************************************************************)
EXTENDS Sequences, Integers

CONSTANTS
  Writers,   (* requests that write; unit <<w, k>> is the k-th of w's data  *)
  Capacity

VARIABLES
  wants,     (* the amount of data of each write *)
  content,   (* the data in the pipe             *)
  delivered  (* the data all reads have got      *)

pipeVars == <<wants, content, delivered>>

PipeInit ==
  /\ wants \in [Writers -> Nat]
  /\ content = <<>>
  /\ delivered = <<>>

Appears(w, q) == \E i \in DOMAIN q : q[i][1] = w

Put(w) ==
  /\ ~Appears(w, content \o delivered)
  /\ \E n \in 1 .. wants[w] :
       /\ Len(content) + n <= Capacity
       /\ content' = content \o [k \in 1 .. n |-> <<w, k>>]
  /\ UNCHANGED <<wants, delivered>>

Take ==
  \E n \in 1 .. Len(content) :
    /\ UNCHANGED wants
    /\ delivered' = delivered \o SubSeq(content, 1, n)
    /\ content' = SubSeq(content, n + 1, Len(content))

Discard == content' = <<>> /\ UNCHANGED <<wants, delivered>>

PipeNext == (\E w \in Writers : Put(w)) \/ Take \/ Discard

PipeSpec == PipeInit /\ [][PipeNext]_pipeVars

=============================================================================
