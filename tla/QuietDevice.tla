---------------------------- MODULE QuietDevice ----------------------------
(***************************************************************************)
(* The child device with two restrictions on the threads around it:        *)
(*   - a request is cancelled while it is in a pipe's list, not while a    *)
(*     DPC, AbortPipe or the removal has it in hand: their requests keep   *)
(*     the cancel routine, and would be completed twice;                   *)
(*   - the device is removed with no transfer in a DPC's hands, no work    *)
(*     item under way and no request between the test of Removed and the   *)
(*     list, all of which the removal waits for in no way.                 *)
(***************************************************************************)
EXTENDS ChildDevice

InList(i) == \E p \in Pipes : i \in ToSet(list[p])

QuietCancel(i) == InList(i) /\ Cancel(i)

Quiescent ==
  /\ \A p \in Pipes : ~InHands(p)
  /\ \A i \in Irps : status[i] # "checked"
  /\ \A i \in Controls : status[i] # "pending"

QuietRemove == Quiescent /\ MarkRemoved

QuietDequeue(p) == removal # "marked" /\ Dequeue(p)

QuietNext ==
  /\ ~halted
  /\ \/ \E i \in Irps : \/ Submit(i) \/ Enqueue(i) \/ QueueWorkItem(i)
                        \/ WorkItem(i) \/ QuietCancel(i)
     \/ \E p \in Pipes : \/ AbortPipe(p) \/ QuietDequeue(p) \/ Carry(p)
     \/ AbortComplete
     \/ QuietRemove \/ Drain \/ RemoveComplete \/ Free

QuietSpec == Init /\ [][QuietNext]_vars /\ Scheduling

-----------------------------------------------------------------------------
(* Every request is completed at most once and no memory is used after it    *)
(* was freed (Driver.c:1156, 1256, 1288, 652): lists, DPCs, aborts and the   *)
(* removal hand requests to each other without a gap and without a copy.     *)
CompletedOnce ==
  /\ ~halted
  /\ \A i \in Reads \union Writes :
       status[i] = "pending" <=>
         \/ InList(i)
         \/ \E p \in Pipes : InHands(p) /\ irp[p] = i
         \/ i \in ToSet(aborted) \union ToSet(dequeued)

(* The data in the buffer, as the reads see it: a DPC that has copied its    *)
(* data to a read has yet to take it out.                                    *)
Held ==
  LET n == size[BulkIn]
  IN  CASE at[BulkIn] \in {"copied", "loaded"} ->
             [k \in 1 .. SizeofHolding - n |-> ByteAt(n + k)]
        [] at[BulkIn] = "stored" -> [k \in 1 .. SizeofHolding |-> ByteAt(n + k)]
        [] OTHER -> [k \in 1 .. SizeofHolding |-> ByteAt(k)]

(* The pipes loop data back like a bounded first-in first-out pipe: nothing  *)
(* is lost, repeated or reordered by partial writes, partial reads and the   *)
(* moves of the buffer (Driver.c:1348).                                      *)
Pipe == INSTANCE BytePipe
  WITH Writers <- Writes, Capacity <- MaxHolding, content <- Held,
       wants <- [w \in Writes |-> length[w]]

LoopsBack == Pipe!PipeSpec

(* A write in the list is completed, sooner or later (Driver.c:1116).        *)
WritesComplete ==
  \A w \in Writes : status[w] = "pending" ~> status[w] \in Done

(* While the buffer holds data a read in the list gets its turn              *)
(* (Driver.c:1093).                                                          *)
ReadsServed ==
  \A r \in Reads :
    status[r] = "pending" /\ SizeofHolding > 0
      ~> status[r] \in Done \/ SizeofHolding = 0

=============================================================================
