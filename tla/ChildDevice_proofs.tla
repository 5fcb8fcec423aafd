------------------------- MODULE ChildDevice_proofs -------------------------
(***************************************************************************)
(* Theorems about ChildDevice for any requests, lengths, buffer size and   *)
(* assignment of the DPCs to processors.                                   *)
(***************************************************************************)
EXTENDS ChildDevice, SequenceLemmas

(* What a DPC knows of the fill while the other one changes it: the fill     *)
(* only grows while a read is under way and only falls while a write is.     *)
ReadKnows ==
  /\ at[0] = "compared" => seen[0] \in 0 .. SizeofHolding
  /\ at[0] \in {"sized", "copied"} => size[0] \in 1 .. SizeofHolding
  /\ at[0] = "loaded" => /\ seen[0] \in 0 .. SizeofHolding
                         /\ size[0] \in 1 .. seen[0]

WriteKnows ==
  /\ at[1] = "compared" => seen[1] \in 0 .. MaxHolding - SizeofHolding
  /\ at[1] \in {"sized", "copied"} => size[1] \in 1 .. MaxHolding - SizeofHolding
  /\ at[1] = "loaded" => /\ seen[1] \in SizeofHolding .. MaxHolding
                         /\ size[1] \in 1 .. MaxHolding - seen[1]

FillOK ==
  removal # "freed" =>
    SizeofHolding \in 0 .. MaxHolding /\ ReadKnows /\ WriteKnows

IInv == TypeOK /\ FillOK

-----------------------------------------------------------------------------
(* Type correctness.                                                         *)

LEMMA Distinct ==
  /\ Pipes = {BulkIn, BulkOut} /\ BulkIn = 0 /\ BulkOut = 1
  /\ Requests(BulkIn) = Reads /\ Requests(BulkOut) = Writes
  /\ \A p \in Pipes : Requests(p) \subseteq Reads \union Writes
  /\ \A p \in Pipes : Requests(p) \subseteq Irps
  /\ NoIrp \notin Reads \union Writes
BY DeviceAssumption DEF Pipes, BulkIn, BulkOut, Requests, Irps

(* Completing a request changes its status, or nothing but halted.           *)
LEMMA CompleteTypes ==
  ASSUME status \in [Irps -> {"new", "checked", "pending"} \union Done],
         routine \subseteq Irps, halted \in BOOLEAN,
         NEW i \in Irps, NEW result \in Done, Complete(i, result)
  PROVE  /\ status' \in [Irps -> {"new", "checked", "pending"} \union Done]
         /\ routine' \subseteq Irps
         /\ halted' \in BOOLEAN
BY DEF Complete

LEMMA UnchangedTypes ==
  /\ ListTypeOK /\ UNCHANGED listVars => ListTypeOK'
  /\ DpcTypeOK /\ UNCHANGED dpcVars => DpcTypeOK'
  /\ BufferTypeOK /\ UNCHANGED bufferVars => BufferTypeOK'
  /\ RemoveTypeOK /\ UNCHANGED removeVars => RemoveTypeOK'
<1>1. ListTypeOK /\ UNCHANGED listVars => ListTypeOK'
  BY DEF ListTypeOK, listVars
<1>2. DpcTypeOK /\ UNCHANGED dpcVars => DpcTypeOK'
  BY DEF DpcTypeOK, dpcVars, InHands
<1>3. BufferTypeOK /\ UNCHANGED bufferVars => BufferTypeOK'
  BY DEF BufferTypeOK, bufferVars
<1>4. RemoveTypeOK /\ UNCHANGED removeVars => RemoveTypeOK'
  BY DEF RemoveTypeOK, removeVars
<1>. QED
  BY <1>1, <1>2, <1>3, <1>4

(* A DPC that ends leaves its pipe idle.                                     *)
LEMMA FinishTypes ==
  ASSUME TypeOK, NEW p \in Pipes, InHands(p), NEW result \in Done,
         Finish(p, result)
  PROVE  TypeOK'
<1>1. irp[p] \in Irps
  BY Distinct DEF TypeOK, DpcTypeOK
<1>2. ListTypeOK' /\ halted' \in BOOLEAN
  <2>1. Complete(irp[p], result) /\ UNCHANGED <<list, length>>
    BY DEF Finish
  <2>. QED
    BY <1>1, <2>1, CompleteTypes DEF TypeOK, ListTypeOK
<1>3. DpcTypeOK'
  BY DEF Finish, Goto, InHands, Stages, TypeOK, DpcTypeOK
<1>4. BufferTypeOK' /\ RemoveTypeOK'
  BY UnchangedTypes DEF Finish, TypeOK
<1>. QED
  BY <1>2, <1>3, <1>4 DEF TypeOK

LEMMA HaltTypes == TypeOK /\ Halt => TypeOK'
BY UnchangedTypes DEF Halt, TypeOK

(* What a dispatch routine does to the lists.                                *)
LEMMA DispatchTypes ==
  ASSUME TypeOK, NEW i \in Irps,
         Submit(i) \/ Enqueue(i) \/ QueueWorkItem(i) \/ WorkItem(i)
  PROVE  TypeOK'
<1>1. CASE Submit(i)
  <2>1. ListTypeOK' /\ halted' \in BOOLEAN
    <3>1. CASE Complete(i, "failed")
      BY <1>1, <3>1, CompleteTypes DEF Submit, TypeOK, ListTypeOK, Done
    <3>2. CASE ~Complete(i, "failed")
      BY <1>1, <3>2 DEF Submit, TypeOK, ListTypeOK
    <3>. QED
      BY <3>1, <3>2
  <2>. QED
    BY <1>1, <2>1, UnchangedTypes DEF Submit, TypeOK
<1>2. CASE Enqueue(i)
  <2>1. PipeOf(i) \in Pipes /\ i \in Requests(PipeOf(i))
    BY <1>2, Distinct DEF Enqueue, PipeOf
  <2>2. /\ list' = [list EXCEPT ![PipeOf(i)] = Append(list[PipeOf(i)], i)]
        /\ Append(list[PipeOf(i)], i) \in Seq(Requests(PipeOf(i)))
        /\ Append(list[PipeOf(i)], i) \in Seq(Reads \union Writes)
    BY <1>2, <2>1 DEF Enqueue, TypeOK, ListTypeOK
  <2>3. ListTypeOK'
    BY <1>2, <2>1, <2>2 DEF Enqueue, TypeOK, ListTypeOK
  <2>. QED
    BY <1>2, <2>3, UnchangedTypes DEF Enqueue, TypeOK
<1>3. CASE QueueWorkItem(i)
  <2>1. ListTypeOK'
    BY <1>3 DEF QueueWorkItem, TypeOK, ListTypeOK
  <2>. QED
    BY <1>3, <2>1, UnchangedTypes DEF QueueWorkItem, TypeOK
<1>4. CASE WorkItem(i)
  <2>1. CASE Halt
    BY <2>1, HaltTypes
  <2>2. CASE ~Halt
    <3>1. /\ Complete(i, "success")
          /\ UNCHANGED <<list, length, dpcVars, bufferVars, removeVars>>
      BY <1>4, <2>2 DEF WorkItem
    <3>2. ListTypeOK' /\ halted' \in BOOLEAN
      BY <3>1, CompleteTypes DEF TypeOK, ListTypeOK, Done
    <3>. QED
      BY <3>1, <3>2, UnchangedTypes DEF TypeOK
  <2>. QED
    BY <2>1, <2>2
<1>. QED
  BY <1>1, <1>2, <1>3, <1>4

(* Cancelling takes a request out of whatever sequence holds it.             *)
LEMMA CancelTypes ==
  ASSUME TypeOK, NEW i \in Irps, Cancel(i)
  PROVE  TypeOK'
<1>1. CASE Halt
  BY <1>1, HaltTypes
<1>2. CASE ~Halt
  <2>. DEFINE p == PipeOf(i)
  <2>1. p \in Pipes
    BY Distinct DEF PipeOf
  <2>2. /\ aborted' \in Unlinked(aborted, i) /\ dequeued' \in Unlinked(dequeued, i)
        /\ Complete(i, "cancelled")
        /\ UNCHANGED <<length, dpcVars, bufferVars, removal, late>>
    BY <1>2 DEF Cancel
  <2>3. \/ list' = [list EXCEPT ![p] = Without(list[p], i)]
        \/ list' = [list EXCEPT ![p] = <<>>]
        \/ list' = list
    BY <1>2 DEF Cancel, UnlinkTaken
  <2>. HIDE DEF p
  <2>4. /\ Without(list[p], i) \in Seq(Requests(p))
        /\ Without(list[p], i) \in Seq(Reads \union Writes)
        /\ <<>> \in Seq(Requests(p)) /\ <<>> \in Seq(Reads \union Writes)
    BY <2>1, RemoveFirstElements DEF Without, TypeOK, ListTypeOK
  <2>5. /\ list' \in [Pipes -> Seq(Reads \union Writes)]
        /\ \A r \in Pipes : list'[r] \in Seq(Requests(r))
    BY <2>1, <2>3, <2>4 DEF TypeOK, ListTypeOK
  <2>6. ListTypeOK' /\ halted' \in BOOLEAN
    BY <2>2, <2>5, CompleteTypes DEF TypeOK, ListTypeOK, Done
  <2>7. RemoveTypeOK'
    BY <2>2, RemoveFirstElements DEF Unlinked, Without, TypeOK, RemoveTypeOK
  <2>. QED
    BY <2>2, <2>6, <2>7, UnchangedTypes DEF TypeOK
<1>. QED
  BY <1>1, <1>2

(* The aborting and the removing thread.                                     *)
LEMMA DrainTypes ==
  ASSUME TypeOK,
         \/ \E p \in Pipes : AbortPipe(p)
         \/ AbortComplete \/ MarkRemoved \/ Drain \/ RemoveComplete \/ Free
  PROVE  TypeOK'
<1>1. ASSUME NEW p \in Pipes, AbortPipe(p) PROVE TypeOK'
  <2>1. list' = [list EXCEPT ![p] = <<>>] /\ UNCHANGED <<status, length, routine>>
    BY <1>1 DEF AbortPipe
  <2>2. ListTypeOK'
    BY <2>1 DEF TypeOK, ListTypeOK
  <2>3. RemoveTypeOK'
    BY <1>1 DEF AbortPipe, TypeOK, ListTypeOK, RemoveTypeOK
  <2>. QED
    BY <1>1, <2>2, <2>3, UnchangedTypes DEF AbortPipe, TypeOK
<1>2. CASE AbortComplete
  <2>1. Head(aborted) \in Irps /\ Tail(aborted) \in Seq(Reads \union Writes)
    BY <1>2 DEF AbortComplete, TypeOK, RemoveTypeOK, Irps
  <2>2. ListTypeOK' /\ halted' \in BOOLEAN
    BY <1>2, <2>1, CompleteTypes DEF AbortComplete, TypeOK, ListTypeOK, Done
  <2>3. RemoveTypeOK'
    BY <1>2, <2>1 DEF AbortComplete, TypeOK, RemoveTypeOK
  <2>. QED
    BY <1>2, <2>2, <2>3, UnchangedTypes DEF AbortComplete, TypeOK
<1>3. CASE MarkRemoved
  <2>1. RemoveTypeOK'
    BY <1>3 DEF MarkRemoved, TypeOK, RemoveTypeOK
  <2>. QED
    BY <1>3, <2>1, UnchangedTypes DEF MarkRemoved, TypeOK
<1>4. CASE Drain
  <2>1. ListTypeOK'
    BY <1>4 DEF Drain, Drained, TypeOK, ListTypeOK
  <2>2. list[BulkIn] \o list[BulkOut] \in Seq(Reads \union Writes)
    BY Distinct, ConcatProperties DEF TypeOK, ListTypeOK
  <2>3. RemoveTypeOK'
    BY <1>4, <2>2 DEF Drain, TypeOK, RemoveTypeOK
  <2>. QED
    BY <1>4, <2>1, <2>3, UnchangedTypes DEF Drain, TypeOK
<1>5. CASE RemoveComplete
  <2>1. Head(dequeued) \in Irps /\ Tail(dequeued) \in Seq(Reads \union Writes)
    BY <1>5 DEF RemoveComplete, TypeOK, RemoveTypeOK, Irps
  <2>2. ListTypeOK' /\ halted' \in BOOLEAN
    BY <1>5, <2>1, CompleteTypes DEF RemoveComplete, TypeOK, ListTypeOK, Done
  <2>3. RemoveTypeOK'
    BY <1>5, <2>1 DEF RemoveComplete, TypeOK, RemoveTypeOK
  <2>. QED
    BY <1>5, <2>2, <2>3, UnchangedTypes DEF RemoveComplete, TypeOK
<1>6. CASE Free
  <2>1. BufferTypeOK'
    BY <1>6 DEF Free, TypeOK, BufferTypeOK, Units
  <2>2. RemoveTypeOK'
    BY <1>6 DEF Free, TypeOK, RemoveTypeOK
  <2>. QED
    BY <1>6, <2>1, <2>2, UnchangedTypes DEF Free, TypeOK
<1>. QED
  BY <1>1, <1>2, <1>3, <1>4, <1>5, <1>6

LEMMA DequeueTypes ==
  ASSUME TypeOK, NEW p \in Pipes, Dequeue(p)
  PROVE  TypeOK'
<1>1. RemoveTypeOK' /\ BufferTypeOK' /\ halted' \in BOOLEAN
  BY UnchangedTypes DEF Dequeue, TypeOK, RemoveTypeOK
<1>2. CASE list[p] = <<>>
  <2>1. UNCHANGED <<listVars, dpcVars>>
    BY <1>2 DEF Dequeue, listVars, dpcVars
  <2>. QED
    BY <1>1, <2>1, UnchangedTypes DEF TypeOK
<1>3. CASE list[p] # <<>>
  <2>. DEFINE next == IF Len(list[p]) > 1 THEN list[p][2] ELSE NoIrp
  <2>1. /\ Head(list[p]) \in Requests(p)
        /\ Tail(list[p]) \in Seq(Requests(p))
        /\ Tail(list[p]) \in Seq(Reads \union Writes)
        /\ next \in Requests(p) \union {NoIrp}
    BY <1>3 DEF TypeOK, ListTypeOK
  <2>2. /\ at' = [at EXCEPT ![p] = "taken"]
        /\ irp' = [irp EXCEPT ![p] = Head(list[p])]
        /\ succ' = [succ EXCEPT ![p] = next]
        /\ list' = [list EXCEPT ![p] = Tail(list[p])]
        /\ UNCHANGED <<status, length, routine, seen, size>>
    BY <1>3 DEF Dequeue, Goto
  <2>. HIDE DEF next
  <2>3. ListTypeOK'
    BY <2>1, <2>2 DEF TypeOK, ListTypeOK
  <2>4. DpcTypeOK'
    BY <2>1, <2>2, Distinct DEF TypeOK, DpcTypeOK, InHands, Stages
  <2>. QED
    BY <1>1, <2>3, <2>4 DEF TypeOK
<1>. QED
  BY <1>2, <1>3

(* A DPC that goes on with the request it has.                               *)
LEMMA GotoTypes ==
  ASSUME TypeOK, NEW p \in Pipes, InHands(p),
         NEW stage \in Stages \ {"idle"}, Goto(p, stage), UNCHANGED <<irp, succ>>,
         seen' \in [Pipes -> Int], size' \in [Pipes -> Int]
  PROVE  DpcTypeOK'
BY DEF Goto, InHands, TypeOK, DpcTypeOK

LEMMA CarryTypes ==
  ASSUME TypeOK, FillOK, NEW p \in Pipes, Carry(p)
  PROVE  TypeOK'
<1>. USE DEF Stages, Done
<1>0. /\ seen \in [Pipes -> Int] /\ size \in [Pipes -> Int]
      /\ SizeofHolding \in Int /\ MaxHolding \in Nat /\ Room(p) \in Int
  BY DeviceAssumption DEF TypeOK, DpcTypeOK, BufferTypeOK, Room
<1>1. CASE Compare(p)
  <2>0. InHands(p)
    BY <1>1 DEF Compare, InHands
  <2>1. CASE Finish(p, "failed")
    BY <2>0, <2>1, FinishTypes
  <2>2. CASE ~Finish(p, "failed")
    <3>1. /\ seen' = [seen EXCEPT ![p] = Room(p)]
          /\ Goto(p, "compared")
          /\ UNCHANGED <<listVars, irp, succ, size, bufferVars, removeVars, halted>>
      BY <1>1, <2>2 DEF Compare
    <3>2. seen' \in [Pipes -> Int] /\ size' \in [Pipes -> Int]
      BY <1>0, <3>1
    <3>. QED
      BY <2>0, <3>1, <3>2, GotoTypes, UnchangedTypes DEF TypeOK
  <2>. QED
    BY <2>1, <2>2
<1>2. CASE Measure(p)
  <2>0. InHands(p) /\ irp[p] \in Reads \union Writes /\ length[irp[p]] \in Int
    <3>1. InHands(p)
      BY <1>2 DEF Measure, InHands
    <3>2. irp[p] \in Reads \union Writes
      BY <3>1, Distinct DEF TypeOK, DpcTypeOK
    <3>3. length[irp[p]] \in Lengths
      BY <3>2 DEF TypeOK, ListTypeOK
    <3>4. Lengths \subseteq Int
      BY DeviceAssumption
    <3>. QED
      BY <3>1, <3>2, <3>3, <3>4
  <2>1. CASE Finish(p, "failed")
    BY <2>0, <2>1, FinishTypes
  <2>2. CASE ~Finish(p, "failed")
    <3>1. PICK room \in {seen[p], Room(p)} :
            LET n == IF length[irp[p]] > seen[p] THEN room ELSE length[irp[p]]
            IN  \/ /\ size' = [size EXCEPT ![p] = n]
                   /\ Goto(p, "sized")
                   /\ UNCHANGED <<listVars, irp, succ, seen, bufferVars,
                                  removeVars, halted>>
                \/ /\ Goto(p, "pending")
                   /\ UNCHANGED <<listVars, irp, succ, seen, size, bufferVars,
                                  removeVars, halted>>
      BY <1>2, <2>2 DEF Measure
    <3>2. room \in Int
      BY <1>0
    <3>3. seen' \in [Pipes -> Int] /\ size' \in [Pipes -> Int]
      <4>. DEFINE n == IF length[irp[p]] > seen[p] THEN room ELSE length[irp[p]]
      <4>1. n \in Int
        BY <2>0, <3>2
      <4>2. seen' = seen /\ (size' = size \/ size' = [size EXCEPT ![p] = n])
        BY <3>1
      <4>. HIDE DEF n
      <4>. QED
        BY <1>0, <4>1, <4>2
    <3>4. DpcTypeOK'
      BY <2>0, <3>1, <3>3, GotoTypes
    <3>5. UNCHANGED <<listVars, bufferVars, removeVars, halted>>
      BY <3>1
    <3>. QED
      BY <3>4, <3>5, UnchangedTypes DEF TypeOK
  <2>. QED
    BY <2>1, <2>2
<1>3. CASE Copy(p)
  <2>1. /\ InHands(p) /\ Goto(p, "copied")
        /\ UNCHANGED <<listVars, irp, succ, seen, size, SizeofHolding, removeVars,
                       halted>>
    BY <1>3 DEF Copy, InHands
  <2>2. DpcTypeOK'
    BY <1>0, <2>1, GotoTypes
  <2>3. pLoopBackDataBuffer' \in [1 .. MaxHolding -> Units]
    <3>1. CASE p = BulkIn
      BY <1>3, <3>1 DEF Copy, TypeOK, BufferTypeOK
    <3>2. CASE p # BulkIn
      <4>1. irp[p] \in Writes
        BY <2>1, <3>2, Distinct DEF TypeOK, DpcTypeOK
      <4>2. ASSUME NEW k \in SizeofHolding + 1 .. SizeofHolding + size[p]
            PROVE  <<irp[p], k - SizeofHolding>> \in Units
        BY <1>0, <4>1 DEF Units
      <4>. QED
        BY <1>3, <3>2, <4>2 DEF Copy, TypeOK, BufferTypeOK
    <3>. QED
      BY <3>1, <3>2
  <2>4. delivered' \in Seq(Units)
    <3>1. CASE p = BulkIn
      <4>. DEFINE got == [k \in 1 .. size[p] |-> ByteAt(k)]
      <4>1. size[p] \in Nat
        BY <1>3, <3>1, <1>0 DEF Copy, FillOK, ReadKnows, BulkIn
      <4>2. \A k : ByteAt(k) \in Units
        BY DEF ByteAt, Units, TypeOK, BufferTypeOK
      <4>3. got \in Seq(Units)
        BY <4>1, <4>2
      <4>4. delivered' = delivered \o got
        BY <1>3, <3>1 DEF Copy
      <4>. QED
        BY <4>3, <4>4, ConcatProperties DEF TypeOK, BufferTypeOK
    <3>2. CASE p # BulkIn
      BY <1>3, <3>2 DEF Copy, TypeOK, BufferTypeOK
    <3>. QED
      BY <3>1, <3>2
  <2>5. BufferTypeOK'
    BY <1>0, <2>1, <2>3, <2>4 DEF BufferTypeOK
  <2>. QED
    BY <2>1, <2>2, <2>5, UnchangedTypes DEF TypeOK
<1>4. CASE Load(p)
  <2>1. /\ InHands(p) /\ Goto(p, "loaded")
        /\ seen' = [seen EXCEPT ![p] = SizeofHolding]
        /\ UNCHANGED <<listVars, irp, succ, size, bufferVars, removeVars, halted>>
    BY <1>4 DEF Load, InHands
  <2>2. DpcTypeOK'
    BY <1>0, <2>1, GotoTypes
  <2>. QED
    BY <2>1, <2>2, UnchangedTypes DEF TypeOK
<1>5. CASE Store(p)
  <2>1. /\ InHands(p) /\ (Goto(p, "stored") \/ Goto(p, "served"))
        /\ SizeofHolding' \in {seen[p] - size[p], seen[p] + size[p]}
        /\ UNCHANGED <<listVars, irp, succ, seen, size, pLoopBackDataBuffer,
                       delivered, removeVars, halted>>
    BY <1>5 DEF Store, InHands
  <2>2. DpcTypeOK'
    BY <1>0, <2>1, GotoTypes
  <2>3. BufferTypeOK'
    BY <1>0, <2>1 DEF TypeOK, BufferTypeOK
  <2>. QED
    BY <2>1, <2>2, <2>3, UnchangedTypes DEF TypeOK
<1>6. CASE Served(p)
  BY <1>6, FinishTypes DEF Served, InHands
<1>7. CASE p = BulkIn /\ MoveDown
  <2>1. /\ InHands(p) /\ Goto(p, "served")
        /\ pLoopBackDataBuffer' = Shifted(size[p])
        /\ UNCHANGED <<listVars, irp, succ, seen, size, SizeofHolding, delivered,
                       removeVars, halted>>
    BY <1>7 DEF MoveDown, InHands
  <2>2. DpcTypeOK'
    BY <1>0, <2>1, GotoTypes
  <2>3. Shifted(size[p]) \in [1 .. MaxHolding -> Units]
    <3>1. \A k : ByteAt(k) \in Units
      BY DEF ByteAt, Units, TypeOK, BufferTypeOK
    <3>. QED
      BY <3>1 DEF Shifted, TypeOK, BufferTypeOK
  <2>4. BufferTypeOK'
    BY <2>1, <2>3 DEF TypeOK, BufferTypeOK
  <2>. QED
    BY <2>1, <2>2, <2>4, UnchangedTypes DEF TypeOK
<1>8. CASE p = BulkIn /\ TestRemoved
  <2>1. CASE Removed
    <3>1. DpcTypeOK'
      BY <1>8, <2>1 DEF TestRemoved, Goto, TypeOK, DpcTypeOK, InHands
    <3>. QED
      BY <1>8, <3>1, UnchangedTypes DEF TestRemoved, TypeOK
  <2>2. CASE ~Removed
    <3>1. DpcTypeOK'
      BY <1>0, <1>8, <2>2, GotoTypes DEF TestRemoved, InHands
    <3>. QED
      BY <1>8, <3>1, UnchangedTypes DEF TestRemoved, TypeOK
  <2>. QED
    BY <2>1, <2>2
<1>9. CASE p = BulkIn /\ Reinsert
  <2>1. /\ PutBack(irp[p]) \in Seq(Requests(p))
        /\ PutBack(irp[p]) \in Seq(Reads \union Writes)
    <3>1. irp[p] \in Requests(p) /\ irp[p] \in Reads \union Writes
      BY <1>9, Distinct DEF Reinsert, InHands, TypeOK, DpcTypeOK
    <3>. QED
      BY <1>9, <3>1, ConcatProperties DEF PutBack, TypeOK, ListTypeOK
  <2>2. ListTypeOK'
    BY <1>9, <2>1 DEF Reinsert, TypeOK, ListTypeOK
  <2>3. DpcTypeOK'
    BY <1>9 DEF Reinsert, Goto, TypeOK, DpcTypeOK, InHands
  <2>. QED
    BY <1>9, <2>2, <2>3, UnchangedTypes DEF Reinsert, TypeOK
<1>10. CASE UseFreed(p)
  BY <1>10, HaltTypes DEF UseFreed
<1>. QED
  BY <1>1, <1>2, <1>3, <1>4, <1>5, <1>6, <1>7, <1>8, <1>9, <1>10 DEF Carry

LEMMA TypeStep ==
  ASSUME TypeOK, FillOK, [Next]_vars
  PROVE  TypeOK'
<1>1. CASE UNCHANGED vars
  BY <1>1, UnchangedTypes DEF vars, TypeOK
<1>2. CASE Next
  BY <1>2, DispatchTypes, CancelTypes, DrainTypes, DequeueTypes, CarryTypes DEF Next
<1>. QED
  BY <1>1, <1>2

LEMMA TypeInit == Init => TypeOK
<1>. SUFFICES ASSUME Init PROVE TypeOK
  OBVIOUS
<1>. USE DEF Init
<1>1. ListTypeOK
  BY DEF ListTypeOK
<1>2. DpcTypeOK
  BY DEF DpcTypeOK, InHands, Stages
<1>3. BufferTypeOK
  BY DEF BufferTypeOK, Units
<1>4. RemoveTypeOK
  BY DEF RemoveTypeOK
<1>. QED
  BY <1>1, <1>2, <1>3, <1>4 DEF TypeOK

-----------------------------------------------------------------------------
(* The fill of the buffer.                                                   *)

LEMMA FillUnchanged ==
  ASSUME FillOK, UNCHANGED <<at, seen, size, SizeofHolding>>,
         removal' = removal \/ removal' = "freed" \/ removal # "freed"
  PROVE  FillOK'
BY DEF FillOK, ReadKnows, WriteKnows

(* A DPC that ends, or that leaves the request for later, knows nothing.     *)
LEMMA FillForgets ==
  ASSUME TypeOK, FillOK, NEW p \in Pipes, UNCHANGED <<SizeofHolding, removal>>,
         NEW stage \in {"idle", "taken", "stored", "served", "pending", "reinsert"},
         at' = [at EXCEPT ![p] = stage],
         \A r \in Pipes \ {p} : seen'[r] = seen[r] /\ size'[r] = size[r]
  PROVE  FillOK'
<1>1. at \in [Pipes -> Stages] /\ 1 \in Pipes /\ 0 \in Pipes
  BY Distinct DEF TypeOK, DpcTypeOK
<1>2. \/ ReadKnows' /\ WriteKnows' /\ SizeofHolding \in 0 .. MaxHolding
      \/ removal = "freed"
  <2>1. CASE p = 0
    BY <1>1, <2>1 DEF FillOK, ReadKnows, WriteKnows
  <2>2. CASE p = 1
    BY <1>1, <2>2 DEF FillOK, ReadKnows, WriteKnows
  <2>. QED
    BY <2>1, <2>2 DEF Pipes
<1>. QED
  BY <1>2 DEF FillOK

LEMMA FillFinish ==
  ASSUME TypeOK, FillOK, NEW p \in Pipes, NEW result, Finish(p, result)
  PROVE  FillOK'
<1>1. /\ at' = [at EXCEPT ![p] = "idle"]
      /\ UNCHANGED <<SizeofHolding, removal>>
      /\ \A r \in Pipes \ {p} : seen'[r] = seen[r] /\ size'[r] = size[r]
  BY DEF Finish, Goto, bufferVars, removeVars, TypeOK, DpcTypeOK
<1>. QED
  BY <1>1, FillForgets

(* The steps in which a DPC reads or writes the fill.                        *)
LEMMA FillCarry ==
  ASSUME TypeOK, FillOK, NEW p \in Pipes, Carry(p), removal # "freed"
  PROVE  FillOK'
<1>. USE DEF BulkIn, BulkOut
<1>0. /\ at \in [Pipes -> Stages] /\ 1 \in Pipes /\ 0 \in Pipes
      /\ seen \in [Pipes -> Int] /\ size \in [Pipes -> Int]
      /\ SizeofHolding \in 0 .. MaxHolding /\ MaxHolding \in Nat
      /\ ReadKnows /\ WriteKnows
      /\ p = 0 \/ p = 1
  BY Distinct, DeviceAssumption DEF TypeOK, DpcTypeOK, FillOK, Pipes
<1>1. CASE Compare(p)
  <2>1. CASE Finish(p, "failed")
    BY <2>1, FillFinish
  <2>2. CASE ~Finish(p, "failed")
    <3>1. /\ seen' = [seen EXCEPT ![p] = Room(p)]
          /\ at' = [at EXCEPT ![p] = "compared"]
          /\ UNCHANGED <<size, SizeofHolding>>
      BY <1>1, <2>2 DEF Compare, Goto, bufferVars
    <3>2. CASE p = 0
      BY <1>0, <3>1, <3>2 DEF FillOK, ReadKnows, WriteKnows, Room
    <3>3. CASE p = 1
      BY <1>0, <3>1, <3>3 DEF FillOK, ReadKnows, WriteKnows, Room
    <3>. QED
      BY <1>0, <3>2, <3>3
  <2>. QED
    BY <2>1, <2>2
<1>2. CASE Measure(p)
  <2>0. length[irp[p]] \in Nat
    <3>1. irp[p] \in Reads \union Writes
      BY <1>2, Distinct DEF Measure, InHands, TypeOK, DpcTypeOK
    <3>2. length[irp[p]] \in Lengths
      BY <3>1 DEF TypeOK, ListTypeOK
    <3>. QED
      BY <3>2, DeviceAssumption
  <2>1. CASE Finish(p, "failed")
    BY <2>1, FillFinish
  <2>2. CASE ~Finish(p, "failed")
    <3>. DEFINE n(room) == IF length[irp[p]] > seen[p] THEN room ELSE length[irp[p]]
    <3>1. PICK room \in {seen[p], Room(p)} :
            \/ /\ n(room) # 0
               /\ size' = [size EXCEPT ![p] = n(room)]
               /\ Goto(p, "sized")
               /\ UNCHANGED <<listVars, irp, succ, seen, bufferVars, removeVars,
                              halted>>
            \/ /\ Goto(p, "pending")
               /\ UNCHANGED <<listVars, irp, succ, seen, size, bufferVars,
                              removeVars, halted>>
      BY <1>2, <2>2 DEF Measure
    <3>2. CASE Goto(p, "pending") /\ UNCHANGED <<seen, size, bufferVars, removeVars>>
      BY <3>2, FillForgets DEF Goto, bufferVars, removeVars
    <3>3. CASE /\ n(room) # 0
               /\ size' = [size EXCEPT ![p] = n(room)]
               /\ Goto(p, "sized")
               /\ UNCHANGED <<seen, bufferVars>>
      <4>1. at[p] = "compared" /\ seen[p] \in 0 .. Room(p) /\ Room(p) \in Nat
        BY <1>0, <1>2 DEF Measure, ReadKnows, WriteKnows, Room
      <4>2. n(room) \in 1 .. Room(p)
        BY <1>0, <2>0, <3>3, <4>1
      <4>3. /\ at' = [at EXCEPT ![p] = "sized"]
            /\ UNCHANGED <<seen, SizeofHolding>>
        BY <3>3 DEF Goto, bufferVars
      <4>. HIDE DEF n
      <4>4. CASE p = 0
        BY <1>0, <3>3, <4>2, <4>3, <4>4 DEF FillOK, ReadKnows, WriteKnows, Room
      <4>5. CASE p = 1
        BY <1>0, <3>3, <4>2, <4>3, <4>5 DEF FillOK, ReadKnows, WriteKnows, Room
      <4>. QED
        BY <1>0, <4>4, <4>5
    <3>. QED
      BY <3>1, <3>2, <3>3
  <2>. QED
    BY <2>1, <2>2
<1>3. CASE Copy(p)
  <2>1. /\ at[p] = "sized" /\ at' = [at EXCEPT ![p] = "copied"]
        /\ UNCHANGED <<seen, size, SizeofHolding>>
    BY <1>3 DEF Copy, Goto
  <2>2. CASE p = 0
    BY <1>0, <2>1, <2>2 DEF FillOK, ReadKnows, WriteKnows
  <2>3. CASE p = 1
    BY <1>0, <2>1, <2>3 DEF FillOK, ReadKnows, WriteKnows
  <2>. QED
    BY <1>0, <2>2, <2>3
<1>4. CASE Load(p)
  <2>1. /\ at[p] = "copied" /\ at' = [at EXCEPT ![p] = "loaded"]
        /\ seen' = [seen EXCEPT ![p] = SizeofHolding]
        /\ UNCHANGED <<size, SizeofHolding>>
    BY <1>4 DEF Load, Goto, bufferVars
  <2>2. CASE p = 0
    BY <1>0, <2>1, <2>2 DEF FillOK, ReadKnows, WriteKnows
  <2>3. CASE p = 1
    BY <1>0, <2>1, <2>3 DEF FillOK, ReadKnows, WriteKnows
  <2>. QED
    BY <1>0, <2>2, <2>3
<1>5. CASE Store(p)
  <2>. UNCHANGED <<seen, size>> /\ at[p] = "loaded"
    BY <1>5 DEF Store
  <2>1. CASE p = 0
    <3>1. /\ at' = [at EXCEPT ![0] = "stored"]
          /\ SizeofHolding' = seen[0] - size[0]
      BY <1>5, <2>1 DEF Store, Goto
    <3>2. SizeofHolding' \in 0 .. SizeofHolding
      BY <1>0, <2>1, <3>1 DEF ReadKnows
    <3>. QED
      BY <1>0, <2>1, <3>1, <3>2 DEF FillOK, ReadKnows, WriteKnows
  <2>2. CASE p = 1
    <3>1. /\ at' = [at EXCEPT ![1] = "served"]
          /\ SizeofHolding' = seen[1] + size[1]
      BY <1>5, <2>2 DEF Store, Goto
    <3>2. SizeofHolding' \in SizeofHolding .. MaxHolding
      BY <1>0, <2>2, <3>1 DEF WriteKnows
    <3>. QED
      BY <1>0, <2>2, <3>1, <3>2 DEF FillOK, ReadKnows, WriteKnows
  <2>. QED
    BY <1>0, <2>1, <2>2
<1>6. CASE Served(p)
  BY <1>6, FillFinish DEF Served
<1>7. CASE p = BulkIn /\ MoveDown
  BY <1>7, FillForgets DEF MoveDown, Goto, removeVars
<1>8. CASE p = BulkIn /\ TestRemoved
  <2>1. /\ at' = [at EXCEPT ![p] = "idle"] \/ at' = [at EXCEPT ![p] = "reinsert"]
        /\ UNCHANGED <<size, SizeofHolding, removal>>
        /\ \A r \in Pipes \ {p} : seen'[r] = seen[r]
    BY <1>0, <1>8 DEF TestRemoved, Goto, bufferVars, removeVars
  <2>. QED
    BY <2>1, FillForgets
<1>9. CASE p = BulkIn /\ Reinsert
  <2>1. /\ at' = [at EXCEPT ![p] = "idle"]
        /\ UNCHANGED <<size, SizeofHolding, removal>>
        /\ \A r \in Pipes \ {p} : seen'[r] = seen[r]
    BY <1>0, <1>9 DEF Reinsert, Goto, bufferVars, removeVars
  <2>. QED
    BY <2>1, FillForgets
<1>10. CASE UseFreed(p)
  BY <1>10 DEF UseFreed
<1>. QED
  BY <1>1, <1>2, <1>3, <1>4, <1>5, <1>6, <1>7, <1>8, <1>9, <1>10 DEF Carry

LEMMA FillStep ==
  ASSUME TypeOK, FillOK, [Next]_vars
  PROVE  FillOK'
<1>. USE DEF dpcVars, bufferVars, removeVars
<1>1. ASSUME NEW p \in Pipes, Carry(p) PROVE FillOK'
  <2>1. CASE removal # "freed"
    BY <1>1, <2>1, FillCarry
  <2>2. CASE removal = "freed"
    <3>1. removal' = "freed"
      BY <1>1, <2>2
      DEF Carry, Compare, Measure, Copy, Load, Store, Served, Finish, MoveDown,
          TestRemoved, Reinsert, UseFreed, Halt
    <3>. QED
      BY <3>1 DEF FillOK
  <2>. QED
    BY <2>1, <2>2
<1>2. ASSUME NEW p \in Pipes, Dequeue(p) PROVE FillOK'
  <2>1. CASE list[p] = <<>>
    BY <1>2, <2>1, FillUnchanged DEF Dequeue
  <2>2. CASE list[p] # <<>>
    BY <1>2, <2>2, FillForgets DEF Dequeue, Goto
  <2>. QED
    BY <2>1, <2>2
<1>3. ASSUME NEW p \in Pipes, AbortPipe(p) PROVE FillOK'
  BY <1>3, FillUnchanged DEF AbortPipe
<1>4. ASSUME NEW i \in Irps,
             Submit(i) \/ Enqueue(i) \/ QueueWorkItem(i) \/ WorkItem(i)
      PROVE  FillOK'
  BY <1>4, FillUnchanged DEF Submit, Enqueue, QueueWorkItem, WorkItem, Halt
<1>5. ASSUME NEW i \in Irps, Cancel(i) PROVE FillOK'
  <2>1. UNCHANGED <<dpcVars, bufferVars, removal>>
    BY <1>5 DEF Cancel, Halt
  <2>. QED
    BY <2>1, FillUnchanged
<1>6. CASE AbortComplete \/ MarkRemoved \/ Drain \/ RemoveComplete
  BY <1>6, FillUnchanged DEF AbortComplete, MarkRemoved, Drain, RemoveComplete
<1>7. CASE Free
  BY <1>7 DEF Free, FillOK
<1>8. CASE UNCHANGED vars
  BY <1>8, FillUnchanged DEF vars
<1>. QED
  BY <1>1, <1>2, <1>3, <1>4, <1>5, <1>6, <1>7, <1>8 DEF Next

LEMMA FillInit == Init => FillOK
BY DeviceAssumption DEF Init, FillOK, ReadKnows, WriteKnows, Pipes

LEMMA IInvCorrect == Spec => []IInv
<1>1. Init => IInv
  BY TypeInit, FillInit DEF IInv
<1>2. IInv /\ [Next]_vars => IInv'
  BY TypeStep, FillStep DEF IInv
<1>. QED
  BY <1>1, <1>2, PTL DEF Spec

(* Every variable keeps its type, and a DPC that is at work has a request of *)
(* its own pipe in its hands (Driver.c:1073, 1116).                          *)
THEOREM TypeCorrect == Spec => []TypeOK
BY IInvCorrect, PTL DEF IInv

(* The two DPCs may race for the fill as they like (Driver.c:1346, 1367): it *)
(* never falls below zero or grows beyond the buffer, a read is of what is   *)
(* held and a write fits.                                                    *)
THEOREM FillSafe == Spec => []HoldingInBounds
<1>1. IInv => HoldingInBounds
  BY DeviceAssumption
  DEF IInv, FillOK, ReadKnows, WriteKnows, HoldingInBounds, TypeOK, DpcTypeOK, Pipes,
      BulkIn, BulkOut
<1>. QED
  BY <1>1, IInvCorrect, PTL

-----------------------------------------------------------------------------
(* The order of the requests of a pipe.                                      *)

(* A request is in line at most once, and only after it was submitted: one   *)
(* that is put in a list was in no line before.                              *)
LineInv ==
  \A p \in Pipes :
    /\ NoRepeats(Line(p))
    /\ \A i \in ToSet(Line(p)) : status[i] \notin {"new", "checked"}

(* What a step does to the line of a pipe: it leaves some of it, or puts a   *)
(* request that has just been checked at the end.                            *)
Kept(p) == LeftOf(Line(p)', Line(p))

Joined(p) ==
  \E i \in Requests(p) : /\ status[i] = "checked" /\ status'[i] = "pending"
                         /\ Line(p)' = Append(Line(p), i)

LEMMA LineTypes ==
  ASSUME TypeOK, LineInv, NEW p \in Pipes
  PROVE  /\ list[p] \in Seq(Requests(p))
         /\ InHands(p) => irp[p] \in Requests(p)
         /\ Line(p) \in Seq(Requests(p)) /\ NoRepeats(Line(p))
         /\ LeftOf(Line(p), Line(p))
         /\ <<>> \in Seq(Requests(p))
         /\ NoRepeats(list[p]) => LeftOf(list[p], list[p]) /\ LeftOf(<<>>, list[p])
<1>1. list[p] \in Seq(Requests(p)) /\ (InHands(p) => irp[p] \in Requests(p))
  BY DEF TypeOK, ListTypeOK, DpcTypeOK
<1>2. Line(p) \in Seq(Requests(p))
  <2>1. CASE InHands(p)
    <3>1. <<irp[p]>> \in Seq(Requests(p))
      BY <1>1, <2>1
    <3>2. Line(p) = <<irp[p]>> \o list[p]
      BY <2>1 DEF Line
    <3>. QED
      BY <1>1, <3>1, <3>2, ConcatProperties
  <2>2. CASE ~InHands(p)
    BY <1>1, <2>2 DEF Line
  <2>. QED
    BY <2>1, <2>2
<1>3. NoRepeats(Line(p))
  BY DEF LineInv
<1>. QED
  BY <1>1, <1>2, <1>3, SameIsLeft

(* Whatever is left of the list is left of the line, whether or not the DPC  *)
(* has a request in its hands.                                               *)
LEMMA ListLeft ==
  ASSUME TypeOK, LineInv, NEW p \in Pipes, UNCHANGED <<at, irp>>,
         NoRepeats(list[p]) => LeftOf(list'[p], list[p]),
         list'[p] \in Seq(Requests(p))
  PROVE  Kept(p)
<1>1. CASE ~InHands(p)
  <2>1. Line(p) = list[p] /\ Line(p)' = list'[p]
    BY <1>1 DEF Line, InHands
  <2>. QED
    BY <2>1, LineTypes DEF Kept
<1>2. CASE InHands(p)
  <2>1. Line(p) = <<irp[p]>> \o list[p] /\ Line(p)' = <<irp[p]>> \o list'[p]
    BY <1>2 DEF Line, InHands
  <2>2. NoRepeats(list[p])
    <3>1. Line(p) # <<>> /\ Tail(Line(p)) = list[p]
      BY <1>2, <2>1, LineTypes
    <3>. QED
      BY <3>1, LineTypes, TailElements
  <2>. QED
    BY <1>2, <2>1, <2>2, LineTypes, PrependedIsLeft DEF Kept
<1>. QED
  BY <1>1, <1>2

LEMMA LineUnchanged ==
  ASSUME TypeOK, LineInv, NEW p \in Pipes, list'[p] = list[p], at'[p] = at[p],
         irp'[p] = irp[p]
  PROVE  Kept(p)
BY LineTypes DEF Kept, Line, InHands

(* The DPC lets go of its request.                                           *)
LEMMA LineLetGo ==
  ASSUME TypeOK, LineInv, NEW p \in Pipes, InHands(p), list'[p] = list[p],
         at'[p] = "idle"
  PROVE  Kept(p)
<1>1. Line(p) = <<irp[p]>> \o list[p] /\ Line(p)' = list[p]
  BY DEF Line, InHands
<1>2. Line(p) # <<>> /\ Tail(Line(p)) = list[p]
  BY <1>1, LineTypes
<1>. QED
  BY <1>1, <1>2, LineTypes, TailIsLeft DEF Kept

LEMMA DequeueLine ==
  ASSUME TypeOK, LineInv, NEW p \in Pipes, NEW r \in Pipes, Dequeue(r)
  PROVE  Kept(p)
<1>1. CASE p = r /\ list[p] # <<>>
  <2>1. Line(p) = list[p]
    BY <1>1 DEF Dequeue, Line, InHands
  <2>2. Line(p)' = <<Head(list[p])>> \o Tail(list[p])
    BY <1>1 DEF Dequeue, Goto, Line, InHands, TypeOK, ListTypeOK, DpcTypeOK
  <2>3. <<Head(list[p])>> \o Tail(list[p]) = list[p]
    BY <1>1, LineTypes, HeadThenTail
  <2>. QED
    BY <2>1, <2>2, <2>3, LineTypes DEF Kept
<1>2. CASE p # r \/ list[p] = <<>>
  <2>1. list'[p] = list[p] /\ at'[p] = at[p] /\ irp'[p] = irp[p]
    BY <1>2 DEF Dequeue, Goto, TypeOK, ListTypeOK, DpcTypeOK
  <2>. QED
    BY <2>1, LineUnchanged
<1>. QED
  BY <1>1, <1>2

LEMMA CarryLine ==
  ASSUME TypeOK, LineInv, NEW p \in Pipes, NEW r \in Pipes, Carry(r)
  PROVE  Kept(p)
<1>. USE DEF Goto, listVars, dpcVars
<1>0. list \in [Pipes -> Seq(Reads \union Writes)] /\ at \in [Pipes -> Stages]
  BY DEF TypeOK, ListTypeOK, DpcTypeOK
<1>1. InHands(r)
  BY DEF Carry, Compare, Measure, Copy, Load, Store, Served, MoveDown, TestRemoved,
         Reinsert, UseFreed, InHands
<1>2. CASE p # r
  <2>1. list'[p] = list[p] /\ at'[p] = at[p] /\ irp'[p] = irp[p]
    BY <1>2 DEF TypeOK, ListTypeOK, DpcTypeOK, Carry, Compare, Measure, Copy, Load, Store,
                Served, Finish, MoveDown, TestRemoved, Reinsert, UseFreed, Halt
  <2>. QED
    BY <2>1, LineUnchanged
<1>3. CASE p = r
  <2>1. ASSUME NEW result, Finish(p, result) PROVE Kept(p)
    BY <1>0, <1>1, <1>3, <2>1, LineLetGo DEF Finish
  <2>2. ASSUME NEW stage \in Stages \ {"idle"}, at' = [at EXCEPT ![p] = stage],
               UNCHANGED <<list, irp>>
        PROVE  Kept(p)
    <3>1. InHands(p)' /\ InHands(p)
      BY <1>0, <1>1, <1>3, <2>2 DEF InHands
    <3>2. Line(p)' = Line(p)
      BY <2>2, <3>1 DEF Line
    <3>. QED
      BY <3>2, LineTypes DEF Kept
  <2>3. CASE Compare(p) \/ Measure(p) \/ Served(p)
    BY <2>1, <2>2, <2>3 DEF Compare, Measure, Served, Stages
  <2>4. CASE Copy(p) \/ Load(p) \/ Store(p) \/ (p = BulkIn /\ MoveDown)
    BY <2>2, <2>4 DEF Copy, Load, Store, MoveDown, Stages
  <2>5. CASE p = BulkIn /\ TestRemoved
    <3>1. CASE Removed
      BY <1>0, <1>1, <1>3, <2>5, <3>1, LineLetGo DEF TestRemoved
    <3>2. CASE ~Removed
      BY <2>2, <2>5, <3>2 DEF TestRemoved, Stages
    <3>. QED
      BY <3>1, <3>2
  <2>6. CASE p = BulkIn /\ Reinsert
    <3>1. Line(p) = <<irp[p]>> \o list[p]
      BY <1>1, <1>3 DEF Line
    <3>2. Line(p)' = <<irp[p]>> \o list[p]
      BY <1>0, <2>6 DEF Reinsert, PutBack, Line, InHands
    <3>. QED
      BY <3>1, <3>2, LineTypes DEF Kept
  <2>7. CASE UseFreed(p)
    BY <2>7, LineUnchanged DEF UseFreed, Halt
  <2>. QED
    BY <1>3, <2>3, <2>4, <2>5, <2>6, <2>7 DEF Carry
<1>. QED
  BY <1>2, <1>3

LEMMA CancelLine ==
  ASSUME TypeOK, LineInv, NEW p \in Pipes, NEW i \in Irps, Cancel(i)
  PROVE  Kept(p)
<1>1. CASE Halt
  BY <1>1, LineUnchanged DEF Halt, listVars, dpcVars
<1>2. CASE ~Halt
  <2>1. UNCHANGED <<at, irp>>
    BY <1>2 DEF Cancel, dpcVars
  <2>2. list'[p] = list[p] \/ list'[p] = <<>> \/ list'[p] = RemoveFirst(list[p], i)
    BY <1>2 DEF Cancel, UnlinkTaken, Without, TypeOK, ListTypeOK
  <2>3. list'[p] \in Seq(Requests(p)) /\ (NoRepeats(list[p]) => LeftOf(list'[p], list[p]))
    <3>1. CASE list'[p] = list[p] \/ list'[p] = <<>>
      BY <3>1, LineTypes
    <3>2. CASE list'[p] = RemoveFirst(list[p], i)
      BY <3>2, LineTypes, RemovedIsLeft, RemoveFirstElements
    <3>. QED
      BY <2>2, <3>1, <3>2
  <2>. QED
    BY <2>1, <2>3, ListLeft
<1>. QED
  BY <1>1, <1>2

LEMMA EnqueueLine ==
  ASSUME TypeOK, LineInv, NEW p \in Pipes, NEW i \in Irps, Enqueue(i)
  PROVE  Kept(p) \/ Joined(p)
<1>1. UNCHANGED <<at, irp>> /\ i \in Requests(PipeOf(i)) /\ PipeOf(i) \in Pipes
  BY Distinct DEF Enqueue, dpcVars, PipeOf
<1>2. CASE p = PipeOf(i)
  <2>1. /\ status[i] = "checked" /\ status'[i] = "pending"
        /\ list'[p] = Append(list[p], i)
    BY <1>2 DEF Enqueue, TypeOK, ListTypeOK, Pipes, PipeOf, BulkIn, BulkOut
  <2>2. Line(p)' = Append(Line(p), i)
    <3>1. CASE ~InHands(p)
      BY <1>1, <2>1, <3>1 DEF Line, InHands
    <3>2. CASE InHands(p)
      <4>. DEFINE h == <<irp[p]>>
                  q == list[p]
      <4>1. h \in Seq(Requests(p)) /\ q \in Seq(Requests(p)) /\ i \in Requests(p)
        BY <1>1, <1>2, <3>2, LineTypes
      <4>2. Line(p)' = h \o Append(q, i) /\ Line(p) = h \o q
        BY <1>1, <2>1, <3>2 DEF Line, InHands
      <4>. HIDE DEF h, q
      <4>3. h \o Append(q, i) = Append(h \o q, i)
        BY <4>1
      <4>. QED
        BY <4>2, <4>3
    <3>. QED
      BY <3>1, <3>2
  <2>. QED
    BY <1>1, <1>2, <2>1, <2>2 DEF Joined
<1>3. CASE p # PipeOf(i)
  <2>1. list'[p] = list[p]
    BY <1>3 DEF Enqueue, TypeOK, ListTypeOK
  <2>. QED
    BY <1>1, <2>1, LineUnchanged
<1>. QED
  BY <1>2, <1>3

LEMMA LineMoves ==
  ASSUME TypeOK, LineInv, [Next]_vars, NEW p \in Pipes
  PROVE  Kept(p) \/ Joined(p)
<1>1. ASSUME NEW r \in Pipes, AbortPipe(r) PROVE Kept(p)
  <2>1. UNCHANGED <<at, irp>> /\ (list'[p] = <<>> \/ list'[p] = list[p])
    BY <1>1 DEF AbortPipe, dpcVars, TypeOK, ListTypeOK
  <2>. QED
    BY <2>1, ListLeft, LineTypes
<1>2. CASE Drain
  <2>1. UNCHANGED <<at, irp>> /\ list'[p] = <<>>
    BY <1>2 DEF Drain, Drained, dpcVars
  <2>. QED
    BY <2>1, ListLeft, LineTypes
<1>3. CASE \/ \E i \in Irps : Submit(i) \/ QueueWorkItem(i) \/ WorkItem(i)
           \/ AbortComplete \/ MarkRemoved \/ RemoveComplete \/ Free
           \/ UNCHANGED vars
  <2>1. UNCHANGED <<list, at, irp>>
    BY <1>3 DEF Submit, QueueWorkItem, WorkItem, Halt, AbortComplete, MarkRemoved,
                RemoveComplete, Free, vars, listVars, dpcVars
  <2>. QED
    BY <2>1, LineUnchanged
<1>. QED
  BY <1>1, <1>2, <1>3, DequeueLine, CarryLine, CancelLine, EnqueueLine DEF Next

LEMMA SubmittedStays ==
  ASSUME TypeOK, [Next]_vars, NEW i \in Irps, status[i] \notin {"new", "checked"}
  PROVE  status'[i] \notin {"new", "checked"}
<1>0. status \in [Irps -> {"new", "checked", "pending"} \union Done]
  BY DEF TypeOK, ListTypeOK
<1>1. ASSUME NEW j, NEW result \in Done, Complete(j, result)
      PROVE  status'[i] \notin {"new", "checked"}
  BY <1>0, <1>1 DEF Complete, Done
<1>2. CASE \E j \in Irps : \/ Submit(j) \/ Enqueue(j) \/ QueueWorkItem(j)
                           \/ WorkItem(j) \/ Cancel(j)
  BY <1>0, <1>1, <1>2
  DEF Submit, Enqueue, QueueWorkItem, WorkItem, Cancel, Halt, listVars, Done
<1>3. ASSUME NEW p \in Pipes, Carry(p) PROVE status'[i] \notin {"new", "checked"}
  <2>1. (\E result \in Done : Complete(irp[p], result)) \/ status' = status
    BY <1>3
    DEF Carry, Compare, Measure, Copy, Load, Store, Served, Finish, MoveDown, TestRemoved,
        Reinsert, UseFreed, Halt, listVars, Done
  <2>. QED
    BY <1>1, <2>1
<1>4. CASE AbortComplete \/ RemoveComplete
  BY <1>1, <1>4 DEF AbortComplete, RemoveComplete, Done
<1>5. CASE \/ \E p \in Pipes : AbortPipe(p) \/ Dequeue(p)
           \/ MarkRemoved \/ Drain \/ Free \/ UNCHANGED vars
  BY <1>5 DEF AbortPipe, Dequeue, MarkRemoved, Drain, Free, vars, listVars
<1>. QED
  BY <1>2, <1>3, <1>4, <1>5 DEF Next

LEMMA LineStep ==
  ASSUME TypeOK, LineInv, [Next]_vars
  PROVE  /\ LineInv'
         /\ \A p \in Pipes : Ordered(Line(p), Line(p)')
<1>. SUFFICES ASSUME NEW p \in Pipes
     PROVE  /\ NoRepeats(Line(p)')
            /\ \A i \in ToSet(Line(p)') : status'[i] \notin {"new", "checked"}
            /\ Ordered(Line(p), Line(p)')
  BY DEF LineInv
<1>1. ASSUME NEW i \in ToSet(Line(p)) PROVE status'[i] \notin {"new", "checked"}
  <2>1. i \in Irps
    BY LineTypes, Distinct DEF ToSet
  <2>. QED
    BY <2>1, SubmittedStays DEF LineInv
<1>2. CASE Kept(p)
  BY <1>1, <1>2 DEF Kept, LeftOf
<1>3. CASE Joined(p)
  <2>1. PICK i \in Requests(p) : /\ status[i] = "checked" /\ status'[i] = "pending"
                                 /\ Line(p)' = Append(Line(p), i)
    BY <1>3 DEF Joined
  <2>2. i \notin ToSet(Line(p)) /\ Line(p) \in Seq(Requests(p)) /\ NoRepeats(Line(p))
    BY <2>1, LineTypes DEF LineInv
  <2>. QED
    BY <1>1, <2>1, <2>2, AppendElements, AppendedIsOrdered
<1>. QED
  BY <1>2, <1>3, LineMoves

LEMMA LineInvariant == Spec => []LineInv
<1>1. Init => LineInv
  BY EmptyElements DEF Init, LineInv, Line, InHands
<1>2. IInv /\ LineInv /\ [Next]_vars => LineInv'
  BY LineStep DEF IInv
<1>. QED
  BY <1>1, <1>2, IInvCorrect, PTL DEF Spec

(* No step of any thread or DPC lets a request of a pipe overtake another,   *)
(* and a read that is put back keeps its turn (Driver.c:1110).               *)
THEOREM InOrder == Spec => NoOvertaking
<1>1. IInv /\ LineInv /\ [Next]_vars =>
        \A p \in Pipes :
          LET before == Line(p)
              after  == Line(p)'
          IN  \A i, j \in DOMAIN before : \A k, l \in DOMAIN after :
                before[i] = after[k] /\ before[j] = after[l] /\ i < j => k < l
  BY LineStep DEF IInv, Ordered
<1>. QED
  BY <1>1, IInvCorrect, LineInvariant, PTL DEF Spec, NoOvertaking

=============================================================================
