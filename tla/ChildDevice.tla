---------------------------- MODULE ChildDevice ----------------------------
(***************************************************************************)
(* The child device of the USB bus driver (src/usb/Driver): a pair of bulk *)
(* pipes looped back through one buffer, from the moment CreateChildDevice *)
(* has made the device.                                                    *)
(*                                                                         *)
(* A request (an IRP) for a pipe waits in the pipe's list.  Each pipe has  *)
(* a periodic timer; its DPC takes the head of the list and carries it     *)
(* out: pipe 0 (bulk in) reads from the loopback buffer, pipe 1 (bulk out) *)
(* writes to it.  Only the lists are guarded by a lock, the cancel spin    *)
(* lock; the buffer and its fill SizeofHolding are not, so each access of  *)
(* a DPC to them is a step of its own.  Other requests go to a work item.  *)
(* Requests are cancelled, pipes are aborted and the device is removed by  *)
(* other threads at any time.                                              *)
(*                                                                         *)
(* The system stops (halted) when a request is completed twice or memory   *)
(* that was freed is used.                                                 *)
(***************************************************************************)
EXTENDS Integers, SequencesExt

CONSTANTS
  Reads,            (* requests for pipe 0                                  *)
  Writes,           (* requests for pipe 1                                  *)
  Controls,         (* requests for the work item                           *)
  NoIrp,
  Lengths,          (* transfer lengths; 0 stands for an invalid transfer   *)
  MaxHolding,       (* MAXIMUMLOOPBACKDATASIZE                              *)
  SharedProcessor   (* both timers were set on one processor, where their   *)
                    (* DPCs run: each to its end before the other           *)

Irps == Reads \union Writes \union Controls

ASSUME DeviceAssumption ==
  /\ NoIrp \notin Irps
  /\ Reads \intersect Writes = {}
  /\ (Reads \union Writes) \intersect Controls = {}
  /\ Lengths \subseteq Nat
  /\ MaxHolding \in Nat \ {0}
  /\ SharedProcessor \in BOOLEAN

Pipes   == {0, 1}
BulkIn  == 0
BulkOut == 1

VARIABLES
  list,          (* Pipe0IrpListHead, Pipe1IrpListHead                      *)
  status,        (* of each request                                         *)
  length,        (* TransferBufferLength asked for                          *)
  routine,       (* requests that have a cancel routine                     *)
  at,            (* how far the DPC of each pipe is                         *)
  irp,           (* the request the DPC of each pipe has in its hands       *)
  succ,          (* the entry after irp when it was taken from the list     *)
  seen,          (* value of SizeofHolding, or of the room, read earlier    *)
  size,          (* TargetBufferRequestSize                                 *)
  SizeofHolding,
  pLoopBackDataBuffer,
  delivered,     (* all data copied to reads                                *)
  aborted,       (* requests AbortPipe has dequeued and not yet completed   *)
  dequeued,      (* the same of the removal                                 *)
  removal,       (* how far the removal is: no, marked, drained, freed      *)
  late,          (* pipes whose DPC was queued when the timers were cancelled *)
  halted         (* the system has stopped                                  *)

listVars   == <<list, status, length, routine>>
dpcVars    == <<at, irp, succ, seen, size>>
bufferVars == <<SizeofHolding, pLoopBackDataBuffer, delivered>>
removeVars == <<aborted, dequeued, removal, late>>

vars == <<listVars, dpcVars, bufferVars, removeVars, halted>>

Done   == {"success", "failed", "cancelled"}
Stages == {"idle", "taken", "compared", "sized", "copied", "loaded",
           "stored", "served", "pending", "reinsert"}

(* Variant of PipeOf with the pipes mixed up.                                *)
OtherPipeOf(i) == IF i \in Reads THEN BulkOut ELSE BulkIn

PipeOf(i) == IF i \in Reads THEN BulkIn ELSE BulkOut

Removed == removal # "no"

Requests(p) == IF p = BulkIn THEN Reads ELSE Writes

(* The DPC of a pipe has a request in its hands.                             *)
InHands(p) == at[p] # "idle"

(* A unit of data is <<w, k>>, the k-th of write w; a byte nobody has        *)
(* written, or one behind the end of the buffer, is NoUnit.                  *)
NoUnit == <<NoIrp, 0>>
Units  == {NoUnit} \union (Writes \X Nat)

ByteAt(k) == IF k \in 1 .. MaxHolding THEN pLoopBackDataBuffer[k] ELSE NoUnit

ListTypeOK ==
  /\ list \in [Pipes -> Seq(Reads \union Writes)]
  /\ \A p \in Pipes : list[p] \in Seq(Requests(p))
  /\ status \in [Irps -> {"new", "checked", "pending"} \union Done]
  /\ length \in [Reads \union Writes -> Lengths]
  /\ routine \subseteq Irps

DpcTypeOK ==
  /\ at \in [Pipes -> Stages]
  /\ irp \in [Pipes -> Reads \union Writes \union {NoIrp}]
  /\ succ \in [Pipes -> Reads \union Writes \union {NoIrp}]
  /\ \A p \in Pipes : IF InHands(p) THEN irp[p] \in Requests(p)
                                     ELSE irp[p] = NoIrp /\ succ[p] = NoIrp
  /\ seen \in [Pipes -> Int]
  /\ size \in [Pipes -> Int]

BufferTypeOK ==
  /\ SizeofHolding \in Int
  /\ pLoopBackDataBuffer \in [1 .. MaxHolding -> Units]
  /\ delivered \in Seq(Units)

RemoveTypeOK ==
  /\ aborted \in Seq(Reads \union Writes)
  /\ dequeued \in Seq(Reads \union Writes)
  /\ removal \in {"no", "marked", "drained", "freed"}
  /\ late \subseteq Pipes

TypeOK ==
  ListTypeOK /\ DpcTypeOK /\ BufferTypeOK /\ RemoveTypeOK /\ halted \in BOOLEAN

(* CreateChildDevice *)
Init ==
  /\ list = [p \in Pipes |-> <<>>]
  /\ status = [i \in Irps |-> "new"]
  /\ length \in [Reads \union Writes -> Lengths]
  /\ routine = {}
  /\ at = [p \in Pipes |-> "idle"]
  /\ irp = [p \in Pipes |-> NoIrp]
  /\ succ = [p \in Pipes |-> NoIrp]
  /\ seen = [p \in Pipes |-> 0]
  /\ size = [p \in Pipes |-> 0]
  /\ SizeofHolding = 0
  /\ pLoopBackDataBuffer = [k \in 1 .. MaxHolding |-> NoUnit]
  /\ delivered = <<>>
  /\ aborted = <<>>
  /\ dequeued = <<>>
  /\ removal = "no"
  /\ late = {}
  /\ halted = FALSE

-----------------------------------------------------------------------------
(* Completion.                                                               *)

Halt ==
  /\ halted' = TRUE
  /\ UNCHANGED <<listVars, dpcVars, bufferVars, removeVars>>

(* IoCompleteRequest: a second completion of a request stops the system.     *)
(* Most callers clear the cancel routine first; for those that do not it     *)
(* makes no difference here, as nobody cancels a request that is completed.  *)
Complete(i, result) ==
  IF status[i] \in Done
    THEN halted' = TRUE /\ UNCHANGED <<status, routine>>
    ELSE /\ status' = [status EXCEPT ![i] = result]
         /\ routine' = routine \ {i}
         /\ UNCHANGED halted

-----------------------------------------------------------------------------
(* DRIVER_InternalDeviceControlDispatch.                                     *)

(* The test of Removed, before any lock is taken.                            *)
Submit(i) ==
  /\ status[i] = "new"
  /\ removal # "freed"
  /\ IF Removed THEN Complete(i, "failed")
                ELSE /\ status' = [status EXCEPT ![i] = "checked"]
                     /\ UNCHANGED <<routine, halted>>
  /\ UNCHANGED <<list, length, dpcVars, bufferVars, removeVars>>

(* A transfer is put in its pipe's list, with a cancel routine.              *)
Enqueue(i) ==
  /\ i \in Reads \union Writes
  /\ status[i] = "checked"
  /\ status' = [status EXCEPT ![i] = "pending"]
  /\ list' = [list EXCEPT ![PipeOf(i)] = Append(@, i)]
  /\ routine' = routine \union {i}
  /\ UNCHANGED <<length, dpcVars, bufferVars, removeVars, halted>>

QueueWorkItem(i) ==
  /\ i \in Controls
  /\ status[i] = "checked"
  /\ status' = [status EXCEPT ![i] = "pending"]
  /\ UNCHANGED <<list, length, routine, dpcVars, bufferVars, removeVars, halted>>

(* BUSDRIVER_WorkItemRoutine: the request is completed at once, with success *)
(* or not, from the descriptors the removal frees.                           *)
WorkItem(i) ==
  /\ i \in Controls
  /\ status[i] = "pending"
  /\ \/ /\ Complete(i, "success")
        /\ UNCHANGED <<list, length, dpcVars, bufferVars, removeVars>>
     \/ removal = "freed" /\ Halt

(* AbortPipe: the list is emptied under the lock, its requests are completed *)
(* after it.  A call has tested Removed before and may be late.  One call at *)
(* a time is modelled.                                                       *)
AbortPipe(p) ==
  /\ aborted = <<>>
  /\ list[p] # <<>>
  /\ aborted' = list[p]
  /\ list' = [list EXCEPT ![p] = <<>>]
  /\ UNCHANGED <<status, length, routine, dpcVars, bufferVars, dequeued, removal,
                 late, halted>>

AbortComplete ==
  /\ aborted # <<>>
  /\ Complete(Head(aborted), "cancelled")
  /\ aborted' = Tail(aborted)
  /\ UNCHANGED <<list, length, dpcVars, bufferVars, dequeued, removal, late>>

-----------------------------------------------------------------------------
(* Cancellation.                                                             *)

(* Variant of Without that cuts the list at the entry.                       *)
UpTo(q, i) == IF Contains(q, i) THEN SubSeq(q, 1, SelectInSeq(q, LAMBDA j : j = i) - 1)
                                ELSE q

Without(q, i) == RemoveFirst(q, i)

(* RemoveEntryList of an entry that a DPC has taken from the list already:   *)
(* the entry's old neighbours, the head of the list and succ, are linked to  *)
(* each other.  The list loses what was put in since it was empty; a         *)
(* neighbour that is gone itself comes back, which is not followed further.  *)
UnlinkTaken(p) ==
  \/ /\ succ[p] = NoIrp
     /\ list' = [list EXCEPT ![p] = <<>>]
  \/ /\ succ[p] # NoIrp
     /\ list[p] # <<>> /\ Head(list[p]) = succ[p]
     /\ UNCHANGED list

(* The same from the list of requests AbortPipe or the removal completes: if *)
(* its head is in their hands already, it will be completed again.           *)
Unlinked(q, i) == {Without(q, i)} \union {r \in {q} : r # <<>> /\ Head(r) = i}

(* IoCancelIrp: takes the cancel routine away and, if there was one, calls   *)
(* Pipe0CancelRoutine or Pipe1CancelRoutine with the lock held.              *)
Cancel(i) ==
  /\ i \in routine
  /\ status[i] = "pending"
  /\ LET p     == PipeOf(i)
         taken == InHands(p) /\ irp[p] = i
     IN  IF taken /\ succ[p] # NoIrp /\ (list[p] = <<>> \/ Head(list[p]) # succ[p])
           THEN Halt
           ELSE /\ IF taken THEN UnlinkTaken(p)
                            ELSE list' = [list EXCEPT ![p] = Without(@, i)]
                /\ aborted' \in Unlinked(aborted, i)
                /\ dequeued' \in Unlinked(dequeued, i)
                /\ Complete(i, "cancelled")
                /\ UNCHANGED <<length, dpcVars, bufferVars, removal, late>>

-----------------------------------------------------------------------------
(* The timers and their DPCs.                                                *)

Goto(p, stage) == at' = [at EXCEPT ![p] = stage]

(* The periodic timer of a pipe has queued its DPC, Pipe0TimerRoutine or     *)
(* Pipe1TimerRoutine: it takes the head of the list, if there is one.  A DPC *)
(* that is queued when the timers are cancelled still runs.                  *)
Dequeue(p) ==
  /\ at[p] = "idle"
  /\ removal \in {"drained", "freed"} => p \in late
  /\ late' = late \ {p}
  /\ SharedProcessor => ~InHands(1 - p)
  /\ IF list[p] = <<>>
       THEN UNCHANGED <<list, at, irp, succ>>
       ELSE /\ Goto(p, "taken")
            /\ irp' = [irp EXCEPT ![p] = Head(list[p])]
            /\ succ' = [succ EXCEPT ![p] = IF Len(list[p]) > 1 THEN list[p][2]
                                                               ELSE NoIrp]
            /\ list' = [list EXCEPT ![p] = Tail(@)]
  /\ UNCHANGED <<status, length, routine, seen, size, bufferVars, aborted, dequeued,
                 removal, halted>>

(* The DPC ends with its request completed.                                  *)
Finish(p, result) ==
  /\ Complete(irp[p], result)
  /\ Goto(p, "idle")
  /\ irp' = [irp EXCEPT ![p] = NoIrp]
  /\ succ' = [succ EXCEPT ![p] = NoIrp]
  /\ seen' = [seen EXCEPT ![p] = 0]
  /\ size' = [size EXCEPT ![p] = 0]
  /\ UNCHANGED <<list, length, bufferVars, removeVars>>

(* Variant of Room that uses the byte allocated behind the buffer.           *)
RoomWithSpare(p) ==
  IF p = BulkIn THEN SizeofHolding ELSE MaxHolding + 1 - SizeofHolding

(* What a transfer of the pipe can at most move.                             *)
Room(p) == IF p = BulkIn THEN SizeofHolding ELSE MaxHolding - SizeofHolding

(* USBIO_BulkOrInterruptTransfer: an invalid transfer fails; the length of   *)
(* another is compared with the room.                                        *)
Compare(p) ==
  /\ at[p] = "taken"
  /\ \/ length[irp[p]] = 0 /\ Finish(p, "failed")
     \/ /\ length[irp[p]] # 0
        /\ seen' = [seen EXCEPT ![p] = Room(p)]
        /\ Goto(p, "compared")
        /\ UNCHANGED <<listVars, irp, succ, size, bufferVars, removeVars, halted>>

(* The smaller of the two becomes the size.  The compiled code may use the   *)
(* room it has compared with or read SizeofHolding once more.  A read of     *)
(* nothing is pending; a write into a full buffer fails.                     *)
Measure(p) ==
  /\ at[p] = "compared"
  /\ \E room \in {seen[p], Room(p)} :
       LET n == IF length[irp[p]] > seen[p] THEN room ELSE length[irp[p]]
       IN  \/ /\ n # 0
              /\ size' = [size EXCEPT ![p] = n]
              /\ Goto(p, "sized")
              /\ UNCHANGED <<listVars, irp, succ, seen, bufferVars, removeVars,
                             halted>>
           \/ /\ n = 0 /\ p = BulkIn
              /\ Goto(p, "pending")
              /\ UNCHANGED <<listVars, irp, succ, seen, size, bufferVars,
                             removeVars, halted>>
           \/ n = 0 /\ p = BulkOut /\ Finish(p, "failed")

(* RtlMoveMemory between the request's buffer and the loopback buffer: from  *)
(* its start for a read, to the end of what it holds by now for a write.     *)
Copy(p) ==
  /\ at[p] = "sized"
  /\ removal # "freed"
  /\ Goto(p, "copied")
  /\ IF p = BulkIn
       THEN /\ delivered' = delivered \o [k \in 1 .. size[p] |-> ByteAt(k)]
            /\ UNCHANGED pLoopBackDataBuffer
       ELSE /\ pLoopBackDataBuffer' =
                 [k \in 1 .. MaxHolding |->
                    IF k \in SizeofHolding + 1 .. SizeofHolding + size[p]
                      THEN <<irp[p], k - SizeofHolding>>
                      ELSE pLoopBackDataBuffer[k]]
            /\ UNCHANGED delivered
  /\ UNCHANGED <<listVars, irp, succ, seen, size, SizeofHolding, removeVars, halted>>

(* SizeofHolding -= size, SizeofHolding += size: a read and a write.         *)
Load(p) ==
  /\ at[p] = "copied"
  /\ Goto(p, "loaded")
  /\ seen' = [seen EXCEPT ![p] = SizeofHolding]
  /\ UNCHANGED <<listVars, irp, succ, size, bufferVars, removeVars, halted>>

Store(p) ==
  /\ at[p] = "loaded"
  /\ Goto(p, IF p = BulkIn THEN "stored" ELSE "served")
  /\ SizeofHolding' = IF p = BulkIn THEN seen[p] - size[p] ELSE seen[p] + size[p]
  /\ UNCHANGED <<listVars, irp, succ, seen, size, pLoopBackDataBuffer, delivered,
                 removeVars, halted>>

(* Variant of Shifted that moves one byte less than is held.                 *)
ShiftedShort(n) ==
  [k \in 1 .. MaxHolding |-> IF k < SizeofHolding THEN ByteAt(n + k)
                                                  ELSE pLoopBackDataBuffer[k]]

(* The buffer after what it holds has moved down by n.                       *)
Shifted(n) ==
  [k \in 1 .. MaxHolding |-> IF k <= SizeofHolding THEN ByteAt(n + k)
                                                   ELSE pLoopBackDataBuffer[k]]

MoveDown ==
  /\ at[BulkIn] = "stored"
  /\ removal # "freed"
  /\ Goto(BulkIn, "served")
  /\ pLoopBackDataBuffer' = Shifted(size[BulkIn])
  /\ UNCHANGED <<listVars, irp, succ, seen, size, SizeofHolding, delivered,
                 removeVars, halted>>

Served(p) == at[p] = "served" /\ Finish(p, "success")

(* Back in Pipe0TimerRoutine with a read that has found nothing: it is put   *)
(* back, unless the device is removed.                                       *)
TestRemoved ==
  /\ at[BulkIn] = "pending"
  /\ IF Removed
       THEN /\ Goto(BulkIn, "idle")
            /\ irp' = [irp EXCEPT ![BulkIn] = NoIrp]
            /\ succ' = [succ EXCEPT ![BulkIn] = NoIrp]
            /\ seen' = [seen EXCEPT ![BulkIn] = 0]
       ELSE Goto(BulkIn, "reinsert") /\ UNCHANGED <<irp, succ, seen>>
  /\ UNCHANGED <<listVars, size, bufferVars, removeVars, halted>>

(* Variants of PutBack: at the wrong end; not at all.                        *)
PutBackLast(i)  == Append(list[BulkIn], i)
PutBackNever(i) == list[BulkIn]

PutBack(i) == <<i>> \o list[BulkIn]

Reinsert ==
  /\ at[BulkIn] = "reinsert"
  /\ list' = [list EXCEPT ![BulkIn] = PutBack(irp[BulkIn])]
  /\ Goto(BulkIn, "idle")
  /\ irp' = [irp EXCEPT ![BulkIn] = NoIrp]
  /\ succ' = [succ EXCEPT ![BulkIn] = NoIrp]
  /\ seen' = [seen EXCEPT ![BulkIn] = 0]
  /\ UNCHANGED <<status, length, routine, size, bufferVars, removeVars, halted>>

(* The buffer is freed under a DPC that copies.                              *)
UseFreed(p) ==
  /\ removal = "freed"
  /\ at[p] \in {"sized", "stored"}
  /\ Halt

Carry(p) ==
  \/ Compare(p) \/ Measure(p) \/ Copy(p) \/ Load(p) \/ Store(p) \/ Served(p)
  \/ p = BulkIn /\ (MoveDown \/ TestRemoved \/ Reinsert)
  \/ UseFreed(p)

-----------------------------------------------------------------------------
(* Removal.                                                                  *)

(* IRP_MN_REMOVE_DEVICE: the device is marked as removed; ...                *)
MarkRemoved ==
  /\ removal = "no"
  /\ removal' = "marked"
  /\ UNCHANGED <<listVars, dpcVars, bufferVars, aborted, dequeued, late, halted>>

(* Variant of Drained that forgets the second pipe.                          *)
DrainedHalf == [list EXCEPT ![BulkIn] = <<>>]

Drained == [p \in Pipes |-> <<>>]

(* ... under the lock the timers are cancelled and the lists emptied; ...    *)
Drain ==
  /\ removal = "marked"
  /\ removal' = "drained"
  /\ dequeued' = list[BulkIn] \o list[BulkOut]
  /\ list' = Drained
  /\ late' \in SUBSET Pipes
  /\ UNCHANGED <<status, length, routine, dpcVars, bufferVars, aborted, halted>>

(* ... the requests are completed; ...                                       *)
RemoveComplete ==
  /\ dequeued # <<>>
  /\ Complete(Head(dequeued), "cancelled")
  /\ dequeued' = Tail(dequeued)
  /\ UNCHANGED <<list, length, dpcVars, bufferVars, aborted, removal, late>>

(* ... and the memory is freed.                                              *)
Free ==
  /\ removal = "drained"
  /\ dequeued = <<>>
  /\ removal' = "freed"
  /\ SizeofHolding' = 0
  /\ pLoopBackDataBuffer' = [k \in 1 .. MaxHolding |-> NoUnit]
  /\ UNCHANGED <<listVars, dpcVars, delivered, aborted, dequeued, late, halted>>

-----------------------------------------------------------------------------
Next ==
  /\ ~halted
  /\ \/ \E i \in Irps : \/ Submit(i) \/ Enqueue(i) \/ QueueWorkItem(i)
                        \/ WorkItem(i) \/ Cancel(i)
     \/ \E p \in Pipes : \/ AbortPipe(p) \/ Dequeue(p) \/ Carry(p)
     \/ AbortComplete
     \/ MarkRemoved \/ Drain \/ RemoveComplete \/ Free

(* Threads and DPCs that have begun go on, timers are periodic, and the DPCs *)
(* of a processor are queued first-in first-out: each gets its turn.         *)
Scheduling ==
  /\ \A p \in Pipes : /\ SF_vars(~halted /\ Dequeue(p))
                      /\ WF_vars(~halted /\ Carry(p))
  /\ \A i \in Irps : /\ WF_vars(~halted /\ (Enqueue(i) \/ QueueWorkItem(i)))
                     /\ WF_vars(~halted /\ WorkItem(i))
  /\ WF_vars(~halted /\ AbortComplete)
  /\ WF_vars(~halted /\ (Drain \/ RemoveComplete \/ Free))

Spec == Init /\ [][Next]_vars

-----------------------------------------------------------------------------
(* However the two DPCs race for the fill (Driver.c:1336), it stays between  *)
(* zero and the size of the buffer - it is unsigned, so a negative value     *)
(* would be a huge one -, a read about to be copied finds that much in the   *)
(* buffer, and a write about to be copied fits behind what the buffer holds. *)
(* The move of the rest after a read (1348) is not bounded: it trusts a fill *)
(* that the other DPC may have written since.                                *)
HoldingInBounds ==
  removal # "freed" =>
    /\ SizeofHolding \in 0 .. MaxHolding
    /\ at[BulkIn] = "sized" => size[BulkIn] <= SizeofHolding
    /\ at[BulkOut] = "sized" => SizeofHolding + size[BulkOut] <= MaxHolding

(* The requests of a pipe in the order they will be carried out.             *)
Line(p) == IF InHands(p) THEN <<irp[p]>> \o list[p] ELSE list[p]

(* Requests of one pipe never overtake each other: a read that is put back   *)
(* (Driver.c:1110) stays before those that came after it, whatever is        *)
(* cancelled, aborted or submitted while it was out of the list.             *)
NoOvertaking ==
  [][\A p \in Pipes :
       LET before == Line(p)
           after  == Line(p)'
       IN  \A i, j \in DOMAIN before : \A k, l \in DOMAIN after :
             before[i] = after[k] /\ before[j] = after[l] /\ i < j => k < l]_vars

=============================================================================
