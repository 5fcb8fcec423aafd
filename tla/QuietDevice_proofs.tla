------------------------- MODULE QuietDevice_proofs -------------------------
(***************************************************************************)
(* Theorems about QuietDevice for any requests, lengths and buffer size:   *)
(* every request has exactly one holder until it is completed, and, where  *)
(* the DPCs share a processor, the pipes implement BytePipe.               *)
(***************************************************************************)
EXTENDS QuietDevice, ChildDevice_proofs

Transfers == Reads \union Writes

(* The places a transfer can be in.                                          *)
Listed(i)   == i \in ToSet(list[PipeOf(i)])
Carried(i)  == irp[PipeOf(i)] = i
Aborting(i) == i \in ToSet(aborted)
Removing(i) == i \in ToSet(dequeued)

OnePlace(i) ==
  /\ Listed(i)   => ~Carried(i) /\ ~Aborting(i) /\ ~Removing(i)
  /\ Carried(i)  => ~Aborting(i) /\ ~Removing(i)
  /\ Aborting(i) => ~Removing(i)

(* A transfer is pending while it is in a place, and it is in no two.        *)
Placed ==
  \A i \in Transfers :
    /\ status[i] = "pending" <=> Listed(i) \/ Carried(i) \/ Aborting(i) \/ Removing(i)
    /\ OnePlace(i)

NoCopies ==
  /\ \A p \in Pipes : NoRepeats(list[p])
  /\ NoRepeats(aborted)
  /\ NoRepeats(dequeued)

(* The removal found nothing under way, and nothing begins after it.         *)
RemovalOK ==
  /\ removal \in {"no", "marked"} => dequeued = <<>>
  /\ Removed => Quiescent
  /\ removal \in {"drained", "freed"} => \A p \in Pipes : list[p] = <<>>

HoldersOK == Placed /\ NoCopies /\ RemovalOK /\ ~halted

QuietInv == IInv /\ HoldersOK

-----------------------------------------------------------------------------
LEMMA QuietIsADevice == [QuietNext]_vars => [Next]_vars
BY DEF QuietNext, Next, QuietCancel, QuietRemove, QuietDequeue

LEMMA QuietBase == QuietSpec => []IInv
<1>1. QuietSpec => Spec
  <2>1. Init /\ [][QuietNext]_vars => Spec
    BY QuietIsADevice, PTL DEF Spec
  <2>. QED
    BY <2>1 DEF QuietSpec
<1>. QED
  BY <1>1, IInvCorrect, PTL

(* The requests of one pipe are never in the places of the other.            *)
LEMMA PlacesOfPipes ==
  ASSUME TypeOK
  PROVE  /\ \A i \in Transfers : PipeOf(i) \in Pipes /\ i \in Irps
         /\ \A p \in Pipes : \A i \in Requests(p) : i \in Transfers /\ PipeOf(i) = p
         /\ \A p \in Pipes : \A i \in ToSet(list[p]) : i \in Requests(p)
         /\ \A p \in Pipes : InHands(p) => irp[p] \in Requests(p)
         /\ \A i \in Transfers : Carried(i) => InHands(PipeOf(i))
         /\ ToSet(aborted) \subseteq Transfers
         /\ ToSet(dequeued) \subseteq Transfers
<1>1. \A i \in Transfers : PipeOf(i) \in Pipes /\ i \in Irps
  BY Distinct DEF Transfers, PipeOf, Irps
<1>2. \A p \in Pipes : \A i \in Requests(p) : i \in Transfers /\ PipeOf(i) = p
  BY Distinct, DeviceAssumption DEF Transfers, PipeOf
<1>3. ASSUME NEW T, NEW q \in Seq(T) PROVE ToSet(q) \subseteq T
  BY <1>3 DEF ToSet
<1>4. \A p \in Pipes : \A i \in ToSet(list[p]) : i \in Requests(p)
  BY <1>3 DEF TypeOK, ListTypeOK
<1>5. \A p \in Pipes : InHands(p) => irp[p] \in Requests(p)
  BY DEF TypeOK, DpcTypeOK
<1>6. \A i \in Transfers : Carried(i) => InHands(PipeOf(i))
  BY <1>1, Distinct DEF TypeOK, DpcTypeOK, Carried, Transfers
<1>7. ToSet(aborted) \subseteq Transfers /\ ToSet(dequeued) \subseteq Transfers
  BY <1>3 DEF TypeOK, RemoveTypeOK, Transfers
<1>. QED
  BY <1>1, <1>2, <1>4, <1>5, <1>6, <1>7

(* A request that is not completed yet can be, and nothing stops.            *)
LEMMA CompletesOnce ==
  ASSUME TypeOK, ~halted, NEW i \in Irps, NEW result \in Done, Complete(i, result),
         status[i] \notin Done
  PROVE  /\ ~halted'
         /\ status'[i] = result
         /\ \A j \in Irps \ {i} : status'[j] = status[j]
BY DEF Complete, TypeOK, ListTypeOK

LEMMA PlacesKept ==
  ASSUME Placed, NoCopies, UNCHANGED <<list, irp, aborted, dequeued>>,
         \A i \in Transfers : status'[i] = "pending" <=> status[i] = "pending"
  PROVE  Placed' /\ NoCopies'
BY DEF Placed, NoCopies, OnePlace, Listed, Carried, Aborting, Removing

(* Before the removal has begun nothing is asked; after it completions only  *)
(* empty the places.                                                         *)
LEMMA NotRemoved ==
  ASSUME RemovalOK, ~Removed, UNCHANGED <<removal, dequeued>>
  PROVE  RemovalOK'
BY DEF RemovalOK, Removed

LEMMA RemovalGoesOn ==
  ASSUME RemovalOK, UNCHANGED <<removal, at>>,
         \A i \in Irps : status'[i] = status[i] \/ status'[i] \in Done,
         dequeued = <<>> => dequeued' = <<>>,
         \A p \in Pipes : list[p] = <<>> => list'[p] = <<>>
  PROVE  RemovalOK'
<1>1. Quiescent => Quiescent'
  BY DEF Quiescent, InHands, Done, Irps
<1>. QED
  BY <1>1 DEF RemovalOK, Removed

-----------------------------------------------------------------------------
(* The holders of a request, step by step.                                   *)

LEMMA DispatchHolds ==
  ASSUME TypeOK, HoldersOK, NEW i \in Irps,
         Submit(i) \/ Enqueue(i) \/ QueueWorkItem(i) \/ WorkItem(i)
  PROVE  HoldersOK'
<1>. USE DEF HoldersOK
<1>0. status \in [Irps -> {"new", "checked", "pending"} \union Done]
  BY DEF TypeOK, ListTypeOK
<1>1. CASE Submit(i)
  <2>1. UNCHANGED <<list, irp, at, aborted, dequeued, removal>>
    BY <1>1 DEF Submit, dpcVars, removeVars
  <2>2. /\ ~halted'
        /\ IF Removed THEN status'[i] = "failed" ELSE status'[i] = "checked"
        /\ \A j \in Irps \ {i} : status'[j] = status[j]
    <3>1. CASE Removed
      BY <1>1, <3>1, CompletesOnce DEF Submit, Done
    <3>2. CASE ~Removed
      BY <1>0, <1>1, <3>2 DEF Submit
    <3>. QED
      BY <3>1, <3>2
  <2>3. Placed' /\ NoCopies'
    <3>1. \A j \in Transfers : status'[j] = "pending" <=> status[j] = "pending"
      BY <1>1, <2>2, PlacesOfPipes DEF Submit
    <3>. QED
      BY <2>1, <3>1, PlacesKept
  <2>4. RemovalOK'
    BY <2>1, <2>2, NotRemoved, RemovalGoesOn DEF Done
  <2>. QED
    BY <2>2, <2>3, <2>4
<1>2. CASE Enqueue(i)
  <2>. DEFINE p == PipeOf(i)
  <2>1. i \in Transfers /\ p \in Pipes /\ status[i] = "checked"
    BY <1>2, PlacesOfPipes DEF Enqueue, Transfers
  <2>2. /\ UNCHANGED <<irp, aborted, dequeued, removal, halted>>
        /\ status'[i] = "pending"
        /\ \A j \in Irps \ {i} : status'[j] = status[j]
        /\ list'[p] = Append(list[p], i)
        /\ \A r \in Pipes \ {p} : list'[r] = list[r]
    BY <1>0, <1>2, <2>1 DEF Enqueue, dpcVars, removeVars, TypeOK, ListTypeOK
  <2>3. ~Listed(i) /\ ~Carried(i) /\ ~Aborting(i) /\ ~Removing(i)
    BY <2>1 DEF Placed
  <2>4. /\ ToSet(list'[p]) = ToSet(list[p]) \union {i}
        /\ NoRepeats(list'[p])
    <3>1. list[p] \in Seq(Transfers) /\ NoRepeats(list[p]) /\ i \notin ToSet(list[p])
      BY <2>1, <2>3 DEF TypeOK, ListTypeOK, Transfers, NoCopies, Listed
    <3>. HIDE DEF p
    <3>. QED
      BY <2>1, <2>2, <3>1, AppendElements
  <2>5. NoCopies'
    BY <2>2, <2>4 DEF NoCopies
  <2>6. Placed'
    <3>1. ASSUME NEW j \in Transfers, j # i
          PROVE  /\ status'[j] = status[j] /\ (Listed(j)' <=> Listed(j))
                 /\ PipeOf(j) \in Pipes
      <4>1. PipeOf(j) \in Pipes /\ j \in Irps
        BY <3>1, PlacesOfPipes
      <4>. QED
        BY <2>2, <2>4, <3>1, <4>1 DEF Listed
    <3>2. Listed(i)'
      BY <2>4 DEF Listed
    <3>. QED
      BY <2>2, <2>3, <3>1, <3>2 DEF Placed, OnePlace, Carried, Aborting, Removing
  <2>7. RemovalOK'
    <3>1. ~Removed
      BY <2>1 DEF RemovalOK, Quiescent
    <3>. QED
      BY <2>2, <3>1, NotRemoved
  <2>. QED
    BY <2>2, <2>5, <2>6, <2>7
<1>3. CASE QueueWorkItem(i)
  <2>1. /\ UNCHANGED <<list, irp, aborted, dequeued, removal, halted>>
        /\ i \in Controls /\ status[i] = "checked"
        /\ \A j \in Irps \ {i} : status'[j] = status[j]
    BY <1>0, <1>3 DEF QueueWorkItem, dpcVars, removeVars
  <2>2. \A j \in Transfers : j \in Irps \ {i}
    BY <2>1, DeviceAssumption DEF Transfers, Irps
  <2>3. Placed' /\ NoCopies'
    BY <2>1, <2>2, PlacesKept
  <2>4. ~Removed
    BY <2>1 DEF RemovalOK, Quiescent
  <2>. QED
    BY <2>1, <2>3, <2>4, NotRemoved
<1>4. CASE WorkItem(i)
  <2>1. i \in Controls /\ status[i] = "pending" /\ ~Removed
    BY <1>4 DEF WorkItem, RemovalOK, Quiescent
  <2>2. /\ Complete(i, "success")
        /\ UNCHANGED <<list, irp, at, aborted, dequeued, removal>>
    BY <1>4, <2>1 DEF WorkItem, Removed, dpcVars, removeVars
  <2>3. ~halted' /\ \A j \in Irps \ {i} : status'[j] = status[j]
    BY <2>1, <2>2, CompletesOnce DEF Done
  <2>4. \A j \in Transfers : j \in Irps \ {i}
    BY <2>1, DeviceAssumption DEF Transfers, Irps
  <2>5. Placed' /\ NoCopies'
    BY <2>2, <2>3, <2>4, PlacesKept
  <2>. QED
    BY <2>1, <2>2, <2>3, <2>5, NotRemoved
<1>. QED
  BY <1>1, <1>2, <1>3, <1>4

(* A request leaves its place by being completed.                            *)
LEMMA Completed ==
  ASSUME TypeOK, HoldersOK, NEW i \in Transfers, NEW result \in Done,
         Listed(i) \/ Carried(i) \/ Aborting(i) \/ Removing(i),
         Complete(i, result)
  PROVE  /\ status[i] = "pending" /\ status'[i] = result /\ result # "pending"
         /\ ~halted'
         /\ \A j \in Irps \ {i} : status'[j] = status[j]
<1>1. i \in Irps /\ status[i] = "pending"
  BY PlacesOfPipes DEF HoldersOK, Placed
<1>. QED
  BY <1>1, CompletesOnce DEF HoldersOK, Done

LEMMA AbortHolds ==
  ASSUME TypeOK, HoldersOK, AbortComplete \/ \E p \in Pipes : AbortPipe(p)
  PROVE  HoldersOK'
<1>. USE DEF HoldersOK
<1>1. ASSUME NEW p \in Pipes, AbortPipe(p) PROVE HoldersOK'
  <2>1. /\ UNCHANGED <<status, irp, at, dequeued, removal, halted>>
        /\ aborted = <<>> /\ aborted' = list[p]
        /\ list'[p] = <<>> /\ \A r \in Pipes \ {p} : list'[r] = list[r]
    BY <1>1 DEF AbortPipe, dpcVars, TypeOK, ListTypeOK
  <2>2. NoCopies'
    BY <2>1, EmptyElements DEF NoCopies
  <2>3. ASSUME NEW j \in Transfers
        PROVE  IF j \in ToSet(list[p])
                 THEN Listed(j) /\ Aborting(j)' /\ ~Listed(j)' /\ ~Aborting(j)
                 ELSE (Listed(j)' <=> Listed(j)) /\ ~Aborting(j)' /\ ~Aborting(j)
    <3>1. PipeOf(j) \in Pipes /\ (j \in ToSet(list[p]) => PipeOf(j) = p)
      BY PlacesOfPipes
    <3>. QED
      BY <2>1, <3>1, EmptyElements DEF Listed, Aborting
  <2>4. Placed'
    BY <2>1, <2>3 DEF Placed, OnePlace, Carried, Removing
  <2>5. RemovalOK'
    BY <2>1, RemovalGoesOn
  <2>. QED
    BY <2>1, <2>2, <2>4, <2>5
<1>2. CASE AbortComplete
  <2>0. PICK i : i = Head(aborted)
    OBVIOUS
  <2>1. /\ UNCHANGED <<list, irp, at, dequeued, removal>>
        /\ aborted # <<>> /\ aborted' = Tail(aborted) /\ Complete(i, "cancelled")
        /\ aborted \in Seq(Transfers) /\ NoRepeats(aborted)
    BY <2>0, <1>2 DEF AbortComplete, dpcVars, TypeOK, RemoveTypeOK, NoCopies, Transfers
  <2>2. /\ i \in ToSet(aborted)
        /\ ToSet(aborted') = ToSet(aborted) \ {i}
        /\ NoRepeats(aborted')
    BY <2>0, <2>1, TailElements
  <2>3. i \in Transfers /\ Aborting(i)
    BY <2>0, <2>2, PlacesOfPipes DEF Aborting
  <2>4. /\ status[i] = "pending" /\ status'[i] = "cancelled" /\ ~halted'
        /\ \A j \in Irps \ {i} : status'[j] = status[j]
    BY <2>0, <2>1, <2>3, Completed DEF Done
  <2>5. NoCopies'
    BY <2>1, <2>2 DEF NoCopies
  <2>6. Placed'
    <3>1. \A j \in Transfers \ {i} :
            status'[j] = status[j] /\ (Aborting(j)' <=> Aborting(j))
      BY <2>2, <2>4, PlacesOfPipes DEF Aborting
    <3>2. ~Listed(i) /\ ~Carried(i) /\ ~Removing(i) /\ ~Aborting(i)'
      BY <2>2, <2>3 DEF Placed, OnePlace, Aborting
    <3>. QED
      BY <2>1, <2>4, <3>1, <3>2 DEF Placed, OnePlace, Listed, Carried, Removing
  <2>7. RemovalOK'
    BY <2>1, <2>4, RemovalGoesOn DEF Done
  <2>. QED
    BY <2>4, <2>5, <2>6, <2>7
<1>. QED
  BY <1>1, <1>2

LEMMA CancelHolds ==
  ASSUME TypeOK, HoldersOK, NEW i \in Irps, QuietCancel(i)
  PROVE  HoldersOK'
<1>. USE DEF HoldersOK
<1>. DEFINE p == PipeOf(i)
<1>1. i \in Transfers /\ Listed(i) /\ p \in Pipes
  BY PlacesOfPipes DEF QuietCancel, InList, Listed
<1>2. ~Carried(i) /\ ~Aborting(i) /\ ~Removing(i)
  BY <1>1 DEF Placed, OnePlace
<1>3. /\ list[p] \in Seq(Transfers) /\ NoRepeats(list[p])
      /\ aborted \in Seq(Transfers) /\ dequeued \in Seq(Transfers)
  BY <1>1 DEF TypeOK, ListTypeOK, RemoveTypeOK, NoCopies, Transfers
<1>4. Unlinked(aborted, i) = {aborted} /\ Unlinked(dequeued, i) = {dequeued}
  BY <1>2, <1>3, RemoveFirstAbsent, TailElements
  DEF Unlinked, Without, Aborting, Removing
<1>5. /\ UNCHANGED <<irp, at, removal, aborted, dequeued>>
      /\ list' = [list EXCEPT ![p] = Without(list[p], i)]
      /\ Complete(i, "cancelled")
  BY <1>2, <1>4 DEF QuietCancel, Cancel, Carried, dpcVars
<1>6. /\ ToSet(list'[p]) = ToSet(list[p]) \ {i} /\ NoRepeats(list'[p])
      /\ \A r \in Pipes \ {p} : list'[r] = list[r]
  <2>1. /\ list'[p] = RemoveFirst(list[p], i)
        /\ \A r \in Pipes \ {p} : list'[r] = list[r]
    BY <1>1, <1>5 DEF Without, TypeOK, ListTypeOK
  <2>. HIDE DEF p
  <2>. QED
    BY <1>3, <2>1, RemoveFirstElements
<1>7. /\ status[i] = "pending" /\ status'[i] = "cancelled" /\ ~halted'
      /\ \A j \in Irps \ {i} : status'[j] = status[j]
  BY <1>1, <1>5, Completed DEF Done
<1>8. NoCopies'
  BY <1>5, <1>6 DEF NoCopies
<1>9. Placed'
  <2>1. ASSUME NEW j \in Transfers, j # i
        PROVE  status'[j] = status[j] /\ (Listed(j)' <=> Listed(j))
    <3>1. PipeOf(j) \in Pipes /\ j \in Irps
      BY PlacesOfPipes
    <3>. QED
      BY <1>6, <1>7, <2>1, <3>1 DEF Listed
  <2>2. ~Listed(i)'
    BY <1>6 DEF Listed
  <2>. QED
    BY <1>2, <1>5, <1>7, <2>1, <2>2 DEF Placed, OnePlace, Carried, Aborting, Removing
<1>10. RemovalOK'
  <2>1. list[p] # <<>>
    BY <1>1, EmptyElements DEF Listed
  <2>. QED
    BY <1>5, <1>6, <1>7, <2>1, RemovalGoesOn DEF Done
<1>. QED
  BY <1>7, <1>8, <1>9, <1>10

LEMMA DequeueHolds ==
  ASSUME TypeOK, HoldersOK, NEW p \in Pipes, QuietDequeue(p)
  PROVE  HoldersOK'
<1>. USE DEF HoldersOK
<1>1. /\ at[p] = "idle" /\ removal # "marked"
      /\ UNCHANGED <<status, aborted, dequeued, removal, halted>>
  BY DEF QuietDequeue, Dequeue
<1>2. CASE list[p] = <<>>
  <2>1. UNCHANGED <<list, irp, at>>
    BY <1>2 DEF QuietDequeue, Dequeue
  <2>2. Placed' /\ NoCopies'
    BY <1>1, <2>1, PlacesKept
  <2>. QED
    BY <1>1, <2>1, <2>2, RemovalGoesOn
<1>3. CASE list[p] # <<>>
  <2>0. PICK i : i = Head(list[p])
    OBVIOUS
  <2>1. list[p] \in Seq(Transfers) /\ NoRepeats(list[p])
    BY DEF TypeOK, ListTypeOK, NoCopies, Transfers
  <2>2. /\ i \in ToSet(list[p])
        /\ NoRepeats(Tail(list[p]))
        /\ ToSet(Tail(list[p])) = ToSet(list[p]) \ {i}
    BY <2>0, <1>3, <2>1, TailElements
  <2>3. /\ list'[p] = Tail(list[p]) /\ irp'[p] = i
        /\ \A r \in Pipes \ {p} : list'[r] = list[r] /\ irp'[r] = irp[r]
    BY <2>0, <1>3 DEF QuietDequeue, Dequeue, TypeOK, ListTypeOK, DpcTypeOK
  <2>4. i \in Transfers /\ PipeOf(i) = p
    BY <2>2, PlacesOfPipes
  <2>5. NoCopies'
    BY <1>1, <2>2, <2>3 DEF NoCopies
  <2>6. ASSUME NEW j \in Transfers, j # i
        PROVE  (Listed(j)' <=> Listed(j)) /\ (Carried(j)' <=> Carried(j))
    <3>1. PipeOf(j) \in Pipes /\ (PipeOf(j) = p => irp[p] # j)
      BY <1>1, PlacesOfPipes DEF Carried, InHands
    <3>. QED
      BY <2>2, <2>3, <2>6, <3>1 DEF Listed, Carried
  <2>7. Listed(i) /\ ~Listed(i)' /\ Carried(i)'
    BY <2>2, <2>3, <2>4 DEF Listed, Carried
  <2>8. Placed'
    BY <1>1, <2>4, <2>6, <2>7 DEF Placed, OnePlace, Aborting, Removing
  <2>9. RemovalOK'
    <3>1. ~Removed
      <4>1. removal \in {"no", "marked", "drained", "freed"}
        BY DEF TypeOK, RemoveTypeOK
      <4>. QED
        BY <1>1, <1>3, <4>1 DEF RemovalOK, Removed
    <3>. QED
      BY <1>1, <3>1, NotRemoved
  <2>. QED
    BY <1>1, <2>5, <2>8, <2>9
<1>. QED
  BY <1>2, <1>3

LEMMA FinishHolds ==
  ASSUME TypeOK, HoldersOK, NEW p \in Pipes, InHands(p), ~Removed,
         NEW result \in Done, Finish(p, result)
  PROVE  HoldersOK'
<1>. USE DEF HoldersOK
<1>0. PICK i : i = irp[p]
  OBVIOUS
<1>1. i \in Transfers /\ PipeOf(i) = p /\ Carried(i) /\ i # NoIrp
  BY <1>0, PlacesOfPipes, Distinct DEF Carried, Transfers
<1>2. /\ Complete(i, result)
      /\ irp'[p] = NoIrp /\ \A r \in Pipes \ {p} : irp'[r] = irp[r]
      /\ UNCHANGED <<list, aborted, dequeued, removal>>
  BY <1>0 DEF Finish, removeVars, TypeOK, DpcTypeOK
<1>3. /\ status[i] = "pending" /\ status'[i] = result /\ result # "pending"
      /\ ~halted'
      /\ \A j \in Irps \ {i} : status'[j] = status[j]
  BY <1>1, <1>2, Completed
<1>4. NoCopies'
  BY <1>2 DEF NoCopies
<1>5. ASSUME NEW j \in Transfers, j # i
      PROVE  status'[j] = status[j] /\ (Carried(j)' <=> Carried(j))
  <2>1. /\ PipeOf(j) \in Pipes /\ j \in Irps /\ j # NoIrp
        /\ PipeOf(j) = p => irp[p] # j
    BY <1>0, <1>5, PlacesOfPipes, Distinct DEF Transfers
  <2>. QED
    BY <1>2, <1>3, <1>5, <2>1 DEF Carried
<1>6. ~Listed(i) /\ ~Aborting(i) /\ ~Removing(i) /\ ~Carried(i)'
  BY <1>1, <1>2 DEF Placed, OnePlace, Carried
<1>7. Placed'
  BY <1>2, <1>3, <1>5, <1>6 DEF Placed, OnePlace, Listed, Aborting, Removing
<1>. QED
  BY <1>2, <1>3, <1>4, <1>7, NotRemoved

LEMMA CarryNotRemoved ==
  ASSUME HoldersOK, NEW p \in Pipes, Carry(p)
  PROVE  InHands(p) /\ ~Removed
<1>1. InHands(p)
  BY DEF Carry, Compare, Measure, Copy, Load, Store, Served, MoveDown, TestRemoved,
         Reinsert, UseFreed, InHands
<1>. QED
  BY <1>1 DEF HoldersOK, RemovalOK, Quiescent

LEMMA CarryHolds ==
  ASSUME TypeOK, HoldersOK, NEW p \in Pipes, Carry(p)
  PROVE  HoldersOK'
<1>. USE DEF HoldersOK
<1>1. InHands(p) /\ ~Removed
  BY CarryNotRemoved
<1>2. ASSUME UNCHANGED <<listVars, irp, removeVars, halted>> PROVE HoldersOK'
  <2>1. UNCHANGED <<list, status, irp, aborted, dequeued, removal, halted>>
    BY <1>2 DEF listVars, removeVars
  <2>2. Placed' /\ NoCopies'
    BY <2>1, PlacesKept
  <2>. QED
    BY <1>1, <2>1, <2>2, NotRemoved
<1>3. ASSUME NEW result \in Done, Finish(p, result) PROVE HoldersOK'
  BY <1>1, <1>3, FinishHolds
<1>4. CASE p = BulkIn /\ Reinsert
  <2>0. PICK i : i = irp[p]
    OBVIOUS
  <2>1. i \in Transfers /\ PipeOf(i) = p /\ Carried(i) /\ i # NoIrp
    BY <2>0, <1>1, PlacesOfPipes, Distinct DEF Carried, Transfers
  <2>2. ~Listed(i) /\ ~Aborting(i) /\ ~Removing(i)
    BY <2>1 DEF Placed, OnePlace
  <2>3. /\ list'[p] = <<i>> \o list[p] /\ irp'[p] = NoIrp
        /\ \A r \in Pipes \ {p} : list'[r] = list[r] /\ irp'[r] = irp[r]
        /\ UNCHANGED <<status, aborted, dequeued, removal, halted>>
    BY <2>0, <1>4 DEF Reinsert, PutBack, removeVars, TypeOK, ListTypeOK, DpcTypeOK
  <2>4. list[p] \in Seq(Transfers) /\ NoRepeats(list[p]) /\ i \notin ToSet(list[p])
    BY <2>1, <2>2 DEF TypeOK, ListTypeOK, Transfers, NoCopies, Listed
  <2>5. ToSet(list'[p]) = ToSet(list[p]) \union {i} /\ NoRepeats(list'[p])
    BY <2>1, <2>3, <2>4, PrependElements
  <2>6. NoCopies'
    BY <2>3, <2>5 DEF NoCopies
  <2>7. ASSUME NEW j \in Transfers, j # i
        PROVE  (Listed(j)' <=> Listed(j)) /\ (Carried(j)' <=> Carried(j))
    <3>1. /\ PipeOf(j) \in Pipes /\ j # NoIrp
          /\ PipeOf(j) = p => irp[p] # j
      BY <2>0, <2>7, PlacesOfPipes, Distinct DEF Transfers
    <3>. QED
      BY <2>3, <2>5, <2>7, <3>1 DEF Listed, Carried
  <2>8. Listed(i)' /\ ~Carried(i)'
    BY <2>1, <2>3, <2>5 DEF Listed, Carried
  <2>9. Placed'
    BY <2>1, <2>2, <2>3, <2>7, <2>8 DEF Placed, OnePlace, Aborting, Removing
  <2>. QED
    BY <1>1, <2>3, <2>6, <2>9, NotRemoved
<1>5. CASE Compare(p)
  BY <1>2, <1>3, <1>5 DEF Compare, Done
<1>6. CASE Measure(p)
  BY <1>2, <1>3, <1>6 DEF Measure, Done
<1>7. CASE Copy(p) \/ Load(p) \/ Store(p) \/ MoveDown
  BY <1>2, <1>7 DEF Copy, Load, Store, MoveDown
<1>8. CASE Served(p)
  BY <1>3, <1>8 DEF Served, Done
<1>9. CASE TestRemoved
  BY <1>1, <1>2, <1>9 DEF TestRemoved
<1>10. CASE UseFreed(p)
  BY <1>1, <1>10 DEF UseFreed, Removed
<1>. QED
  BY <1>4, <1>5, <1>6, <1>7, <1>8, <1>9, <1>10 DEF Carry

LEMMA RemovalHolds ==
  ASSUME TypeOK, HoldersOK, QuietRemove \/ Drain \/ RemoveComplete \/ Free
  PROVE  HoldersOK'
<1>. USE DEF HoldersOK
<1>1. CASE QuietRemove
  <2>1. /\ Quiescent /\ removal = "no" /\ removal' = "marked"
        /\ UNCHANGED <<list, status, at, irp, aborted, dequeued, halted>>
    BY <1>1 DEF QuietRemove, MarkRemoved, listVars, dpcVars
  <2>2. Placed' /\ NoCopies'
    BY <2>1, PlacesKept
  <2>3. RemovalOK'
    BY <2>1 DEF RemovalOK, Quiescent, InHands
  <2>. QED
    BY <2>1, <2>2, <2>3
<1>2. CASE Drain
  <2>1. /\ removal = "marked" /\ removal' = "drained" /\ dequeued = <<>>
        /\ dequeued' = list[BulkIn] \o list[BulkOut]
        /\ \A p \in Pipes : list'[p] = <<>>
        /\ UNCHANGED <<status, at, irp, aborted, halted>>
    BY <1>2 DEF Drain, Drained, dpcVars, RemovalOK
  <2>2. /\ list[BulkIn] \in Seq(Transfers) /\ NoRepeats(list[BulkIn])
        /\ list[BulkOut] \in Seq(Transfers) /\ NoRepeats(list[BulkOut])
    BY Distinct DEF TypeOK, ListTypeOK, NoCopies, Transfers
  <2>3. ToSet(list[BulkIn]) \intersect ToSet(list[BulkOut]) = {}
    BY PlacesOfPipes, Distinct
  <2>4. /\ ToSet(dequeued') = ToSet(list[BulkIn]) \union ToSet(list[BulkOut])
        /\ NoRepeats(dequeued')
    BY <2>1, <2>2, <2>3, ConcatElements
  <2>5. NoCopies'
    BY <2>1, <2>4, EmptyElements DEF NoCopies
  <2>6. ASSUME NEW j \in Transfers
        PROVE  ~Listed(j)' /\ ~Removing(j) /\ (Removing(j)' <=> Listed(j))
    <3>1. PipeOf(j) \in Pipes /\ (\A p \in Pipes : j \in ToSet(list[p]) => PipeOf(j) = p)
      BY PlacesOfPipes
    <3>2. ~Listed(j)' /\ ~Removing(j)
      BY <2>1, <3>1, EmptyElements DEF Listed, Removing
    <3>3. Removing(j)' <=> \E p \in Pipes : j \in ToSet(list[p])
      BY <2>4, Distinct DEF Removing
    <3>. QED
      BY <3>1, <3>2, <3>3 DEF Listed
  <2>7. Placed'
    BY <2>1, <2>6 DEF Placed, OnePlace, Carried, Aborting
  <2>8. RemovalOK'
    BY <2>1 DEF RemovalOK, Removed, Quiescent, InHands
  <2>. QED
    BY <2>1, <2>5, <2>7, <2>8
<1>3. CASE RemoveComplete
  <2>0. PICK i : i = Head(dequeued)
    OBVIOUS
  <2>1. /\ UNCHANGED <<list, irp, at, aborted, removal>>
        /\ dequeued # <<>> /\ dequeued' = Tail(dequeued) /\ Complete(i, "cancelled")
        /\ dequeued \in Seq(Transfers) /\ NoRepeats(dequeued)
    BY <2>0, <1>3 DEF RemoveComplete, dpcVars, TypeOK, RemoveTypeOK, NoCopies, Transfers
  <2>2. /\ i \in ToSet(dequeued)
        /\ ToSet(dequeued') = ToSet(dequeued) \ {i}
        /\ NoRepeats(dequeued')
    BY <2>0, <2>1, TailElements
  <2>3. i \in Transfers /\ Removing(i)
    BY <2>0, <2>2, PlacesOfPipes DEF Removing
  <2>4. /\ status[i] = "pending" /\ status'[i] = "cancelled" /\ ~halted'
        /\ \A j \in Irps \ {i} : status'[j] = status[j]
    BY <2>0, <2>1, <2>3, Completed DEF Done
  <2>5. NoCopies'
    BY <2>1, <2>2 DEF NoCopies
  <2>6. Placed'
    <3>1. \A j \in Transfers \ {i} :
            status'[j] = status[j] /\ (Removing(j)' <=> Removing(j))
      BY <2>2, <2>4, PlacesOfPipes DEF Removing
    <3>2. ~Listed(i) /\ ~Carried(i) /\ ~Aborting(i) /\ ~Removing(i)'
      BY <2>2, <2>3 DEF Placed, OnePlace, Removing
    <3>. QED
      BY <2>1, <2>4, <3>1, <3>2 DEF Placed, OnePlace, Listed, Carried, Aborting
  <2>7. RemovalOK'
    BY <2>1, <2>4, RemovalGoesOn DEF Done
  <2>. QED
    BY <2>4, <2>5, <2>6, <2>7
<1>4. CASE Free
  <2>1. /\ removal = "drained" /\ removal' = "freed"
        /\ UNCHANGED <<list, status, at, irp, aborted, dequeued, halted>>
    BY <1>4 DEF Free, listVars, dpcVars
  <2>2. Placed' /\ NoCopies'
    BY <2>1, PlacesKept
  <2>3. RemovalOK'
    BY <2>1 DEF RemovalOK, Removed, Quiescent, InHands
  <2>. QED
    BY <2>1, <2>2, <2>3
<1>. QED
  BY <1>1, <1>2, <1>3, <1>4

LEMMA HoldersStep ==
  ASSUME TypeOK, HoldersOK, [QuietNext]_vars
  PROVE  HoldersOK'
<1>1. CASE UNCHANGED vars
  <2>1. UNCHANGED <<list, status, at, irp, aborted, dequeued, removal, halted>>
    BY <1>1 DEF vars, listVars, dpcVars, removeVars
  <2>2. Placed' /\ NoCopies'
    BY <2>1, PlacesKept DEF HoldersOK
  <2>. QED
    BY <2>1, <2>2, RemovalGoesOn DEF HoldersOK
<1>2. CASE QuietNext
  BY <1>2, DispatchHolds, AbortHolds, CancelHolds, DequeueHolds, CarryHolds,
     RemovalHolds
  DEF QuietNext
<1>. QED
  BY <1>1, <1>2

LEMMA HoldersInit == Init => HoldersOK
<1>. SUFFICES ASSUME Init PROVE HoldersOK
  OBVIOUS
<1>1. \A i \in Transfers : PipeOf(i) \in Pipes /\ i \in Irps /\ i # NoIrp
  BY TypeInit, PlacesOfPipes, Distinct DEF Transfers
<1>. QED
  BY <1>1, EmptyElements
  DEF Init, HoldersOK, Placed, OnePlace, Listed, Carried, Aborting, Removing, NoCopies,
      RemovalOK, Removed

LEMMA QuietInvariant == QuietSpec => []QuietInv
<1>1. Init => HoldersOK
  BY HoldersInit
<1>2. IInv /\ HoldersOK /\ [QuietNext]_vars => HoldersOK'
  BY HoldersStep DEF IInv
<1>3. QuietSpec => Init /\ [][QuietNext]_vars
  BY DEF QuietSpec
<1>4. QuietInv <=> IInv /\ HoldersOK
  BY DEF QuietInv
<1>. QED
  BY <1>1, <1>2, <1>3, <1>4, QuietBase, PTL

(* Whatever is submitted, cancelled, aborted or removed, and however the     *)
(* DPCs interleave, no transfer is completed twice, forgotten while it is    *)
(* pending, or served from memory that was freed (Driver.c:1156, 1256, 1288, *)
(* 652).                                                                     *)
THEOREM HandedOnOnce == QuietSpec => []CompletedOnce
<1>1. QuietInv => CompletedOnce
  <2>. SUFFICES ASSUME QuietInv PROVE CompletedOnce
    OBVIOUS
  <2>1. TypeOK /\ Placed /\ ~halted
    BY DEF QuietInv, IInv, HoldersOK
  <2>2. ASSUME NEW i \in Transfers
        PROVE  /\ Listed(i) <=> InList(i)
               /\ Carried(i) <=> \E p \in Pipes : InHands(p) /\ irp[p] = i
    BY <2>1, PlacesOfPipes DEF Listed, InList, Carried
  <2>. QED
    BY <2>1, <2>2 DEF CompletedOnce, Placed, Aborting, Removing, Transfers
<1>. QED
  BY <1>1, QuietInvariant, PTL

-----------------------------------------------------------------------------
(* The data, where the DPCs share a processor.                               *)

(* One DPC is at work at a time, ...                                         *)
Alone == \E p \in Pipes : ~InHands(p)

(* ... so what it has read of the fill is the fill, and what a write has     *)
(* copied lies behind what the buffer holds until the fill counts it.        *)
Current ==
  /\ at[1] = "compared" => seen[1] = MaxHolding - SizeofHolding
  /\ at[1] \in {"sized", "copied", "loaded"} => size[1] <= length[irp[1]]
  /\ at[1] \in {"copied", "loaded"} =>
       \A k \in 1 .. size[1] :
         pLoopBackDataBuffer[SizeofHolding + k] = <<irp[1], k>>
  /\ \A p \in Pipes : at[p] = "loaded" => seen[p] = SizeofHolding
  /\ at[0] = "stored" => size[0] \in Nat
  /\ removal = "freed" => SizeofHolding = 0

(* A write has its data in the pipe only when it is completed, or will be in *)
(* the next step of its DPC.                                                 *)
Shown(w) ==
  \/ \E i \in DOMAIN Held : Held[i][1] = w
  \/ \E i \in DOMAIN delivered : delivered[i][1] = w

Finished(w) == status[w] \in Done \/ (at[1] = "served" /\ irp[1] = w)

ShownOnce == \A w \in Writes : Shown(w) => Finished(w)

LoopInv == Alone /\ Current /\ ShownOnce

(* Where the data is in the buffer.                                          *)
Behind == IF at[0] \in {"copied", "loaded", "stored"} THEN size[0] ELSE 0
Left   == IF at[0] \in {"copied", "loaded"} THEN SizeofHolding - size[0]
                                           ELSE SizeofHolding

LEMMA DataTypes ==
  ASSUME QuietInv
  PROVE  /\ at \in [Pipes -> Stages] /\ Pipes = {0, 1}
         /\ seen \in [Pipes -> Int] /\ size \in [Pipes -> Int]
         /\ irp \in [Pipes -> Reads \union Writes \union {NoIrp}]
         /\ SizeofHolding \in Int /\ MaxHolding \in Nat
         /\ delivered \in Seq(Units)
         /\ \A k : ByteAt(k) \in Units
         /\ \A i \in Reads \union Writes : length[i] \in Nat
         /\ removal # "freed" => /\ SizeofHolding \in 0 .. MaxHolding
                                /\ ReadKnows /\ WriteKnows
         /\ removal = "freed" => \A p \in Pipes : at[p] = "idle"
<1>1. /\ at \in [Pipes -> Stages] /\ Pipes = {0, 1}
      /\ seen \in [Pipes -> Int] /\ size \in [Pipes -> Int]
      /\ irp \in [Pipes -> Reads \union Writes \union {NoIrp}]
      /\ SizeofHolding \in Int /\ MaxHolding \in Nat
      /\ delivered \in Seq(Units)
  BY DeviceAssumption DEF QuietInv, IInv, TypeOK, DpcTypeOK, BufferTypeOK, Pipes
<1>2. \A k : ByteAt(k) \in Units
  BY DEF QuietInv, IInv, TypeOK, BufferTypeOK, ByteAt, Units
<1>3. \A i \in Reads \union Writes : length[i] \in Nat
  BY DeviceAssumption DEF QuietInv, IInv, TypeOK, ListTypeOK
<1>4. removal # "freed" => SizeofHolding \in 0 .. MaxHolding /\ ReadKnows /\ WriteKnows
  BY DEF QuietInv, IInv, FillOK
<1>5. removal = "freed" => \A p \in Pipes : at[p] = "idle"
  BY DEF QuietInv, HoldersOK, RemovalOK, Removed, Quiescent, InHands
<1>. QED
  BY <1>1, <1>2, <1>3, <1>4, <1>5

HeldIsData ==
  /\ Left \in Nat /\ Behind \in Nat
  /\ Held \in Seq(Units) /\ Len(Held) = Left
  /\ \A k \in 1 .. Left : Held[k] = ByteAt(Behind + k)

LEMMA HeldShape == QuietInv /\ Current => HeldIsData
<1>. SUFFICES ASSUME QuietInv, Current PROVE HeldIsData
  OBVIOUS
<1>1. Left \in Nat /\ Behind \in Nat
  BY DataTypes DEF Left, Behind, Current, ReadKnows
<1>2. Held = [k \in 1 .. Left |-> ByteAt(Behind + k)]
  <2>1. CASE at[0] \in {"copied", "loaded", "stored"}
    BY <2>1 DEF Held, Left, Behind, BulkIn
  <2>2. CASE at[0] \notin {"copied", "loaded", "stored"}
    <3>1. Held = [k \in 1 .. Left |-> ByteAt(k)] /\ Behind = 0
      BY <2>2 DEF Held, Left, Behind, BulkIn
    <3>2. \A k \in 1 .. Left : ByteAt(k) = ByteAt(Behind + k)
      <4>1. \A k \in 1 .. Left : k = Behind + k
        BY <3>1, <1>1
      <4>. QED
        BY <4>1
    <3>. QED
      BY <3>1, <3>2
  <2>. QED
    BY <2>1, <2>2
<1>. QED
  BY <1>1, <1>2, DataTypes DEF HeldIsData

LEMMA HeldShapeNext == QuietInv' /\ Current' => HeldIsData'
BY HeldShape, PTL

LEMMA DataUnchanged ==
  ASSUME Alone, Current, UNCHANGED <<length, dpcVars, SizeofHolding, pLoopBackDataBuffer>>,
         removal' = "freed" => removal = "freed"
  PROVE  Alone' /\ Current'
BY DEF Alone, Current, InHands, dpcVars

(* The steps that are not a DPC's and do not free the buffer.                *)
LEMMA OtherSteps ==
  ASSUME QuietInv,
         \/ \E i \in Irps : \/ Submit(i) \/ Enqueue(i) \/ QueueWorkItem(i)
                           \/ WorkItem(i) \/ QuietCancel(i)
         \/ \E p \in Pipes : AbortPipe(p)
         \/ AbortComplete \/ QuietRemove \/ Drain \/ RemoveComplete
         \/ UNCHANGED vars
  PROVE  /\ UNCHANGED <<length, dpcVars, bufferVars>>
         /\ removal' = "freed" => removal = "freed"
BY DEF Submit, Enqueue, QueueWorkItem, WorkItem, Halt, QuietCancel, Cancel, AbortPipe,
       AbortComplete, QuietRemove, MarkRemoved, Drain, RemoveComplete, vars, listVars,
       removeVars

(* The steps of a DPC, while the other one is idle.                          *)
LEMMA CarryAlone ==
  ASSUME QuietInv, Alone, NEW p \in Pipes, Carry(p)
  PROVE  /\ removal # "freed" /\ removal' = removal /\ UNCHANGED length
         /\ Alone'
         /\ \A r \in Pipes \ {p} : /\ at[r] = "idle" /\ at'[r] = "idle"
                                  /\ size'[r] = size[r]
<1>1. InHands(p) /\ ~Removed
  BY CarryNotRemoved DEF QuietInv
<1>2. \A r \in Pipes \ {p} : at[r] = "idle"
  <2>1. PICK q \in Pipes : ~InHands(q)
    BY DEF Alone
  <2>2. \A r \in Pipes \ {p} : r = q
    BY <1>1, <2>1 DEF Pipes
  <2>. QED
    BY <2>1, <2>2 DEF InHands
<1>3. removal' = removal /\ UNCHANGED length
  BY <1>1
  DEF Carry, Compare, Measure, Copy, Load, Store, Served, Finish, MoveDown, TestRemoved,
      Reinsert, UseFreed, Removed, removeVars, listVars
<1>4. \A r \in Pipes \ {p} : at'[r] = at[r] /\ size'[r] = size[r]
  BY <1>1, DataTypes
  DEF Carry, Compare, Measure, Copy, Load, Store, Served, Finish, MoveDown, TestRemoved,
      Reinsert, UseFreed, Removed, Goto
<1>5. Alone'
  <2>1. \E r \in Pipes : r # p
    BY DEF Pipes
  <2>. QED
    BY <1>2, <1>4, <2>1 DEF Alone, InHands
<1>. QED
  BY <1>1, <1>2, <1>3, <1>4, <1>5 DEF Removed

LEMMA ReadKeepsCurrent ==
  ASSUME QuietInv, Alone, Current, Carry(0)
  PROVE  Current'
<1>1. /\ removal # "freed" /\ removal' = removal
      /\ at[1] = "idle" /\ at'[1] = "idle"
  BY CarryAlone, DataTypes
<1>. USE DataTypes DEF Goto, bufferVars, BulkIn, BulkOut
<1>2. at'[0] = "loaded" => seen'[0] = SizeofHolding'
  BY DEF Carry, Compare, Measure, Copy, Load, Store, Served, Finish, MoveDown,
         TestRemoved, Reinsert, UseFreed, Halt
<1>3. at'[0] = "stored" => size'[0] \in Nat
  BY <1>1 DEF Carry, Compare, Measure, Copy, Load, Store, Served, Finish, MoveDown,
         TestRemoved, Reinsert, UseFreed, Halt, ReadKnows
<1>. QED
  BY <1>1, <1>2, <1>3 DEF Current

LEMMA WriteKeepsCurrent ==
  ASSUME QuietInv, Alone, Current, Carry(1)
  PROVE  Current'
<1>1. /\ removal # "freed" /\ removal' = removal /\ UNCHANGED length
      /\ at[0] = "idle" /\ at'[0] = "idle"
  BY CarryAlone, DataTypes
<1>. USE DataTypes DEF Goto, BulkIn, BulkOut
<1>2. ASSUME at'[1] \notin {"compared", "sized", "copied", "loaded"} PROVE Current'
  BY <1>1, <1>2 DEF Current
<1>3. ASSUME NEW result, Finish(1, result) PROVE Current'
  BY <1>2, <1>3 DEF Finish
<1>4. CASE Compare(1) /\ ~Finish(1, "failed")
  <2>1. at'[1] = "compared" /\ seen'[1] = Room(1) /\ UNCHANGED SizeofHolding
    BY <1>4 DEF Compare, bufferVars
  <2>. QED
    BY <1>1, <2>1 DEF Current, Room
<1>5. CASE Measure(1) /\ ~Finish(1, "failed")
  <2>1. /\ at[1] = "compared" /\ seen[1] = Room(1)
        /\ UNCHANGED <<irp, SizeofHolding>>
        /\ \/ at'[1] = "pending"
           \/ /\ at'[1] = "sized"
              /\ size'[1] = IF length[irp[1]] > seen[1] THEN Room(1) ELSE length[irp[1]]
    BY <1>5 DEF Measure, Current, Room, bufferVars
  <2>2. irp[1] \in Reads \union Writes
    BY <2>1, Distinct DEF QuietInv, IInv, TypeOK, DpcTypeOK, InHands
  <2>3. length[irp[1]] \in Nat /\ Room(1) \in Int
    BY <2>2 DEF Room
  <2>4. at'[1] = "sized" => size'[1] <= length'[irp'[1]]
    BY <1>1, <2>1, <2>3
  <2>. QED
    BY <1>1, <1>2, <2>1, <2>4 DEF Current
<1>6. CASE Copy(1)
  <2>1. /\ at[1] = "sized" /\ at'[1] = "copied"
        /\ UNCHANGED <<irp, size, SizeofHolding>>
        /\ size[1] \in 1 .. MaxHolding - SizeofHolding
    BY <1>1, <1>6 DEF Copy, WriteKnows
  <2>2. ASSUME NEW k \in 1 .. size[1]
        PROVE  pLoopBackDataBuffer'[SizeofHolding + k] = <<irp[1], k>>
    <3>1. /\ SizeofHolding + k \in 1 .. MaxHolding
          /\ SizeofHolding + k \in SizeofHolding + 1 .. SizeofHolding + size[1]
          /\ (SizeofHolding + k) - SizeofHolding = k
      BY <1>1, <2>1
    <3>2. pLoopBackDataBuffer' =
            [j \in 1 .. MaxHolding |->
               IF j \in SizeofHolding + 1 .. SizeofHolding + size[1]
                 THEN <<irp[1], j - SizeofHolding>> ELSE pLoopBackDataBuffer[j]]
      BY <1>6 DEF Copy
    <3>. QED
      BY <3>1, <3>2
  <2>. QED
    BY <1>1, <2>1, <2>2 DEF Current
<1>7. CASE Load(1)
  BY <1>1, <1>7 DEF Load, Current, bufferVars
<1>8. CASE Store(1)
  BY <1>2, <1>8 DEF Store
<1>9. CASE Served(1)
  BY <1>3, <1>9 DEF Served
<1>10. CASE UseFreed(1)
  BY <1>1, <1>10 DEF UseFreed
<1>. QED
  BY <1>3, <1>4, <1>5, <1>6, <1>7, <1>8, <1>9, <1>10 DEF Carry

LEMMA CurrentStep ==
  ASSUME SharedProcessor, QuietInv, Alone, Current, [QuietNext]_vars
  PROVE  Alone' /\ Current'
<1>1. ASSUME NEW p \in Pipes, Carry(p) PROVE Alone' /\ Current'
  BY <1>1, CarryAlone, ReadKeepsCurrent, WriteKeepsCurrent DEF Pipes
<1>2. ASSUME NEW p \in Pipes, QuietDequeue(p) PROVE Alone' /\ Current'
  <2>1. /\ UNCHANGED <<length, seen, size, SizeofHolding, pLoopBackDataBuffer, removal>>
        /\ at[p] = "idle" /\ at[1 - p] = "idle"
        /\ \/ UNCHANGED <<at, irp>>
           \/ /\ at' = [at EXCEPT ![p] = "taken"]
              /\ \A r \in Pipes \ {p} : irp'[r] = irp[r]
    BY <1>2, DataTypes DEF QuietDequeue, Dequeue, InHands, Goto, bufferVars
  <2>2. Alone'
    BY <2>1, DataTypes DEF Alone, InHands
  <2>3. Current'
    BY <2>1, DataTypes DEF Current
  <2>. QED
    BY <2>2, <2>3
<1>3. CASE Free
  <2>1. /\ \A p \in Pipes : at[p] = "idle"
        /\ at' = at /\ SizeofHolding' = 0
    BY <1>3 DEF Free, dpcVars, QuietInv, HoldersOK, RemovalOK, Removed, Quiescent, InHands
  <2>. QED
    BY <2>1, DataTypes DEF Alone, Current, InHands
<1>. QED
  BY <1>1, <1>2, <1>3, OtherSteps, DataUnchanged DEF QuietNext, bufferVars

(* What a step does to the data: a write puts some of its own at the end, a  *)
(* read takes some from the front, the removal drops all.                    *)
Puts ==
  /\ at[1] = "loaded" /\ at'[1] = "served" /\ irp'[1] = irp[1]
  /\ UNCHANGED delivered
  /\ \E n \in 1 .. length[irp[1]] :
       /\ Len(Held) + n <= MaxHolding
       /\ Held' = Held \o [k \in 1 .. n |-> <<irp[1], k>>]

Takes ==
  \E n \in 1 .. Len(Held) :
    /\ delivered' = delivered \o SubSeq(Held, 1, n)
    /\ Held' = SubSeq(Held, n + 1, Len(Held))

LEMMA HeldKept ==
  ASSUME HeldIsData, HeldIsData', Left' = Left,
         \A k \in 1 .. Left : ByteAt(Behind + k)' = ByteAt(Behind + k)
  PROVE  Held' = Held
BY DEF HeldIsData

LEMMA HeldUntouched ==
  ASSUME HeldIsData, HeldIsData', Left' = Left, Behind' = Behind,
         UNCHANGED pLoopBackDataBuffer
  PROVE  Held' = Held
BY HeldKept DEF ByteAt

LEMMA ReadsTake ==
  ASSUME QuietInv, Alone, Current, HeldIsData, HeldIsData', Carry(0)
  PROVE  (Held' = Held /\ UNCHANGED delivered) \/ Takes
<1>1. /\ removal # "freed"
      /\ SizeofHolding \in 0 .. MaxHolding /\ ReadKnows
  BY CarryAlone, DataTypes
<1>. USE DataTypes DEF Goto, BulkIn, BulkOut
<1>2. ASSUME at[0] \notin {"copied", "loaded", "stored"},
             at'[0] \notin {"copied", "loaded", "stored"},
             UNCHANGED bufferVars
      PROVE  Held' = Held /\ UNCHANGED delivered
  <2>1. Left' = Left /\ Behind' = Behind
    BY <1>2 DEF Left, Behind, bufferVars
  <2>. QED
    BY <1>2, <2>1, HeldUntouched DEF bufferVars
<1>3. ASSUME NEW result, Finish(0, result), at[0] \notin {"copied", "loaded", "stored"}
      PROVE  Held' = Held /\ UNCHANGED delivered
  BY <1>2, <1>3 DEF Finish
<1>4. CASE Compare(0) \/ Measure(0) \/ Served(0) \/ TestRemoved \/ Reinsert
  <2>1. at[0] \notin {"copied", "loaded", "stored"}
    BY <1>4 DEF Compare, Measure, Served, TestRemoved, Reinsert
  <2>2. \/ \E result : Finish(0, result)
        \/ at'[0] \notin {"copied", "loaded", "stored"} /\ UNCHANGED bufferVars
    BY <1>4 DEF Compare, Measure, Served, TestRemoved, Reinsert
  <2>. QED
    BY <1>2, <1>3, <2>1, <2>2
<1>5. CASE Copy(0)
  <2>. DEFINE n == size[0]
  <2>1. /\ at[0] = "sized" /\ at'[0] = "copied"
        /\ UNCHANGED <<size, SizeofHolding, pLoopBackDataBuffer>>
        /\ n \in 1 .. SizeofHolding
    BY <1>1, <1>5 DEF Copy, ReadKnows
  <2>2. /\ Behind = 0 /\ Left = SizeofHolding
        /\ Behind' = n /\ Left' = SizeofHolding - n
    BY <2>1 DEF Behind, Left
  <2>3. \A k : ByteAt(k)' = ByteAt(k)
    BY <2>1 DEF ByteAt
  <2>4. delivered' = delivered \o [k \in 1 .. n |-> ByteAt(k)]
    BY <1>5 DEF Copy
  <2>. HIDE DEF n
  <2>5. \A k \in 1 .. SizeofHolding : Held[k] = ByteAt(k)
    BY <1>1, <2>2 DEF HeldIsData
  <2>6. /\ SubSeq(Held, 1, n) = [k \in 1 .. n |-> ByteAt(k)]
        /\ n \in 1 .. Len(Held)
    BY <1>1, <2>1, <2>2, <2>5 DEF HeldIsData
  <2>7. Held' = SubSeq(Held, n + 1, Len(Held))
    <3>. DEFINE r == SubSeq(Held, n + 1, Len(Held))
    <3>1. r \in Seq(Units) /\ Len(r) = SizeofHolding - n
      BY <1>1, <2>1, <2>2 DEF HeldIsData
    <3>2. \A k \in 1 .. SizeofHolding - n : r[k] = Held[n + k]
      BY <1>1, <2>1, <2>2 DEF HeldIsData
    <3>3. \A k \in 1 .. SizeofHolding - n : n + k \in 1 .. SizeofHolding
      BY <1>1, <2>1
    <3>4. \A k \in 1 .. SizeofHolding - n : Held'[k] = ByteAt(n + k)
      BY <2>2, <2>3 DEF HeldIsData
    <3>5. Held' \in Seq(Units) /\ Len(Held') = SizeofHolding - n
      BY <2>2 DEF HeldIsData
    <3>. HIDE DEF r
    <3>6. \A k \in 1 .. SizeofHolding - n : Held'[k] = r[k]
      BY <2>5, <3>2, <3>3, <3>4
    <3>7. Held' = r
      BY <3>1, <3>5, <3>6, SeqEqual
    <3>. QED
      BY <3>7 DEF r
  <2>. QED
    BY <2>4, <2>6, <2>7 DEF Takes
<1>6. CASE Load(0)
  <2>1. Left' = Left /\ Behind' = Behind /\ UNCHANGED <<pLoopBackDataBuffer, delivered>>
    BY <1>6 DEF Load, Left, Behind, bufferVars
  <2>. QED
    BY <2>1, HeldUntouched
<1>7. CASE Store(0)
  <2>1. Left' = Left /\ Behind' = Behind /\ UNCHANGED <<pLoopBackDataBuffer, delivered>>
    BY <1>7 DEF Store, Left, Behind, Current
  <2>. QED
    BY <2>1, HeldUntouched
<1>8. CASE MoveDown
  <2>1. /\ at[0] = "stored" /\ at'[0] = "served"
        /\ UNCHANGED <<SizeofHolding, delivered>>
        /\ pLoopBackDataBuffer' = Shifted(size[0])
        /\ Left' = Left /\ Left = SizeofHolding
        /\ Behind = size[0] /\ Behind' = 0
    BY <1>8 DEF MoveDown, Left, Behind
  <2>2. ASSUME NEW k \in 1 .. SizeofHolding
        PROVE  ByteAt(Behind + k)' = ByteAt(Behind + k)
    <3>1. k \in 1 .. MaxHolding /\ k <= SizeofHolding /\ 0 + k = k
      BY <1>1
    <3>2. ByteAt(Behind + k)' = pLoopBackDataBuffer'[k]
      BY <2>1, <3>1 DEF ByteAt
    <3>3. pLoopBackDataBuffer'[k] = ByteAt(size[0] + k)
      BY <2>1, <3>1 DEF Shifted
    <3>. QED
      BY <2>1, <3>2, <3>3
  <2>. QED
    BY <2>1, <2>2, HeldKept
<1>9. CASE UseFreed(0)
  BY <1>1, <1>9 DEF UseFreed
<1>. QED
  BY <1>4, <1>5, <1>6, <1>7, <1>8, <1>9 DEF Carry

LEMMA WritesPut ==
  ASSUME QuietInv, Alone, Current, HeldIsData, HeldIsData', Carry(1)
  PROVE  (Held' = Held /\ UNCHANGED delivered) \/ Puts
<1>1. /\ removal # "freed" /\ at[0] = "idle" /\ at'[0] = "idle"
      /\ SizeofHolding \in 0 .. MaxHolding /\ WriteKnows
  <2>1. removal # "freed" /\ at[0] = "idle" /\ at'[0] = "idle"
    <3>1. 1 \in Pipes /\ 0 \in Pipes \ {1}
      BY DEF Pipes
    <3>. QED
      BY <3>1, CarryAlone
  <2>. QED
    BY <2>1, DataTypes
<1>. USE DataTypes DEF Goto, BulkIn, BulkOut
<1>2. /\ Behind = 0 /\ Behind' = 0
      /\ Left = SizeofHolding /\ Left' = SizeofHolding'
  BY <1>1 DEF Behind, Left
<1>3. ASSUME UNCHANGED bufferVars PROVE Held' = Held /\ UNCHANGED delivered
  BY <1>2, <1>3, HeldUntouched DEF bufferVars
<1>4. CASE Compare(1) \/ Measure(1) \/ Load(1) \/ Served(1)
  BY <1>3, <1>4 DEF Compare, Measure, Load, Served, Finish
<1>5. CASE Copy(1)
  <2>1. /\ UNCHANGED <<SizeofHolding, delivered>>
        /\ pLoopBackDataBuffer' =
             [k \in 1 .. MaxHolding |->
                IF k \in SizeofHolding + 1 .. SizeofHolding + size[1]
                  THEN <<irp[1], k - SizeofHolding>> ELSE pLoopBackDataBuffer[k]]
    BY <1>5 DEF Copy
  <2>2. ASSUME NEW k \in 1 .. Left
        PROVE  ByteAt(Behind + k)' = ByteAt(Behind + k)
    <3>1. /\ k \in 1 .. MaxHolding /\ 0 + k = k
          /\ k \notin SizeofHolding + 1 .. SizeofHolding + size[1]
      BY <1>1, <1>2
    <3>. QED
      BY <1>2, <2>1, <3>1 DEF ByteAt
  <2>. QED
    BY <1>2, <2>1, <2>2, HeldKept
<1>6. CASE Store(1)
  <2>. DEFINE n == size[1]
              d == [k \in 1 .. n |-> <<irp[1], k>>]
  <2>1. /\ at[1] = "loaded" /\ at'[1] = "served" /\ UNCHANGED <<irp, delivered>>
        /\ UNCHANGED pLoopBackDataBuffer
        /\ SizeofHolding' = SizeofHolding + n
        /\ n \in 1 .. MaxHolding - SizeofHolding
        /\ n <= length[irp[1]]
    BY <1>1, <1>6 DEF Store, Current, WriteKnows
  <2>2. irp[1] \in Writes /\ length[irp[1]] \in Nat
    <3>1. irp[1] \in Writes
      BY <2>1, Distinct DEF QuietInv, IInv, TypeOK, DpcTypeOK, InHands
    <3>. QED
      BY <3>1
  <2>3. \A k \in 1 .. n : pLoopBackDataBuffer[SizeofHolding + k] = <<irp[1], k>>
    BY <2>1 DEF Current
  <2>. HIDE DEF n
  <2>4. /\ d \in Seq(Units) /\ Len(d) = n
        /\ \A k \in 1 .. n : d[k] = <<irp[1], k>>
    BY <2>1, <2>2 DEF Units
  <2>5. /\ Held \in Seq(Units) /\ Len(Held) = SizeofHolding
        /\ Held' \in Seq(Units) /\ Len(Held') = SizeofHolding + n
    BY <1>2, <2>1 DEF HeldIsData
  <2>6. ASSUME NEW k \in 1 .. SizeofHolding + n
        PROVE  /\ Held'[k] = pLoopBackDataBuffer[k]
               /\ k <= SizeofHolding => Held[k] = pLoopBackDataBuffer[k]
    <3>1. k \in 1 .. MaxHolding /\ 0 + k = k
      BY <1>1, <2>1
    <3>2. Held'[k] = ByteAt(Behind + k)'
      BY <1>2, <2>1 DEF HeldIsData
    <3>3. k <= SizeofHolding => Held[k] = ByteAt(Behind + k)
      BY <1>2 DEF HeldIsData
    <3>. QED
      BY <1>2, <2>1, <3>1, <3>2, <3>3 DEF ByteAt
  <2>. HIDE DEF d
  <2>7. Held' = Held \o d
    <3>1. /\ Held \o d \in Seq(Units) /\ Len(Held \o d) = SizeofHolding + n
          /\ \A k \in 1 .. SizeofHolding + n :
               (Held \o d)[k] = IF k <= SizeofHolding THEN Held[k]
                                                     ELSE d[k - SizeofHolding]
      BY <2>4, <2>5, ConcatProperties
    <3>2. ASSUME NEW k \in 1 .. SizeofHolding + n PROVE Held'[k] = (Held \o d)[k]
      <4>1. CASE k <= SizeofHolding
        BY <2>6, <3>1, <4>1
      <4>2. CASE k > SizeofHolding
        <5>1. k - SizeofHolding \in 1 .. n /\ SizeofHolding + (k - SizeofHolding) = k
          BY <1>1, <2>1, <4>2
        <5>2. pLoopBackDataBuffer[k] = <<irp[1], k - SizeofHolding>>
          BY <2>3, <5>1
        <5>3. (Held \o d)[k] = d[k - SizeofHolding]
          BY <1>1, <3>1, <4>2
        <5>4. d[k - SizeofHolding] = <<irp[1], k - SizeofHolding>>
          BY <2>4, <5>1
        <5>. QED
          BY <2>6, <5>2, <5>3, <5>4
      <4>3. k <= SizeofHolding \/ k > SizeofHolding
        BY <1>1, <2>1
      <4>. QED
        BY <4>1, <4>2, <4>3
    <3>. QED
      BY <2>5, <3>1, <3>2, SeqEqual
  <2>8. n \in 1 .. length[irp[1]] /\ Len(Held) + n <= MaxHolding
    BY <1>1, <2>1, <2>2, <2>5
  <2>. QED
    BY <2>1, <2>7, <2>8 DEF Puts, d
<1>7. CASE UseFreed(1)
  BY <1>1, <1>7 DEF UseFreed
<1>. QED
  BY <1>4, <1>5, <1>6, <1>7 DEF Carry

LEMMA DataStep ==
  ASSUME SharedProcessor, QuietInv, QuietInv', Alone, Current, [QuietNext]_vars
  PROVE  \/ Held' = Held /\ UNCHANGED delivered
         \/ Takes \/ Puts
         \/ Held' = <<>> /\ UNCHANGED delivered
<1>1. Alone' /\ Current' /\ HeldIsData /\ HeldIsData'
  BY CurrentStep, HeldShape, HeldShapeNext
<1>2. ASSUME UNCHANGED <<size, bufferVars>>,
             \/ at'[0] = at[0]
             \/ at[0] = "idle" /\ at'[0] = "taken"
      PROVE  Held' = Held /\ UNCHANGED delivered
  <2>1. Left' = Left /\ Behind' = Behind
    BY <1>2 DEF Left, Behind, bufferVars
  <2>. QED
    BY <1>1, <1>2, <2>1, HeldUntouched DEF bufferVars
<1>3. ASSUME NEW p \in Pipes, QuietDequeue(p)
      PROVE  Held' = Held /\ UNCHANGED delivered
  <2>1. UNCHANGED <<size, bufferVars>> /\ at[p] = "idle"
    BY <1>3 DEF QuietDequeue, Dequeue
  <2>2. at' = at \/ at' = [at EXCEPT ![p] = "taken"]
    BY <1>3 DEF QuietDequeue, Dequeue, Goto
  <2>3. at'[0] = at[0] \/ (at[0] = "idle" /\ at'[0] = "taken")
    BY <2>1, <2>2, DataTypes
  <2>. QED
    BY <1>2, <2>1, <2>3
<1>4. CASE Free
  <2>1. Left' = 0 /\ UNCHANGED delivered
    <3>1. at'[0] = "idle"
      BY <1>4
      DEF Free, dpcVars, QuietInv, HoldersOK, RemovalOK, Removed, Quiescent, InHands, Pipes
    <3>. QED
      BY <1>4, <3>1 DEF Free, Left
  <2>2. Held' = <<>>
    BY <1>1, <2>1, EmptySeq DEF HeldIsData
  <2>. QED
    BY <2>1, <2>2
<1>5. ASSUME NEW p \in Pipes, Carry(p)
      PROVE  (Held' = Held /\ UNCHANGED delivered) \/ Takes \/ Puts
  BY <1>1, <1>5, ReadsTake, WritesPut DEF Pipes
<1>6. CASE \/ \E i \in Irps : \/ Submit(i) \/ Enqueue(i) \/ QueueWorkItem(i)
                            \/ WorkItem(i) \/ QuietCancel(i)
           \/ \E p \in Pipes : AbortPipe(p)
           \/ AbortComplete \/ QuietRemove \/ Drain \/ RemoveComplete
           \/ UNCHANGED vars
  <2>1. UNCHANGED <<dpcVars, bufferVars>>
    BY <1>6, OtherSteps
  <2>. QED
    BY <1>2, <2>1 DEF dpcVars
<1>. QED
  BY <1>3, <1>4, <1>5, <1>6 DEF QuietNext

(* A request that is finished stays so.                                      *)
LEMMA FinishedStays ==
  ASSUME QuietInv, [QuietNext]_vars, NEW w \in Writes, Finished(w)
  PROVE  Finished(w)'
<1>. USE DEF Done
<1>0. /\ w \in Irps /\ TypeOK /\ HoldersOK
      /\ status \in [Irps -> {"new", "checked", "pending"} \union Done]
  BY DEF Irps, QuietInv, IInv, TypeOK, ListTypeOK
<1>1. ASSUME NEW i \in Irps, NEW result \in Done, Complete(i, result), status[w] \in Done
      PROVE  status'[w] \in Done
  BY <1>0, <1>1 DEF Complete
<1>2. ASSUME NEW i \in Irps, status[i] \in {"new", "checked"},
             \E value : status' = [status EXCEPT ![i] = value], status[w] \in Done
      PROVE  status'[w] \in Done
  BY <1>0, <1>2
<1>3. ASSUME status[w] \in Done PROVE status'[w] \in Done
  <2>1. CASE status' = status
    BY <1>3, <2>1
  <2>2. ASSUME NEW i \in Irps, Submit(i) PROVE status'[w] \in Done
    BY <1>1, <1>2, <1>3, <2>2 DEF Submit
  <2>3. ASSUME NEW i \in Irps, Enqueue(i) \/ QueueWorkItem(i) PROVE status'[w] \in Done
    BY <1>2, <1>3, <2>3 DEF Enqueue, QueueWorkItem
  <2>4. ASSUME NEW i \in Irps, WorkItem(i) \/ QuietCancel(i) PROVE status'[w] \in Done
    BY <1>1, <1>3, <2>1, <2>4 DEF WorkItem, QuietCancel, Cancel, Halt, listVars
  <2>5. CASE AbortComplete \/ RemoveComplete
    <3>1. /\ aborted # <<>> => Head(aborted) \in Irps
          /\ dequeued # <<>> => Head(dequeued) \in Irps
      BY <1>0 DEF TypeOK, RemoveTypeOK, Irps
    <3>. QED
      BY <1>1, <1>3, <2>5, <3>1 DEF AbortComplete, RemoveComplete
  <2>6. ASSUME NEW p \in Pipes, Carry(p) PROVE status'[w] \in Done
    <3>1. irp[p] \in Irps
      BY <1>0, <2>6, CarryNotRemoved, Distinct DEF TypeOK, DpcTypeOK
    <3>2. (\E result \in Done : Finish(p, result)) \/ status' = status
      BY <2>6
      DEF Carry, Compare, Measure, Copy, Load, Store, Served, MoveDown, TestRemoved,
          Reinsert, UseFreed, Halt, listVars
    <3>. QED
      BY <1>1, <1>3, <2>1, <3>1, <3>2 DEF Finish
  <2>7. ASSUME \/ \E p \in Pipes : AbortPipe(p) \/ QuietDequeue(p)
               \/ QuietRemove \/ Drain \/ Free \/ UNCHANGED vars
        PROVE  status' = status
    BY <2>7 DEF AbortPipe, QuietDequeue, Dequeue, QuietRemove, MarkRemoved, Drain, Free,
                listVars, vars
  <2>. QED
    BY <2>1, <2>2, <2>3, <2>4, <2>5, <2>6, <2>7 DEF QuietNext
<1>4. ASSUME at[1] = "served", irp[1] = w PROVE Finished(w)'
  <2>1. CASE Carry(1)
    <3>1. Finish(1, "success") /\ Carried(w) /\ w \in Transfers
      <4>1. PipeOf(w) = 1 /\ w \in Transfers
        BY DeviceAssumption DEF PipeOf, BulkOut, Transfers
      <4>2. Finish(1, "success")
        BY <1>4, <2>1
        DEF Carry, Compare, Measure, Copy, Load, Store, Served, BulkIn, UseFreed
      <4>. QED
        BY <1>4, <4>1, <4>2 DEF Carried
    <3>2. Complete(w, "success")
      BY <1>4, <3>1 DEF Finish
    <3>3. status'[w] = "success"
      BY <1>0, <3>1, <3>2, Completed
    <3>. QED
      BY <3>3 DEF Finished
  <2>2. CASE ~Carry(1)
    <3>1. at'[1] = at[1] /\ irp'[1] = irp[1]
      <4>1. ASSUME NEW p \in Pipes, QuietDequeue(p) PROVE at'[1] = at[1] /\ irp'[1] = irp[1]
        BY <1>4, <4>1, DataTypes DEF QuietDequeue, Dequeue, Goto
      <4>2. ASSUME Carry(0) PROVE at'[1] = at[1] /\ irp'[1] = irp[1]
        BY <4>2, DataTypes
        DEF Carry, Compare, Measure, Copy, Load, Store, Served, Finish, MoveDown,
            TestRemoved, Reinsert, UseFreed, Halt, dpcVars, Goto, BulkIn
      <4>3. CASE Free
        BY <4>3 DEF Free, dpcVars
      <4>. QED
        BY <2>2, <4>1, <4>2, <4>3, OtherSteps DEF QuietNext, Pipes, dpcVars
    <3>. QED
      BY <1>4, <3>1 DEF Finished
  <2>. QED
    BY <2>1, <2>2
<1>. QED
  BY <1>3, <1>4 DEF Finished

LEMMA ShownStep ==
  ASSUME SharedProcessor, QuietInv, QuietInv', LoopInv, [QuietNext]_vars
  PROVE  ShownOnce'
<1>. SUFFICES ASSUME NEW w \in Writes, Shown(w)' PROVE Finished(w)'
  BY DEF ShownOnce
<1>0. HeldIsData /\ delivered \in Seq(Units)
  BY HeldShape, DataTypes DEF LoopInv
<1>1. ASSUME Shown(w) PROVE Finished(w)'
  BY <1>1, FinishedStays DEF LoopInv, ShownOnce
<1>2. CASE Held' = Held /\ UNCHANGED delivered
  BY <1>1, <1>2 DEF Shown
<1>3. CASE Held' = <<>> /\ UNCHANGED delivered
  BY <1>1, <1>3 DEF Shown
<1>4. CASE Takes
  <2>1. PICK n \in 1 .. Len(Held) :
          /\ delivered' = delivered \o SubSeq(Held, 1, n)
          /\ Held' = SubSeq(Held, n + 1, Len(Held))
    BY <1>4 DEF Takes
  <2>2. /\ Held \in Seq(Units) /\ Len(Held) \in Nat /\ DOMAIN Held = 1 .. Len(Held)
    BY <1>0 DEF HeldIsData
  <2>3. ASSUME NEW i \in DOMAIN Held' PROVE \E j \in DOMAIN Held : Held'[i] = Held[j]
    <3>1. i \in 1 .. Len(Held) - n /\ Held'[i] = Held[n + i]
      BY <2>1, <2>2
    <3>2. n + i \in 1 .. Len(Held)
      BY <2>2, <3>1
    <3>. QED
      BY <2>2, <3>1, <3>2
  <2>4. ASSUME NEW i \in DOMAIN delivered'
        PROVE  \/ \E j \in DOMAIN Held : delivered'[i] = Held[j]
               \/ \E j \in DOMAIN delivered : delivered'[i] = delivered[j]
    <3>. DEFINE got == SubSeq(Held, 1, n)
                m == Len(delivered)
    <3>1. /\ got \in Seq(Units) /\ Len(got) = n
          /\ \A j \in 1 .. n : got[j] = Held[j]
      BY <2>2
    <3>2. m \in Nat /\ DOMAIN delivered = 1 .. m
      BY <1>0
    <3>. HIDE DEF got
    <3>3. /\ i \in 1 .. m + n
          /\ delivered'[i] = IF i <= m THEN delivered[i] ELSE got[i - m]
      BY <1>0, <2>1, <3>1, ConcatProperties DEF got
    <3>. HIDE DEF m
    <3>4. CASE i <= m
      BY <3>2, <3>3, <3>4
    <3>5. CASE i > m
      <4>1. i - m \in 1 .. n
        BY <2>2, <3>2, <3>3, <3>5
      <4>2. delivered'[i] = Held[i - m] /\ i - m \in DOMAIN Held
        BY <2>2, <3>1, <3>2, <3>3, <3>5, <4>1
      <4>. QED
        BY <4>2
    <3>. QED
      BY <3>2, <3>3, <3>4, <3>5
  <2>5. Shown(w)
    BY <2>3, <2>4 DEF Shown
  <2>. QED
    BY <1>1, <2>5
<1>5. CASE Puts
  <2>1. PICK n \in 1 .. length[irp[1]] :
          Held' = Held \o [k \in 1 .. n |-> <<irp[1], k>>]
    BY <1>5 DEF Puts
  <2>2. UNCHANGED <<delivered>> /\ at'[1] = "served" /\ irp'[1] = irp[1]
    BY <1>5 DEF Puts
  <2>3. CASE irp[1] = w
    BY <2>2, <2>3 DEF Finished
  <2>4. CASE irp[1] # w
    <3>. DEFINE d == [k \in 1 .. n |-> <<irp[1], k>>]
                m == Len(Held)
    <3>1. m \in Nat /\ Held \in Seq(Units) /\ DOMAIN Held = 1 .. m
      BY <1>0 DEF HeldIsData
    <3>2. irp[1] \in Writes /\ n \in Nat
      <4>1. irp[1] \in Writes
        BY <1>5, Distinct DEF Puts, QuietInv, IInv, TypeOK, DpcTypeOK, InHands
      <4>. QED
        BY <4>1, DataTypes
    <3>3. /\ d \in Seq(Units) /\ Len(d) = n
          /\ \A j \in 1 .. n : d[j][1] = irp[1]
      BY <3>2 DEF Units
    <3>. HIDE DEF d, m
    <3>4. ASSUME NEW i \in DOMAIN Held', Held'[i][1] = w
          PROVE  i \in DOMAIN Held /\ Held'[i] = Held[i]
      <4>1. /\ i \in 1 .. m + n
            /\ Held'[i] = IF i <= m THEN Held[i] ELSE d[i - m]
        BY <2>1, <3>1, <3>3, ConcatProperties DEF d, m
      <4>2. CASE i > m
        <5>1. i - m \in 1 .. n
          BY <3>1, <3>2, <4>1, <4>2
        <5>2. Held'[i] = d[i - m]
          BY <3>1, <4>1, <4>2
        <5>. QED
          BY <2>4, <3>3, <3>4, <5>1, <5>2
      <4>3. CASE i <= m
        BY <3>1, <4>1, <4>3
      <4>4. i <= m \/ i > m
        BY <3>1, <3>2, <4>1
      <4>. QED
        BY <4>2, <4>3, <4>4
    <3>5. Shown(w)
      BY <2>2, <3>4 DEF Shown
    <3>. QED
      BY <1>1, <3>5
  <2>. QED
    BY <2>3, <2>4
<1>. QED
  BY <1>2, <1>3, <1>4, <1>5, DataStep DEF LoopInv

LEMMA LoopInit == Init => LoopInv
<1>. SUFFICES ASSUME Init PROVE LoopInv
  OBVIOUS
<1>1. Alone /\ Current
  BY DEF Init, Alone, Current, Pipes, InHands
<1>2. Held = <<>> /\ delivered = <<>>
  BY DEF Init, Held, BulkIn, Pipes
<1>. QED
  BY <1>1, <1>2 DEF LoopInv, ShownOnce, Shown

LEMMA LoopInvariant ==
  ASSUME SharedProcessor
  PROVE  QuietSpec => []LoopInv
<1>1. Init => LoopInv
  BY LoopInit
<1>2. QuietInv /\ QuietInv' /\ LoopInv /\ [QuietNext]_vars => LoopInv'
  BY CurrentStep, ShownStep DEF LoopInv
<1>3. QuietSpec => Init /\ [][QuietNext]_vars
  BY DEF QuietSpec
<1>. QED
  BY <1>1, <1>2, <1>3, QuietInvariant, PTL

LEMMA PipeStep ==
  ASSUME SharedProcessor, QuietInv, QuietInv', LoopInv, [QuietNext]_vars
  PROVE  [Pipe!PipeNext]_(Pipe!pipeVars)
<1>. DEFINE wants == [w \in Writes |-> length[w]]
<1>1. UNCHANGED wants
  <2>1. length' = length
    BY OtherSteps, CarryAlone
    DEF QuietNext, QuietDequeue, Dequeue, Free, listVars, LoopInv
  <2>. QED
    BY <2>1
<1>2. CASE Held' = Held /\ UNCHANGED delivered
  BY <1>1, <1>2 DEF Pipe!pipeVars
<1>3. CASE Held' = <<>> /\ UNCHANGED delivered
  BY <1>1, <1>3 DEF Pipe!PipeNext, Pipe!Discard
<1>4. CASE Takes
  BY <1>1, <1>4 DEF Takes, Pipe!PipeNext, Pipe!Take
<1>5. CASE Puts
  <2>. DEFINE w == irp[1]
  <2>1. w \in Writes /\ w \in Transfers /\ Carried(w)
    <3>1. w \in Writes
      BY <1>5, Distinct DEF Puts, QuietInv, IInv, TypeOK, DpcTypeOK, InHands
    <3>2. PipeOf(w) = 1
      BY <3>1, DeviceAssumption DEF PipeOf, BulkOut
    <3>. QED
      BY <3>1, <3>2 DEF Transfers, Carried
  <2>2. ~Finished(w)
    <3>1. status[w] = "pending"
      BY <2>1 DEF QuietInv, HoldersOK, Placed
    <3>. QED
      BY <1>5, <3>1 DEF Puts, Finished, Done
  <2>3. ~Shown(w)
    BY <2>1, <2>2 DEF LoopInv, ShownOnce
  <2>4. ~Pipe!Appears(w, Held \o delivered)
    <3>1. /\ Held \in Seq(Units) /\ delivered \in Seq(Units)
      BY HeldShape, DataTypes DEF LoopInv, HeldIsData
    <3>2. ASSUME NEW i \in DOMAIN (Held \o delivered)
          PROVE  (Held \o delivered)[i][1] # w
      <4>. DEFINE m == Len(Held)
                  n == Len(delivered)
      <4>1. /\ m \in Nat /\ n \in Nat /\ DOMAIN Held = 1 .. m
            /\ DOMAIN delivered = 1 .. n
        BY <3>1
      <4>2. /\ i \in 1 .. m + n
            /\ (Held \o delivered)[i] = IF i <= m THEN Held[i] ELSE delivered[i - m]
        BY <3>1, ConcatProperties
      <4>. HIDE DEF m, n
      <4>3. i <= m => i \in DOMAIN Held
        BY <4>1, <4>2
      <4>4. i > m => i - m \in DOMAIN delivered
        BY <4>1, <4>2
      <4>5. i <= m \/ i > m
        BY <4>1, <4>2
      <4>6. (Held \o delivered)[i] = IF i <= m THEN Held[i] ELSE delivered[i - m]
        BY <4>2
      <4>7. i > m => ~ (i <= m)
        BY <4>1, <4>2
      <4>. QED
        BY <2>3, <4>3, <4>4, <4>5, <4>6, <4>7 DEF Shown
    <3>. QED
      BY <3>2 DEF Pipe!Appears
  <2>5. Pipe!Put(w)
    BY <1>1, <1>5, <2>1, <2>4 DEF Puts, Pipe!Put
  <2>. QED
    BY <2>1, <2>5 DEF Pipe!PipeNext
<1>. QED
  BY <1>2, <1>3, <1>4, <1>5, DataStep DEF LoopInv

(* Where the timers' DPCs share a processor the pipes implement a bounded    *)
(* first-in first-out pipe: no byte is lost, repeated, reordered or made up  *)
(* by partial writes, partial reads and the moves of the buffer, whatever is *)
(* cancelled, aborted or removed meanwhile (Driver.c:1348).                  *)
THEOREM ImplementsPipe ==
  ASSUME SharedProcessor
  PROVE  QuietSpec => LoopsBack
<1>1. Init => Pipe!PipeInit
  <2>. SUFFICES ASSUME Init PROVE Pipe!PipeInit
    OBVIOUS
  <2>1. [w \in Writes |-> length[w]] \in [Writes -> Nat]
    BY DeviceAssumption DEF Init
  <2>2. Held = <<>> /\ delivered = <<>>
    BY DEF Init, Held, BulkIn, Pipes
  <2>. QED
    BY <2>1, <2>2 DEF Pipe!PipeInit
<1>2. QuietInv /\ QuietInv' /\ LoopInv /\ [QuietNext]_vars
        => [Pipe!PipeNext]_(Pipe!pipeVars)
  BY PipeStep
<1>3. QuietSpec => Init /\ [][QuietNext]_vars
  BY DEF QuietSpec
<1>. QED
  BY <1>1, <1>2, <1>3, QuietInvariant, LoopInvariant, PTL DEF LoopsBack, Pipe!PipeSpec

=============================================================================
