-------------------------- MODULE OrderlyUse_proofs --------------------------
(***************************************************************************)
(* Theorems about OrderlyUse for any number of connections, slots and      *)
(* button positions, whatever uninitialised memory holds: the promises     *)
(* OrderlyUse makes, and that it implements InputFocus.                    *)
(***************************************************************************)
EXTENDS OrderlyUse, PassUServer_proofs

-----------------------------------------------------------------------------
(* The invariant.                                                            *)

(* The clients that have said hello are numbered by their places in the list *)
(* of sockets; one that has not is the last.  A slot stays free, so that the *)
(* last client's sizes never land on dllWnd.                                 *)
Numbered ==
  /\ Len(m_pSockList) < NSlots
  /\ registered = {i \in 1 .. Len(m_pSockList) : phase[m_pSockList[i]] # "accepted"}
  /\ \A i \in 1 .. Len(m_pSockList) :
       IF phase[m_pSockList[i]] = "accepted"
         THEN i = Len(m_pSockList)
         ELSE /\ c_id[m_pSockList[i]] = i
              /\ told[m_pSockList[i]] = i
              /\ screen[i] = m_pSockList[i]

(* The list control offers each client of the table at most once, and the    *)
(* item the user drags is in it.                                             *)
Offered ==
  /\ NoRepeats(waiting)
  /\ ToSet(waiting) \subseteq registered
  /\ m_nSource # 0 => m_nSource \in DOMAIN waiting

(* A client is on one button at most, the one its position names.            *)
Seated ==
  \A b \in Buttons :
    btn_Bind[b] # 0 => btn_Bind[b] \in registered /\ position[btn_Bind[b]] = b

(* Dialog and DLL agree: on the bindings, on the pointer's cell, and on when *)
(* input is withheld, which is while the pointer is on a client.             *)
Agreed ==
  /\ dllWnd
  /\ refused = <<>>
  /\ hookBind = btn_Bind
  /\ hooks > 0 => hookPoint = whereisPoint
  /\ BLOCK => hooks > 0
  /\ BLOCK <=> whereisPoint \in Sides
  /\ BLOCK <=> m_allowSend
  /\ BLOCK => btn_Bind[ButtonOf(whereisPoint)] # 0

OrderlyInv == TypeOK /\ SockListOK /\ Numbered /\ Offered /\ Seated /\ Agreed

-----------------------------------------------------------------------------
(* The steps of an orderly use are steps of the server.                      *)
LEMMA OrderlyIsAServer == [OrderlyNext]_vars => [Next]_vars
BY DEF OrderlyNext, OrderlyStop, OrderlyAccept, OrderlyHello, OrderlyClose,
       OrderlyDrop, OrderlyAnswer, Next, HelloNext

-----------------------------------------------------------------------------
(* Consequences of the invariant.                                            *)

(* A search that succeeds returns the first socket with the id.              *)
LEMMA SearchFindsFirst ==
  ASSUME m_pSockList \in Seq(Sockets), NEW id,
         NEW n \in 1 .. Len(m_pSockList), c_id[m_pSockList[n]] = id,
         \A j \in 1 .. Len(m_pSockList) : j < n => c_id[m_pSockList[j]] # id
  PROVE  SearchSocket(id) = m_pSockList[n]
<1>. DEFINE I == {i \in 1 .. Len(m_pSockList) : c_id[m_pSockList[i]] = id}
<1>1. I \subseteq Nat /\ n \in I
  OBVIOUS
<1>2. Min(I) \in I /\ Min(I) <= n
  BY <1>1, MinIsLeast
<1>3. Min(I) = n
  BY <1>2
<1>4. SelectInSeq(m_pSockList, LAMBDA s : c_id[s] = id) = Min(I)
  BY <1>1 DEF SelectInSeq
<1>. HIDE DEF I
<1>. QED
  BY <1>3, <1>4 DEF SearchSocket

(* An id of the table is found at its own place in the list.                 *)
LEMMA SearchFindsClient ==
  ASSUME TypeOK, SockListOK, Numbered, NEW id \in registered
  PROVE  /\ id \in 1 .. Len(m_pSockList)
         /\ SearchSocket(id) = m_pSockList[id]
         /\ m_pSockList[id] \in Connected
         /\ c_id[m_pSockList[id]] = id
<1>1. id \in 1 .. Len(m_pSockList) /\ c_id[m_pSockList[id]] = id
  BY DEF Numbered
<1>2. ASSUME NEW j \in 1 .. Len(m_pSockList), j < id PROVE c_id[m_pSockList[j]] # id
  BY <1>1, <1>2 DEF Numbered, TypeOK
<1>3. SearchSocket(id) = m_pSockList[id]
  BY <1>1, <1>2, SearchFindsFirst DEF TypeOK
<1>4. m_pSockList[id] \in Connected
  BY <1>1 DEF SockListOK, ToSet, TypeOK
<1>. QED
  BY <1>1, <1>3, <1>4

(* The place of an open connection that has said hello is its id.            *)
LEMMA PlaceOfSocket ==
  ASSUME TypeOK, SockListOK, Numbered, NEW s \in Connected, phase[s] # "accepted"
  PROVE  /\ c_id[s] \in registered
         /\ told[s] = c_id[s]
         /\ screen[c_id[s]] = s
<1>1. PICK i \in 1 .. Len(m_pSockList) : m_pSockList[i] = s
  BY DEF SockListOK, ToSet, TypeOK
<1>. QED
  BY <1>1 DEF Numbered

-----------------------------------------------------------------------------
(* What the two steps that work on the table do in an orderly use.           *)

(* The hello of the last socket in the list takes the slot of its place, and *)
(* its own socket gets the id.                                               *)
LEMMA HelloInOrder ==
  ASSUME TypeOK, SockListOK, Numbered, NEW s \in Sockets, OrderlyHello(s),
         NEW n, n = Len(m_pSockList)
  PROVE  /\ n \in 1 .. NSlots - 1
         /\ m_pSockList[n] = s
         /\ \A i \in 1 .. n : m_pSockList[i] = s => i = n
         /\ registered = 1 .. n - 1
         /\ registered' = registered \union {n}
         /\ phase' = [phase EXCEPT ![s] = "helloed"]
         /\ c_id' = [c_id EXCEPT ![s] = n]
         /\ told' = [told EXCEPT ![s] = n]
         /\ screen' = [screen EXCEPT ![n] = s]
         /\ waiting' = <<n>> \o waiting
         /\ m_nSource = 0
         /\ IF n = 1 THEN InstallHooks ELSE UNCHANGED hookVars
         /\ UNCHANGED <<m_pSockList, position, btn_Bind, refused, dllWnd, gestureVars,
                        pointerVars, timerVars>>
<1>1. PICK status \in Statuses \intersect KnownStatuses : Hello(s, status)
  BY DEF OrderlyHello
<1>2. phase[s] = "accepted" /\ s \in Connected
  BY <1>1 DEF Hello, HelloArrives, Connected
<1>3. /\ n \in 1 .. NSlots - 1
      /\ m_pSockList[n] = s
      /\ \A i \in 1 .. n : m_pSockList[i] = s => i = n
  <2>1. PICK i \in 1 .. Len(m_pSockList) : m_pSockList[i] = s
    BY <1>2 DEF SockListOK, ToSet, TypeOK
  <2>2. \A j \in 1 .. Len(m_pSockList) : m_pSockList[j] = s => j = Len(m_pSockList)
    BY <1>2 DEF Numbered
  <2>3. Len(m_pSockList) \in Nat /\ NSlots \in Nat
    BY ServerAssumption DEF TypeOK
  <2>. QED
    BY <2>1, <2>2, <2>3 DEF Numbered
<1>4. registered = 1 .. n - 1
  <2>1. \A i \in 1 .. n : phase[m_pSockList[i]] = "accepted" <=> i = n
    BY <1>2, <1>3 DEF Numbered
  <2>2. 1 .. n - 1 = {i \in 1 .. n : i # n}
    BY <1>3
  <2>. QED
    BY <2>1, <2>2 DEF Numbered
<1>5. FirstFree = n
  <2>1. Slots \ registered \subseteq Nat /\ n \in Slots \ registered
    BY <1>3, <1>4, ServerAssumption DEF Slots
  <2>2. FirstFree \in Slots \ registered /\ FirstFree <= n
    BY <2>1, MinIsLeast DEF FirstFree
  <2>3. \A k \in Slots \ registered : k <= n => k = n
    BY <1>3, <1>4, ServerAssumption DEF Slots
  <2>. QED
    BY <2>2, <2>3
<1>6. n # NSlots /\ status \in KnownStatuses
  BY <1>3, ServerAssumption
<1>7. /\ registered' = registered \union {n}
      /\ c_id' = [c_id EXCEPT ![s] = n]
      /\ told' = [told EXCEPT ![s] = n]
      /\ screen' = [screen EXCEPT ![n] = s]
      /\ waiting' = <<n>> \o waiting
      /\ dllWnd' = dllWnd
      /\ refused' = refused
  <2>1. dllWnd' = (dllWnd /\ n # NSlots)
    BY <1>1, <1>5, Zenon DEF Hello
  <2>2. dllWnd' = dllWnd
    BY <1>6, <2>1 DEF TypeOK
  <2>. QED
    BY <1>1, <1>3, <1>5, <1>6, <2>2 DEF Hello
<1>8. /\ phase' = [phase EXCEPT ![s] = "helloed"]
      /\ IF n = 1 THEN InstallHooks ELSE UNCHANGED hookVars
      /\ UNCHANGED <<m_pSockList, position, btn_Bind, m_nSource, asking,
                     pointerVars, timerVars>>
  BY <1>1 DEF Hello, HelloArrives
<1>. QED
  BY <1>3, <1>4, <1>7, <1>8 DEF OrderlyHello, gestureVars

(* The last socket in the list leaves and frees the slot of its place.       *)
LEMMA CloseInOrder ==
  ASSUME TypeOK, SockListOK, Numbered, dllWnd, NEW s \in Sockets, OrderlyClose(s),
         NEW n, n = Len(m_pSockList)
  PROVE  /\ n \in 1 .. NSlots - 1
         /\ m_pSockList[n] = s
         /\ c_id[s] = n
         /\ registered = 1 .. n
         /\ Len(m_pSockList') = n - 1
         /\ \A i \in 1 .. n - 1 : m_pSockList'[i] = m_pSockList[i] /\ m_pSockList[i] # s
         /\ registered' = registered \ {n}
         /\ phase' = [phase EXCEPT ![s] = "closed"]
         /\ waiting' = RemoveFirst(waiting, n)
         /\ position[n] \in Buttons
         /\ position' = [position EXCEPT ![n] = 0]
         /\ btn_Bind' = [btn_Bind EXCEPT ![position[n]] = 0]
         /\ ChildClose(position[n])
         /\ m_nSource = 0
         /\ m_allowSend' = FALSE
         /\ whereisPoint' = Centre
         /\ UNCHANGED <<c_id, told, screen, dllWnd, gestureVars>>
<1>1. s \in Connected /\ phase[s] # "accepted" /\ s = Last(m_pSockList) /\ CloseChild(s)
  BY DEF OrderlyClose
<1>2. /\ n \in 1 .. NSlots - 1
      /\ m_pSockList[n] = s
      /\ \A i \in 1 .. n - 1 : m_pSockList[i] # s
  <2>1. PICK i \in 1 .. Len(m_pSockList) : m_pSockList[i] = s
    BY <1>1 DEF SockListOK, ToSet, TypeOK
  <2>2. Len(m_pSockList) \in Nat /\ NSlots \in Nat
    BY ServerAssumption DEF TypeOK
  <2>3. n \in 1 .. NSlots - 1
    BY <2>1, <2>2 DEF Numbered
  <2>4. m_pSockList[n] = s
    BY <1>1 DEF Last
  <2>5. DOMAIN m_pSockList = 1 .. n
    BY DEF TypeOK
  <2>. QED
    BY <2>3, <2>4, <2>5 DEF SockListOK, NoRepeats
<1>3. c_id[s] = n /\ registered = 1 .. n
  <2>1. \A i \in 1 .. n : phase[m_pSockList[i]] # "accepted"
    BY <1>1, <1>2 DEF Numbered
  <2>. QED
    BY <1>1, <1>2, <2>1 DEF Numbered
<1>4. SlotOf(c_id[s]) = n /\ n # 0
  BY <1>2, <1>3 DEF SlotOf
<1>5. n \in Slots /\ n \in registered
  BY <1>2, <1>3, ServerAssumption DEF Slots
<1>6. position[n] \in Buttons
  BY <1>5 DEF TypeOK
<1>7. /\ Len(m_pSockList') = n - 1
      /\ \A i \in 1 .. n - 1 : m_pSockList'[i] = m_pSockList[i]
  <2>1. n \in 1 .. Len(m_pSockList) /\ m_pSockList \in Seq(Sockets)
    BY <1>2 DEF TypeOK
  <2>2. m_pSockList' = RemoveAt(m_pSockList, n)
    BY <1>1, <1>2, <2>1, RemoveFirstPlace DEF CloseChild, SockListOK
  <2>3. /\ Len(RemoveAt(m_pSockList, n)) = n - 1
        /\ \A i \in 1 .. n - 1 :
             RemoveAt(m_pSockList, n)[i] = IF i < n THEN m_pSockList[i] ELSE m_pSockList[i + 1]
    BY <2>1, RemoveAtElements
  <2>4. \A i \in 1 .. n - 1 : i < n
    BY <1>2
  <2>. QED
    BY <2>2, <2>3, <2>4
<1>. QED
  BY <1>1, <1>2, <1>3, <1>4, <1>5, <1>6, <1>7
  DEF OrderlyClose, CloseChild, SendToHook, ItemsWithout, gestureVars

-----------------------------------------------------------------------------
(* The steps keep the invariant.                                             *)

LEMMA NumberedStep ==
  ASSUME TypeOK, SockListOK, Numbered, dllWnd, [OrderlyNext]_vars
  PROVE  Numbered'
<1>. USE DEF peerVars, tableVars
<1>1. ASSUME UNCHANGED <<m_pSockList, registered, c_id, told, screen>>,
             \A t \in Connected : phase'[t] = "accepted" <=> phase[t] = "accepted"
      PROVE  Numbered'
  <2>1. \A i \in 1 .. Len(m_pSockList) : m_pSockList[i] \in Connected
    BY DEF SockListOK, ToSet, TypeOK
  <2>. QED
    BY <1>1, <2>1 DEF Numbered
<1>2. CASE OrderlyStop
  <2>1. m_pSockList' = <<>> /\ registered' = {}
    BY <1>2 DEF OrderlyStop, Stop
  <2>. QED
    BY <2>1, ServerAssumption DEF Numbered
<1>3. ASSUME NEW s \in Sockets, OrderlyAccept(s) PROVE Numbered'
  <2>. DEFINE n == Len(m_pSockList)
  <2>1. /\ \A t \in Sockets : phase[t] # "accepted"
        /\ n + 1 < NSlots
        /\ m_pSockList' = Append(m_pSockList, s)
        /\ phase' = [phase EXCEPT ![s] = "accepted"]
        /\ phase[s] = "new"
        /\ UNCHANGED <<registered, c_id, told, screen>>
    BY <1>3 DEF OrderlyAccept, Accept
  <2>2. /\ Len(m_pSockList') = n + 1
        /\ m_pSockList'[n + 1] = s
        /\ \A i \in 1 .. n : m_pSockList'[i] = m_pSockList[i]
        /\ n \in Nat
    BY <2>1 DEF TypeOK
  <2>3. \A i \in 1 .. n : m_pSockList[i] \in Connected
    BY DEF SockListOK, ToSet, TypeOK
  <2>4. /\ \A i \in 1 .. n : phase'[m_pSockList[i]] = phase[m_pSockList[i]]
        /\ \A i \in 1 .. n : phase[m_pSockList[i]] # "accepted"
        /\ phase'[s] = "accepted"
    BY <2>1, <2>3 DEF Connected, TypeOK
  <2>. HIDE DEF n
  <2>5. registered' = {i \in 1 .. n + 1 : phase'[m_pSockList'[i]] # "accepted"}
    <3>1. registered = 1 .. n
      BY <2>4 DEF Numbered, n
    <3>2. \A i \in 1 .. n + 1 : phase'[m_pSockList'[i]] # "accepted" <=> i \in 1 .. n
      BY <2>2, <2>4
    <3>. QED
      BY <2>1, <2>2, <3>1, <3>2
  <2>6. ASSUME NEW i \in 1 .. n + 1
        PROVE  IF phase'[m_pSockList'[i]] = "accepted"
                 THEN i = n + 1
                 ELSE /\ c_id'[m_pSockList'[i]] = i
                      /\ told'[m_pSockList'[i]] = i
                      /\ screen'[i] = m_pSockList'[i]
    BY <2>1, <2>2, <2>4 DEF Numbered, n
  <2>. QED
    BY <2>1, <2>2, <2>5, <2>6 DEF Numbered
<1>4. ASSUME NEW s \in Sockets, OrderlyHello(s) PROVE Numbered'
  <2>. DEFINE n == Len(m_pSockList)
  <2>1. /\ n \in 1 .. NSlots - 1
        /\ m_pSockList[n] = s
        /\ \A i \in 1 .. n : m_pSockList[i] = s => i = n
        /\ registered = 1 .. n - 1
        /\ registered' = registered \union {n}
        /\ phase' = [phase EXCEPT ![s] = "helloed"]
        /\ c_id' = [c_id EXCEPT ![s] = n]
        /\ told' = [told EXCEPT ![s] = n]
        /\ screen' = [screen EXCEPT ![n] = s]
        /\ m_pSockList' = m_pSockList
    BY <1>4, HelloInOrder
  <2>2. \A i \in 1 .. n : m_pSockList[i] \in Sockets
    BY DEF TypeOK
  <2>3. n \in DOMAIN screen /\ \A i \in 1 .. n - 1 : i # n /\ i \in DOMAIN screen
    <3>1. DOMAIN screen = (1 .. NSlots) \ {NSlots}
      BY DEF TypeOK, Slots
    <3>2. n \in 1 .. NSlots - 1
      BY <2>1
    <3>. QED
      BY <3>1, <3>2, ServerAssumption
  <2>4. \A i \in 1 .. n : i \in registered <=> phase[m_pSockList[i]] # "accepted"
    BY DEF Numbered
  <2>5. ASSUME NEW i \in 1 .. n
        PROVE  /\ phase'[m_pSockList'[i]] # "accepted"
               /\ c_id'[m_pSockList'[i]] = i
               /\ told'[m_pSockList'[i]] = i
               /\ screen'[i] = m_pSockList'[i]
    <3>1. CASE i = n
      BY <2>1, <2>2, <2>3, <3>1 DEF TypeOK
    <3>2. CASE i # n
      <4>1. i \in registered /\ m_pSockList[i] # s
        BY <2>1, <3>2
      <4>2. phase[m_pSockList[i]] # "accepted"
        BY <2>4, <4>1
      <4>. QED
        BY <2>1, <2>2, <3>2, <4>1, <4>2 DEF Numbered, TypeOK
    <3>. QED
      BY <3>1, <3>2
  <2>6. registered' = 1 .. n
    BY <2>1
  <2>. QED
    BY <2>1, <2>5, <2>6 DEF Numbered
<1>5. ASSUME NEW s \in Sockets, Bye(s) PROVE Numbered'
  BY <1>1, <1>5 DEF Bye, Connected, TypeOK
<1>6. ASSUME NEW s \in Sockets, OrderlyClose(s) PROVE Numbered'
  <2>. DEFINE n == Len(m_pSockList)
  <2>1. /\ n \in 1 .. NSlots - 1
        /\ registered = 1 .. n
        /\ registered' = registered \ {n}
        /\ Len(m_pSockList') = n - 1
        /\ \A i \in 1 .. n - 1 : m_pSockList'[i] = m_pSockList[i] /\ m_pSockList[i] # s
        /\ phase' = [phase EXCEPT ![s] = "closed"]
        /\ UNCHANGED <<c_id, told, screen>>
    BY <1>6, CloseInOrder
  <2>2. ASSUME NEW i \in 1 .. n - 1
        PROVE  /\ phase'[m_pSockList'[i]] # "accepted"
               /\ c_id'[m_pSockList'[i]] = i
               /\ told'[m_pSockList'[i]] = i
               /\ screen'[i] = m_pSockList'[i]
    <3>1. i \in registered
      BY <2>1
    <3>2. /\ m_pSockList[i] \in Sockets
          /\ phase[m_pSockList[i]] # "accepted"
          /\ c_id[m_pSockList[i]] = i
          /\ told[m_pSockList[i]] = i
          /\ screen[i] = m_pSockList[i]
      BY <2>1, <3>1 DEF Numbered, TypeOK
    <3>3. /\ m_pSockList'[i] = m_pSockList[i] /\ m_pSockList[i] # s
          /\ phase' = [phase EXCEPT ![s] = "closed"] /\ UNCHANGED <<c_id, told, screen>>
      BY <2>1
    <3>4. phase \in [Sockets -> {"new", "accepted", "helloed", "bye", "closed"}]
      BY DEF TypeOK
    <3>5. phase'[m_pSockList[i]] = phase[m_pSockList[i]]
      BY <3>2, <3>3, <3>4
    <3>. HIDE DEF n
    <3>. QED
      BY <3>2, <3>3, <3>5
  <2>3. registered' = 1 .. n - 1 /\ n - 1 < NSlots
    BY <2>1, ServerAssumption
  <2>. HIDE DEF n
  <2>4. registered' = {i \in 1 .. n - 1 : phase'[m_pSockList'[i]] # "accepted"}
    BY <2>2, <2>3
  <2>. QED
    BY <2>1, <2>2, <2>3, <2>4 DEF Numbered
<1>7. CASE Start \/ DropOutside \/ OrderlyAnswer \/ TwoSecondsPass \/ OnTimer
  BY <1>1, <1>7
  DEF Start, DropOutside, OrderlyAnswer, AnswerYes, AnswerNo, TwoSecondsPass, OnTimer
<1>8. CASE \/ \E k \in 1 .. NSlots : BeginDrag(k)
           \/ \E b \in DropTargets : OrderlyDrop(b)
           \/ \E e \in Sides :
                ClickButton(ButtonOf(e)) \/ CrossToClient(e) \/ CrossToServer(e)
  BY <1>1, <1>8
  DEF BeginDrag, OrderlyDrop, DropOn, ClickButton, CrossToClient, CrossToServer
<1>9. CASE UNCHANGED vars
  BY <1>1, <1>9 DEF vars
<1>. QED
  BY <1>2, <1>3, <1>4, <1>5, <1>6, <1>7, <1>8, <1>9 DEF OrderlyNext

LEMMA OfferedStep ==
  ASSUME TypeOK, SockListOK, Numbered, dllWnd, Offered, [OrderlyNext]_vars
  PROVE  Offered'
<1>. USE DEF tableVars, gestureVars
<1>1. ASSUME UNCHANGED <<waiting, registered>>, m_nSource' \in {0, m_nSource}
      PROVE  Offered'
  BY <1>1 DEF Offered
<1>2. CASE OrderlyStop
  BY <1>2 DEF OrderlyStop, Stop, Offered, NoRepeats, ToSet
<1>3. ASSUME NEW s \in Sockets, OrderlyHello(s) PROVE Offered'
  <2>. DEFINE n == Len(m_pSockList)
  <2>1. /\ n \in 1 .. NSlots - 1
        /\ registered = 1 .. n - 1
        /\ registered' = registered \union {n}
        /\ waiting' = <<n>> \o waiting
        /\ m_nSource' = 0
    BY <1>3, HelloInOrder
  <2>. HIDE DEF n
  <2>. n \in Slots /\ n \notin registered
    BY <2>1, ServerAssumption DEF Slots
  <2>2. n \notin ToSet(waiting)
    BY <2>1 DEF Offered
  <2>3. NoRepeats(waiting') /\ ToSet(waiting') = ToSet(waiting) \union {n}
    BY <2>1, <2>2, PrependElements DEF Offered, TypeOK
  <2>. QED
    BY <2>1, <2>3 DEF Offered
<1>4. ASSUME NEW s \in Sockets, OrderlyClose(s) PROVE Offered'
  <2>. DEFINE n == Len(m_pSockList)
  <2>1. /\ registered' = registered \ {n}
        /\ waiting' = RemoveFirst(waiting, n)
        /\ m_nSource' = 0
    BY <1>4, CloseInOrder
  <2>2. NoRepeats(waiting') /\ ToSet(waiting') = ToSet(waiting) \ {n}
    BY <2>1, RemoveFirstElements DEF Offered, TypeOK
  <2>. QED
    BY <2>1, <2>2 DEF Offered
<1>5. ASSUME NEW k \in 1 .. NSlots, BeginDrag(k) PROVE Offered'
  BY <1>5 DEF BeginDrag, Offered
<1>6. CASE Start \/ DropOutside \/ OrderlyAnswer \/ TwoSecondsPass \/ OnTimer
  BY <1>1, <1>6
  DEF Start, DropOutside, OrderlyAnswer, AnswerYes, AnswerNo, TwoSecondsPass, OnTimer
<1>7. CASE \/ \E s \in Sockets : OrderlyAccept(s) \/ Bye(s)
           \/ \E b \in DropTargets : OrderlyDrop(b)
           \/ \E e \in Sides :
                ClickButton(ButtonOf(e)) \/ CrossToClient(e) \/ CrossToServer(e)
  BY <1>1, <1>7
  DEF OrderlyAccept, Accept, Bye, OrderlyDrop, DropOn, ClickButton, CrossToClient,
      CrossToServer
<1>8. CASE UNCHANGED vars
  BY <1>1, <1>8 DEF vars
<1>. QED
  BY <1>2, <1>3, <1>4, <1>5, <1>6, <1>7, <1>8 DEF OrderlyNext

LEMMA SeatedStep ==
  ASSUME TypeOK, SockListOK, Numbered, dllWnd, Offered, Seated, [OrderlyNext]_vars
  PROVE  Seated'
<1>. USE DEF tableVars
<1>1. ASSUME UNCHANGED <<btn_Bind, position>>, registered \subseteq registered'
      PROVE  Seated'
  BY <1>1 DEF Seated
<1>2. CASE OrderlyStop
  BY <1>2 DEF OrderlyStop, Stop, Seated
<1>3. ASSUME NEW s \in Sockets, OrderlyHello(s) PROVE Seated'
  BY <1>1, <1>3, HelloInOrder
<1>4. ASSUME NEW s \in Sockets, OrderlyClose(s) PROVE Seated'
  <2>. DEFINE n == Len(m_pSockList)
  <2>1. /\ registered' = registered \ {n}
        /\ position' = [position EXCEPT ![n] = 0]
        /\ btn_Bind' = [btn_Bind EXCEPT ![position[n]] = 0]
    BY <1>4, CloseInOrder
  <2>. HIDE DEF n
  <2>2. ASSUME NEW b \in Buttons, btn_Bind'[b] # 0
        PROVE  btn_Bind'[b] \in registered' /\ position'[btn_Bind'[b]] = b
    <3>1. btn_Bind[b] # 0 /\ b # position[n] /\ btn_Bind'[b] = btn_Bind[b]
      BY <2>1, <2>2 DEF TypeOK
    <3>2. btn_Bind[b] \in registered /\ position[btn_Bind[b]] = b
      BY <3>1 DEF Seated
    <3>. QED
      BY <2>1, <3>1, <3>2 DEF TypeOK
  <2>. QED
    BY <2>2 DEF Seated
<1>5. ASSUME NEW b \in DropTargets, OrderlyDrop(b) PROVE Seated'
  <2>1. Dragged \in registered
    BY <1>5 DEF OrderlyDrop, DropOn, Dragged, Offered, ToSet
  <2>. DEFINE d == Dragged
  <2>2. /\ btn_Bind' = [btn_Bind EXCEPT ![b] = d]
        /\ position' = [i \in Slots |-> IF i = d THEN b ELSE position[i]]
        /\ registered' = registered
        /\ \A c \in Buttons : btn_Bind[c] # d
        /\ d \in registered
        /\ registered \subseteq Slots
    BY <1>5, <2>1 DEF OrderlyDrop, DropOn, PositionAfter, Placed, TypeOK
  <2>. HIDE DEF d
  <2>3. ASSUME NEW c \in Buttons, btn_Bind'[c] # 0
        PROVE  btn_Bind'[c] \in registered' /\ position'[btn_Bind'[c]] = c
    <3>1. CASE c = b
      BY <2>2, <3>1 DEF TypeOK
    <3>2. CASE c # b
      <4>1. btn_Bind'[c] = btn_Bind[c]
        BY <2>2, <3>2 DEF TypeOK
      <4>2. btn_Bind[c] \in registered /\ position[btn_Bind[c]] = c
        BY <2>3, <4>1 DEF Seated
      <4>. QED
        BY <2>2, <4>1, <4>2
    <3>. QED
      BY <3>1, <3>2
  <2>. QED
    BY <2>3 DEF Seated
<1>6. CASE AnswerYes
  BY <1>6 DEF AnswerYes, Seated, TypeOK
<1>7. CASE Start \/ DropOutside \/ AnswerNo \/ TwoSecondsPass \/ OnTimer
  BY <1>1, <1>7 DEF Start, DropOutside, AnswerNo, TwoSecondsPass, OnTimer
<1>8. CASE \/ \E s \in Sockets : OrderlyAccept(s) \/ Bye(s)
           \/ \E k \in 1 .. NSlots : BeginDrag(k)
           \/ \E e \in Sides :
                ClickButton(ButtonOf(e)) \/ CrossToClient(e) \/ CrossToServer(e)
  BY <1>1, <1>8
  DEF OrderlyAccept, Accept, Bye, BeginDrag, ClickButton, CrossToClient, CrossToServer
<1>9. CASE UNCHANGED vars
  BY <1>1, <1>9 DEF vars
<1>. QED
  BY <1>2, <1>3, <1>4, <1>5, <1>6, <1>7, <1>8, <1>9 DEF OrderlyNext, OrderlyAnswer

LEMMA AgreedStep ==
  ASSUME OrderlyInv, [OrderlyNext]_vars
  PROVE  Agreed'
<1>. USE DEF OrderlyInv, Withheld, hookVars, pointerVars, gestureVars, tableVars
<1>1. ASSUME UNCHANGED <<hookVars, btn_Bind, whereisPoint, m_allowSend, refused, dllWnd>>
      PROVE  Agreed'
  BY <1>1 DEF Agreed
<1>2. ASSUME ~ BLOCK, UNCHANGED <<hooks, hookPoint, whereisPoint, m_allowSend, refused, dllWnd>>,
             ~ BLOCK', hookBind' = btn_Bind'
      PROVE  Agreed'
  BY <1>2 DEF Agreed
<1>3. CASE OrderlyStop
  <2>1. /\ btn_Bind = [b \in Buttons |-> 0]
        /\ btn_Bind' = [b \in Buttons |-> 0]
        /\ InputDeviceTrue
        /\ ~ Withheld
        /\ UNCHANGED <<whereisPoint, m_allowSend, refused, dllWnd>>
    BY <1>3 DEF OrderlyStop, Stop, SendToHook, UserCanAct, Agreed, TypeOK
  <2>. QED
    BY <1>2, <2>1 DEF InputDeviceTrue, Agreed
<1>4. ASSUME NEW s \in Sockets, OrderlyHello(s) PROVE Agreed'
  <2>. DEFINE n == Len(m_pSockList)
  <2>1. /\ registered = 1 .. n - 1
        /\ IF n = 1 THEN InstallHooks ELSE UNCHANGED hookVars
        /\ UNCHANGED <<btn_Bind, whereisPoint, m_allowSend, refused, dllWnd>>
    BY <1>4, HelloInOrder
  <2>2. CASE n # 1
    BY <1>1, <2>1, <2>2
  <2>3. CASE n = 1
    <3>1. registered = {}
      BY <2>1, <2>3
    <3>2. btn_Bind = [b \in Buttons |-> 0]
      BY <3>1 DEF Seated, TypeOK
    <3>3. \A e \in Sides : ButtonOf(e) \in Buttons
      BY DEF Sides, ButtonOf, Buttons
    <3>4. ~ BLOCK /\ whereisPoint = Centre
      BY <3>2, <3>3 DEF Agreed, TypeOK
    <3>5. hookPoint' = Centre /\ hookBind' = btn_Bind' /\ BLOCK' = BLOCK
      BY <2>1, <2>3, <3>2 DEF InstallHooks
    <3>. QED
      BY <2>1, <3>4, <3>5 DEF Agreed
  <2>. QED
    BY <2>2, <2>3
<1>5. ASSUME NEW s \in Sockets, Bye(s) PROVE Agreed'
  <2>1. s \in ToSet(m_pSockList)
    BY <1>5 DEF Bye, SockListOK, Connected
  <2>2. m_pSockList # <<>>
    BY <2>1 DEF ToSet
  <2>. QED
    BY <1>1, <1>5, <2>2 DEF Bye
<1>6. ASSUME NEW s \in Sockets, OrderlyClose(s) PROVE Agreed'
  <2>. DEFINE c == position[Len(m_pSockList)]
  <2>1. /\ c \in Buttons
        /\ btn_Bind' = [btn_Bind EXCEPT ![c] = 0]
        /\ ChildClose(c)
        /\ m_allowSend' = FALSE
        /\ whereisPoint' = Centre
        /\ UNCHANGED <<dllWnd, refused>>
    BY <1>6, CloseInOrder DEF Agreed
  <2>. HIDE DEF c
  <2>2. Centre \notin Sides
    BY DEF Centre, Sides
  <2>. QED
    BY <2>1, <2>2 DEF ChildClose, Agreed
<1>7. ASSUME NEW b \in DropTargets, OrderlyDrop(b) PROVE Agreed'
  BY <1>2, <1>7
  DEF OrderlyDrop, DropOn, SendToHook, BindedClient, UserCanAct, Agreed
<1>8. CASE OrderlyAnswer
  <2>1. CASE AnswerYes
    BY <1>2, <1>8, <2>1 DEF OrderlyAnswer, AnswerYes, SendToHook, BindedClient, Agreed
  <2>2. CASE AnswerNo
    BY <1>1, <2>2 DEF AnswerNo
  <2>. QED
    BY <1>8, <2>1, <2>2 DEF OrderlyAnswer
<1>9. ASSUME NEW e \in Sides, CrossToClient(e) PROVE Agreed'
  <2>. DEFINE id == btn_Bind[ButtonOf(e)]
  <2>1. LeaveOver(e) /\ whereisPoint' = e /\ UNCHANGED <<btn_Bind, refused, dllWnd>>
    BY <1>9 DEF CrossToClient
  <2>2. ButtonOf(e) \in Buttons /\ id # 0
    BY <2>1 DEF LeaveOver, Agreed, ButtonOf, Sides, Buttons
  <2>3. id \in registered
    BY <2>2 DEF Seated
  <2>4. SearchSocket(id) # NoSocket
    <3>1. SearchSocket(id) \in Connected
      BY <2>3, SearchFindsClient
    <3>. QED
      BY <3>1, ServerAssumption DEF Connected
  <2>5. m_allowSend' = TRUE
    BY <1>9, <2>4 DEF CrossToClient
  <2>. QED
    BY <2>1, <2>2, <2>5 DEF LeaveOver, Agreed
<1>10. ASSUME NEW e \in Sides, CrossToServer(e) PROVE Agreed'
  <2>1. Centre \notin Sides
    BY DEF Centre, Sides
  <2>. QED
    BY <1>10, <2>1 DEF CrossToServer, ReturnOver, Agreed
<1>11. CASE Start \/ DropOutside \/ TwoSecondsPass \/ OnTimer
  BY <1>1, <1>11 DEF Start, DropOutside, TwoSecondsPass, OnTimer
<1>12. CASE \/ \E s \in Sockets : OrderlyAccept(s)
            \/ \E k \in 1 .. NSlots : BeginDrag(k)
            \/ \E e \in Sides : ClickButton(ButtonOf(e))
  BY <1>1, <1>12 DEF OrderlyAccept, Accept, BeginDrag, ClickButton
<1>13. CASE UNCHANGED vars
  BY <1>1, <1>13 DEF vars
<1>. QED
  BY <1>3, <1>4, <1>5, <1>6, <1>7, <1>8, <1>9, <1>10, <1>11, <1>12, <1>13
  DEF OrderlyNext

LEMMA OrderlyInvariant == OrderlySpec => []OrderlyInv
<1>1. Init => OrderlyInv
  <2>. SUFFICES ASSUME Init PROVE OrderlyInv
    OBVIOUS
  <2>1. TypeOK /\ SockListOK
    BY TypeInit, SockListInit
  <2>2. Numbered /\ Offered
    BY ServerAssumption DEF Init, Numbered, Offered, NoRepeats, ToSet
  <2>3. Seated /\ Agreed
    BY DEF Init, HookInit, Seated, Agreed, Centre, Sides
  <2>. QED
    BY <2>1, <2>2, <2>3 DEF OrderlyInv
<1>2. OrderlyInv /\ [OrderlyNext]_vars => OrderlyInv'
  <2>. SUFFICES ASSUME OrderlyInv, [OrderlyNext]_vars PROVE OrderlyInv'
    OBVIOUS
  <2>1. TypeOK' /\ SockListOK'
    BY OrderlyIsAServer, TypeStep, SockListStep DEF OrderlyInv
  <2>2. Numbered' /\ Offered' /\ Seated' /\ Agreed'
    BY NumberedStep, OfferedStep, SeatedStep, AgreedStep DEF OrderlyInv, Agreed
  <2>. QED
    BY <2>1, <2>2 DEF OrderlyInv
<1>. QED
  BY <1>1, <1>2, PTL DEF OrderlySpec

-----------------------------------------------------------------------------
(* The promises.                                                             *)

(* Each client that has said hello owns a slot, knows its id, and has its    *)
(* own screen's size kept under it.                                          *)
THEOREM HelloIsForItsSender == OrderlySpec => []HelloReachesItsSender
<1>1. OrderlyInv => HelloReachesItsSender
  BY PlaceOfSocket DEF OrderlyInv, HelloReachesItsSender, ClientKnowsItsId
<1>. QED
  BY <1>1, OrderlyInvariant, PTL

(* The DLL's copies of the bindings and of the pointer's cell agree with the *)
(* dialog's.                                                                 *)
THEOREM HookIsAMirror == OrderlySpec => []HookMirrorsDialog
<1>1. OrderlyInv => HookMirrorsDialog
  BY DEF OrderlyInv, Agreed, HookMirrorsDialog
<1>. QED
  BY <1>1, OrderlyInvariant, PTL

(* A button carries the id of a client that is connected.                    *)
THEOREM BindingsAreLive == OrderlySpec => []BindingsNameClients
<1>1. OrderlyInv => BindingsNameClients
  BY SearchFindsClient DEF OrderlyInv, Seated, BindingsNameClients
<1>. QED
  BY <1>1, OrderlyInvariant, PTL

(* While input is withheld, the button of the pointer's cell carries the id  *)
(* of a client, and the input goes to it.                                    *)
LEMMA AwayAtClient ==
  ASSUME OrderlyInv, Withheld
  PROVE  /\ whereisPoint \in Sides
         /\ hookPoint = whereisPoint
         /\ btn_Bind[ButtonOf(whereisPoint)] \in registered
         /\ ForwardTarget = m_pSockList[btn_Bind[ButtonOf(whereisPoint)]]
         /\ ForwardTarget \in Connected
<1>. DEFINE id == btn_Bind[ButtonOf(whereisPoint)]
<1>1. /\ whereisPoint \in Sides
      /\ hookPoint = whereisPoint
      /\ m_allowSend
      /\ id # 0
  BY DEF OrderlyInv, Agreed, Withheld
<1>2. ButtonOf(whereisPoint) \in Buttons
  BY <1>1 DEF Sides, ButtonOf, Buttons
<1>3. id \in registered
  BY <1>1, <1>2 DEF OrderlyInv, Seated
<1>4. SearchSocket(id) = m_pSockList[id] /\ m_pSockList[id] \in Connected
  BY <1>3, SearchFindsClient DEF OrderlyInv
<1>. QED
  BY <1>1, <1>3, <1>4 DEF ForwardTarget

(* Input that is withheld from the server finds a client.                    *)
THEOREM WithheldInputArrives == OrderlySpec => []WithheldInputIsForwarded
<1>1. OrderlyInv => WithheldInputIsForwarded
  BY AwayAtClient, ServerAssumption DEF WithheldInputIsForwarded, Connected
<1>. QED
  BY <1>1, OrderlyInvariant, PTL

(* The user can always take the input back.                                  *)
THEOREM NeverLockedOut == OrderlySpec => []CanReturn
<1>1. ASSUME OrderlyInv, Withheld
      PROVE  hookPoint \in Sides /\ hookBind[ButtonOf(hookPoint)] # 0
  <2>1. hookPoint \in Sides /\ btn_Bind[ButtonOf(hookPoint)] # 0
    BY <1>1, AwayAtClient DEF OrderlyInv, Agreed, Withheld
  <2>. QED
    BY <1>1, <2>1 DEF OrderlyInv, Agreed
<1>2. OrderlyInv => CanReturn
  BY <1>1 DEF CanReturn
<1>. QED
  BY <1>2, OrderlyInvariant, PTL

-----------------------------------------------------------------------------
(* The refinement of InputFocus.                                             *)

(* The machine the input acts on, as the refinement mapping has it.          *)
InputAt == IF Withheld THEN ForwardTarget ELSE "server"

(* What AwayAtClient says of the client, before and after a step.            *)
Away ==
  LET id == btn_Bind[ButtonOf(whereisPoint)]
  IN  id \in registered /\ ForwardTarget = m_pSockList[id] /\ ForwardTarget \in Connected

LEMMA AwayAfterStep == (OrderlyInv /\ Withheld => Away)'
<1>1. OrderlyInv /\ Withheld => Away
  BY AwayAtClient DEF Away
<1>. QED
  BY <1>1, PTL

(* A step that leaves the pointer, its binding and the places of the clients *)
(* alone leaves the input where it is.                                       *)
LEMMA InputStays ==
  ASSUME OrderlyInv, OrderlyInv', Withheld' = Withheld,
         UNCHANGED <<btn_Bind, whereisPoint>>,
         \A i \in registered : m_pSockList'[i] = m_pSockList[i]
  PROVE  InputAt' = InputAt
<1>1. CASE Withheld
  BY <1>1, AwayAtClient, AwayAfterStep DEF InputAt, Away
<1>2. CASE ~ Withheld
  BY <1>2 DEF InputAt
<1>. QED
  BY <1>1, <1>2

LEMMA FocusStep ==
  ASSUME OrderlyInv, OrderlyInv', [OrderlyNext]_vars
  PROVE  [Focus!FocusNext]_(Focus!focusVars)
<1>. USE DEF hookVars, peerVars, tableVars, pointerVars, gestureVars
<1>1. ASSUME Connected' = Connected, InputAt' = InputAt
      PROVE  UNCHANGED Focus!focusVars
  BY <1>1 DEF Focus!focusVars, InputAt
<1>2. ASSUME UNCHANGED <<phase, m_pSockList, btn_Bind, whereisPoint>>, Withheld' = Withheld
      PROVE  UNCHANGED Focus!focusVars
  BY <1>1, <1>2, InputStays DEF Connected
<1>3. ASSUME Connected' = Connected, ~ Withheld, ~ Withheld'
      PROVE  UNCHANGED Focus!focusVars
  BY <1>1, <1>3 DEF InputAt
<1>4. CASE OrderlyStop
  <2>1. Connected' = {}
    BY <1>4 DEF OrderlyStop, Stop, Connected, OrderlyInv, TypeOK
  <2>2. ~ Withheld /\ ~ Withheld'
    BY <1>4
    DEF OrderlyStop, Stop, UserCanAct, SendToHook, InputDeviceTrue, Withheld,
        OrderlyInv, Agreed
  <2>3. Focus!Shutdown
    BY <2>1, <2>2 DEF Focus!Shutdown
  <2>. QED
    BY <2>3 DEF Focus!FocusNext
<1>5. ASSUME NEW s \in Sockets, OrderlyAccept(s) PROVE Focus!FocusNext
  <2>1. s \notin Connected /\ Connected' = Connected \union {s}
    BY <1>5 DEF OrderlyAccept, Accept, Connected, OrderlyInv, TypeOK
  <2>2. \A i \in 1 .. Len(m_pSockList) : m_pSockList'[i] = m_pSockList[i]
    BY <1>5 DEF OrderlyAccept, Accept, OrderlyInv, TypeOK
  <2>3. UNCHANGED <<btn_Bind, whereisPoint>> /\ Withheld' = Withheld
    BY <1>5 DEF OrderlyAccept, Accept, Withheld
  <2>4. InputAt' = InputAt
    BY <2>2, <2>3, InputStays DEF OrderlyInv, Numbered
  <2>5. Focus!Join(s)
    BY <2>1, <2>4 DEF Focus!Join, InputAt
  <2>. QED
    BY <2>5 DEF Focus!FocusNext
<1>6. ASSUME NEW s \in Sockets, OrderlyHello(s) PROVE UNCHANGED Focus!focusVars
  <2>. DEFINE n == Len(m_pSockList)
  <2>1. /\ registered = 1 .. n - 1
        /\ IF n = 1 THEN InstallHooks ELSE UNCHANGED hookVars
        /\ UNCHANGED <<m_pSockList, btn_Bind, whereisPoint>>
    BY <1>6, HelloInOrder DEF OrderlyInv
  <2>2. phase[s] = "accepted" /\ phase' = [phase EXCEPT ![s] = "helloed"]
    BY <1>6 DEF OrderlyHello, Hello, HelloArrives
  <2>3. Connected' = Connected
    BY <2>2 DEF Connected, OrderlyInv, TypeOK
  <2>4. CASE n # 1
    <3>1. Withheld' = Withheld
      BY <2>1, <2>4 DEF Withheld
    <3>. QED
      BY <1>1, <2>1, <2>3, <3>1, InputStays
  <2>5. CASE n = 1
    <3>1. ~ Withheld
      BY <2>1, <2>5, AwayAtClient
    <3>2. BLOCK' = BLOCK /\ (BLOCK => hooks > 0)
      BY <2>1, <2>5 DEF InstallHooks, OrderlyInv, Agreed
    <3>3. ~ Withheld'
      BY <3>1, <3>2 DEF Withheld
    <3>. QED
      BY <1>3, <2>3, <3>1, <3>3
  <2>. QED
    BY <2>4, <2>5
<1>7. ASSUME NEW s \in Sockets, Bye(s) PROVE UNCHANGED Focus!focusVars
  <2>1. s \in ToSet(m_pSockList) /\ Connected' = Connected
    BY <1>7 DEF Bye, Connected, OrderlyInv, SockListOK, TypeOK
  <2>2. m_pSockList # <<>>
    BY <2>1 DEF ToSet
  <2>3. UNCHANGED <<m_pSockList, btn_Bind, whereisPoint>> /\ Withheld' = Withheld
    BY <1>7, <2>2 DEF Bye, Withheld
  <2>. QED
    BY <1>1, <2>1, <2>3, InputStays
<1>8. ASSUME NEW s \in Sockets, OrderlyClose(s) PROVE Focus!FocusNext
  <2>1. s \in Connected /\ Connected' = Connected \ {s}
    BY <1>8 DEF OrderlyClose, CloseChild, Connected, OrderlyInv, TypeOK
  <2>2. ChildClose(position[Len(m_pSockList)])
    BY <1>8, CloseInOrder DEF OrderlyInv, Agreed
  <2>3. ~ Withheld'
    BY <2>2 DEF ChildClose, Withheld
  <2>4. Focus!Leave(s)
    BY <2>1, <2>3 DEF Focus!Leave
  <2>. QED
    BY <2>4 DEF Focus!FocusNext
<1>9. ASSUME NEW b \in DropTargets, OrderlyDrop(b) PROVE UNCHANGED Focus!focusVars
  <2>1. UNCHANGED phase /\ ~ Withheld /\ ~ Withheld'
    BY <1>9
    DEF OrderlyDrop, DropOn, UserCanAct, SendToHook, BindedClient, Withheld
  <2>. QED
    BY <1>3, <2>1 DEF Connected
<1>10. CASE OrderlyAnswer
  <2>1. UNCHANGED phase /\ ~ Withheld /\ ~ Withheld'
    BY <1>10
    DEF OrderlyAnswer, AnswerYes, AnswerNo, SendToHook, BindedClient, Withheld
  <2>. QED
    BY <1>3, <2>1 DEF Connected
<1>11. ASSUME NEW e \in Sides, CrossToClient(e) PROVE Focus!FocusNext
  <2>1. Connected' = Connected
    BY <1>11 DEF CrossToClient, Connected
  <2>2. ~ Withheld
    <3>1. hookPoint = Centre /\ Centre \notin Sides
      BY <1>11 DEF CrossToClient, LeaveOver, Centre, Sides
    <3>. QED
      BY <3>1, AwayAtClient
  <2>3. Withheld'
    BY <1>11 DEF CrossToClient, LeaveOver, Withheld
  <2>. DEFINE c == ForwardTarget'
  <2>4. c \in Connected'
    BY <2>3, AwayAfterStep DEF Away
  <2>5. c \in Sockets
    BY <2>1, <2>4 DEF Connected
  <2>6. Focus!GoTo(c)
    BY <2>1, <2>2, <2>3, <2>4 DEF Focus!GoTo
  <2>. QED
    BY <2>5, <2>6 DEF Focus!FocusNext
<1>12. ASSUME NEW e \in Sides, CrossToServer(e) PROVE Focus!FocusNext
  <2>1. Connected' = Connected /\ ~ Withheld'
    BY <1>12 DEF CrossToServer, ReturnOver, Withheld, Connected
  <2>2. Focus!Return
    BY <2>1 DEF Focus!Return
  <2>. QED
    BY <2>2 DEF Focus!FocusNext
<1>13. CASE Start \/ DropOutside \/ TwoSecondsPass \/ OnTimer
  BY <1>2, <1>13 DEF Start, DropOutside, TwoSecondsPass, OnTimer, Withheld
<1>14. CASE \/ \E k \in 1 .. NSlots : BeginDrag(k)
            \/ \E e \in Sides : ClickButton(ButtonOf(e))
  BY <1>2, <1>14 DEF BeginDrag, ClickButton, Withheld
<1>15. CASE UNCHANGED vars
  BY <1>2, <1>15 DEF vars, Withheld
<1>. QED
  BY <1>4, <1>5, <1>6, <1>7, <1>8, <1>9, <1>10, <1>11, <1>12, <1>13, <1>14, <1>15
  DEF OrderlyNext

(* The server implements InputFocus: the input acts on one machine, which is *)
(* connected, moves between server and client only, and is back at the       *)
(* server when a client leaves.                                              *)
THEOREM FocusIsKept == OrderlySpec => KeepsFocus
<1>1. Init => Focus!FocusInit
  BY DEF Init, HookInit, Focus!FocusInit, Connected, Withheld
<1>2. OrderlyInv /\ OrderlyInv' /\ [OrderlyNext]_vars => [Focus!FocusNext]_(Focus!focusVars)
  BY FocusStep
<1>. QED
  BY <1>1, <1>2, OrderlyInvariant, PTL DEF OrderlySpec, KeepsFocus, Focus!FocusSpec
=============================================================================
