------------------------- MODULE PassUServer_proofs -------------------------
(***************************************************************************)
(* Theorems about PassUServer for any number of connections, slots and     *)
(* button positions.                                                       *)
(***************************************************************************)
EXTENDS PassUServer, SequenceLemmas

-----------------------------------------------------------------------------
(* The operators the module is built from.                                   *)

(* FirstFree is a free slot.                                                 *)
LEMMA FirstFreeIsFree ==
  ASSUME registered \subseteq Slots, registered # Slots
  PROVE  FirstFree \in Slots \ registered
<1>1. Slots \ registered # {}
  BY Zenon
<1>2. Slots \ registered \subseteq Nat
  BY ServerAssumption DEF Slots
<1>. QED
  BY <1>1, <1>2, MinIsLeast DEF FirstFree

-----------------------------------------------------------------------------
(* Type correctness.                                                         *)

LEMMA SlotOfType ==
  ASSUME registered \subseteq Slots, NEW id
  PROVE  SlotOf(id) \in Slots \union {0}
BY FirstFreeIsFree DEF SlotOf

LEMMA DraggedType ==
  ASSUME waiting \in Seq(Slots)
  PROVE  Dragged \in Slots \union {NoItemId} /\ Dragged \in Int
BY ServerAssumption DEF Dragged, Slots, NoItemId

LEMMA HookTypes ==
  ASSUME HookTypeOK
  PROVE  /\ InstallHooks => HookTypeOK'
         /\ \A b \in Buttons, c \in Int : BindedClient(b, c) => HookTypeOK'
         /\ \A b \in Buttons : ChildClose(b) => HookTypeOK'
         /\ InputDeviceTrue => HookTypeOK'
         /\ \A e \in Sides : LeaveOver(e) => HookTypeOK'
         /\ \A e \in Sides : ReturnOver(e) => HookTypeOK'
         /\ UNCHANGED hookVars => HookTypeOK'
<1>. USE DEF HookTypeOK
<1>1. InstallHooks => HookTypeOK'
  BY DEF InstallHooks
<1>2. ASSUME NEW b \in Buttons, NEW c \in Int, BindedClient(b, c) PROVE HookTypeOK'
  BY <1>2 DEF BindedClient
<1>3. ASSUME NEW b \in Buttons, ChildClose(b) PROVE HookTypeOK'
  <2>1. hookBind' \in [Buttons -> Int]
    BY <1>3 DEF ChildClose
  <2>. QED
    BY <1>3, <2>1 DEF ChildClose
<1>4. InputDeviceTrue => HookTypeOK'
  BY DEF InputDeviceTrue
<1>5. ASSUME NEW e \in Sides, LeaveOver(e) PROVE HookTypeOK'
  BY <1>5 DEF LeaveOver
<1>6. ASSUME NEW e \in Sides, ReturnOver(e) PROVE HookTypeOK'
  BY <1>6 DEF ReturnOver
<1>7. UNCHANGED hookVars => HookTypeOK'
  BY DEF hookVars
<1>. QED
  BY <1>1, <1>2, <1>3, <1>4, <1>5, <1>6, <1>7

(* A handler that changes a few variables keeps the types of the others.     *)
LEMMA TypeStep ==
  ASSUME TypeOK, [Next]_vars
  PROVE  TypeOK'
<1>. USE DEF tableVars, peerVars, gestureVars, pointerVars, timerVars
<1>1. CASE Start
  BY <1>1, HookTypes DEF TypeOK, Start
<1>2. CASE Stop
  <2>1. HookTypeOK'
    BY <1>2, HookTypes DEF TypeOK, Stop, SendToHook
  <2>. QED
    <3>1. m_pSockList' \in Seq(Sockets) /\ waiting' \in Seq(Slots)
      BY <1>2 DEF Stop
    <3>2. /\ btn_Bind' \in [Buttons -> Slots \union {0, NoItemId}]
          /\ position' \in [Slots -> Buttons]
          /\ screen' \in [Slots \ {NSlots} -> Sockets \union {NoSocket}]
      BY <1>2 DEF Stop, Buttons
    <3>3. phase' \in [Sockets -> {"new", "accepted", "helloed", "bye", "closed"}]
      BY <1>2 DEF Stop, TypeOK
    <3>. QED
      BY <1>2, <2>1, <3>1, <3>2, <3>3 DEF TypeOK, Stop
<1>3. ASSUME NEW s \in Sockets, Accept(s) PROVE TypeOK'
  BY <1>3, HookTypes DEF TypeOK, Accept
<1>4. ASSUME NEW s \in Sockets, HelloNext(s) PROVE TypeOK'
  <2>1. /\ HookTypeOK'
        /\ phase' \in [Sockets -> {"new", "accepted", "helloed", "bye", "closed"}]
    BY <1>4, HookTypes
    DEF TypeOK, HelloNext, HelloArrives, Hello, HelloThrows, HelloNoSlot
  <2>2. ASSUME NEW status \in Statuses, Hello(s, status) PROVE TypeOK'
    <3>. DEFINE k == FirstFree
    <3>1. k \in Slots /\ k \in Int /\ k \in 0 .. NSlots
      BY <2>2, FirstFreeIsFree, ServerAssumption DEF Hello, TypeOK, Slots
    <3>. HIDE DEF k
    <3>2. k \in 1 .. Len(m_pSockList) /\ m_pSockList[k] \in Sockets
      BY <2>2, <3>1 DEF Hello, TypeOK, Slots, k
    <3>3. c_id' \in [Sockets -> Int] /\ told' \in [Sockets -> 0 .. NSlots]
      BY <2>2, <3>1, <3>2 DEF Hello, TypeOK, k
    <3>4. waiting' \in Seq(Slots) /\ refused' \in Seq(Slots)
      <4>1. <<k>> \o waiting \in Seq(Slots) /\ Append(refused, k) \in Seq(Slots)
        BY <3>1, ConcatProperties DEF TypeOK
      <4>2. waiting' \in {waiting, <<k>> \o waiting}
        BY <2>2 DEF Hello, k
      <4>3. refused' \in {refused, Append(refused, k)}
        BY <2>2 DEF Hello, k
      <4>. QED
        BY <4>1, <4>2, <4>3 DEF TypeOK
    <3>5. /\ registered' \subseteq Slots
          /\ screen' \in [Slots \ {NSlots} -> Sockets \union {NoSocket}]
          /\ dllWnd' \in BOOLEAN
      BY <2>2, <3>1 DEF Hello, TypeOK, k
    <3>. QED
      BY <2>1, <2>2, <3>3, <3>4, <3>5 DEF Hello, HelloArrives, TypeOK
  <2>3. CASE HelloThrows(s)
    <3>1. registered' \subseteq Slots
      BY <2>3, FirstFreeIsFree DEF HelloThrows, TypeOK
    <3>. QED
      BY <2>1, <2>3, <3>1 DEF HelloThrows, HelloArrives, TypeOK
  <2>4. CASE HelloNoSlot(s)
    <3>1. told' \in [Sockets -> 0 .. NSlots]
      <4>1. told \in [Sockets -> 0 .. NSlots] /\ 0 \in 0 .. NSlots
        BY ServerAssumption DEF TypeOK
      <4>2. \/ told' = told
            \/ told' = [told EXCEPT ![m_pSockList[NSlots + 1]] = 0]
        BY <2>4 DEF HelloNoSlot
      <4>. QED
        BY <4>1, <4>2
    <3>. QED
      BY <2>1, <2>4, <3>1 DEF HelloNoSlot, HelloArrives, TypeOK
  <2>. QED
    BY <1>4, <2>2, <2>3, <2>4 DEF HelloNext
<1>5. ASSUME NEW s \in Sockets, Bye(s) PROVE TypeOK'
  BY <1>5 DEF TypeOK, HookTypeOK, Bye
<1>6. ASSUME NEW s \in Sockets, CloseChild(s) PROVE TypeOK'
  <2>. DEFINE i == SlotOf(c_id[s])
  <2>1. i \in Slots \union {0}
    BY SlotOfType DEF TypeOK
  <2>. HIDE DEF i
  <2>2. CASE i = 0
    <3>1. HookTypeOK' /\ UNCHANGED tableVars
      BY <1>6, <2>2, HookTypes DEF CloseChild, TypeOK, i
    <3>2. m_pSockList' \in Seq(Sockets)
      BY <1>6, RemoveFirstElements DEF CloseChild, TypeOK
    <3>. QED
      BY <1>6, <3>1, <3>2 DEF CloseChild, ShowCursorAll, TypeOK
  <2>3. CASE i \in Slots
    <3>1. position[i] \in Buttons /\ i # 0
      BY <2>3, ServerAssumption DEF TypeOK, Slots
    <3>2. HookTypeOK'
      BY <1>6, <3>1, HookTypes DEF CloseChild, SendToHook, TypeOK, i
    <3>3. waiting' \in Seq(Slots)
      BY <1>6, <3>1, RemoveFirstElements DEF CloseChild, ItemsWithout, TypeOK, i
    <3>4. m_pSockList' \in Seq(Sockets)
      BY <1>6, RemoveFirstElements DEF CloseChild, TypeOK
    <3>5. /\ registered' \subseteq Slots
          /\ UNCHANGED screen
      BY <1>6, <3>1 DEF CloseChild, TypeOK, i
    <3>6. /\ btn_Bind' \in [Buttons -> Slots \union {0, NoItemId}]
          /\ position' \in [Slots -> Buttons]
      <4>1. /\ btn_Bind' = [btn_Bind EXCEPT ![position[i]] = 0]
            /\ position' = [position EXCEPT ![i] = 0]
        BY <1>6, <3>1 DEF CloseChild, i
      <4>2. 0 \in Buttons
        BY DEF Buttons
      <4>. QED
        BY <4>1, <4>2 DEF TypeOK
    <3>. QED
      BY <1>6, <3>2, <3>3, <3>4, <3>5, <3>6 DEF CloseChild, ShowCursorAll, TypeOK
  <2>. QED
    BY <2>1, <2>2, <2>3
<1>7. CASE Refuse
  <2>1. Front(refused) \in Seq(Slots)
    BY <1>7 DEF Refuse, TypeOK, Front
  <2>. QED
    BY <1>7, <2>1, HookTypes DEF Refuse, TypeOK
<1>8. ASSUME NEW n \in 1 .. NSlots, BeginDrag(n) PROVE TypeOK'
  BY <1>8, HookTypes, ServerAssumption DEF BeginDrag, TypeOK
<1>9. ASSUME NEW b \in DropTargets, DropOn(b) PROVE TypeOK'
  <2>1. b \in Buttons /\ Dragged \in Slots \union {NoItemId} /\ Dragged \in Int
    BY DraggedType, ServerAssumption DEF TypeOK
  <2>2. HookTypeOK'
    BY <1>9, <2>1, HookTypes DEF DropOn, SendToHook, TypeOK
  <2>3. position' \in [Slots -> Buttons]
    BY <1>9, <2>1 DEF DropOn, PositionAfter, TypeOK
  <2>4. btn_Bind' \in [Buttons -> Slots \union {0, NoItemId}]
    BY <1>9, <2>1 DEF DropOn, TypeOK
  <2>. QED
    BY <1>9, <2>2, <2>3, <2>4 DEF DropOn, TypeOK
<1>10. CASE DropOutside
  BY <1>10, HookTypes DEF DropOutside, TypeOK
<1>11. ASSUME NEW e \in Sides, ClickButton(ButtonOf(e)) PROVE TypeOK'
  <2>1. ButtonOf(e) \in Buttons
    BY DEF ButtonOf, Sides, Buttons
  <2>. QED
    BY <1>11, <2>1, HookTypes DEF ClickButton, TypeOK
<1>12. CASE AnswerYes
  <2>1. asking \in Buttons /\ NoButton \in Buttons \union {NoButton} /\ 0 \in Int
    BY <1>12 DEF AnswerYes, TypeOK
  <2>2. HookTypeOK'
    BY <1>12, <2>1, HookTypes DEF AnswerYes, SendToHook, TypeOK
  <2>3. btn_Bind' \in [Buttons -> Slots \union {0, NoItemId}]
    BY <1>12, <2>1 DEF AnswerYes, TypeOK
  <2>. QED
    BY <1>12, <2>2, <2>3 DEF AnswerYes, TypeOK
<1>13. CASE AnswerNo
  BY <1>13, HookTypes DEF AnswerNo, TypeOK
<1>14. ASSUME NEW e \in Sides, CrossToClient(e) PROVE TypeOK'
  <2>1. HookTypeOK'
    BY <1>14, HookTypes DEF CrossToClient, TypeOK
  <2>. QED
    BY <1>14, <2>1 DEF CrossToClient, HideCursorAll, TypeOK
<1>15. ASSUME NEW e \in Sides, CrossToServer(e) PROVE TypeOK'
  <2>1. HookTypeOK'
    BY <1>15, HookTypes DEF CrossToServer, TypeOK
  <2>. QED
    BY <1>15, <2>1 DEF CrossToServer, TypeOK
<1>16. CASE TwoSecondsPass
  BY <1>16, HookTypes DEF TwoSecondsPass, TypeOK
<1>17. CASE OnTimer
  BY <1>17, HookTypes DEF OnTimer, CursorAfterTimer, TypeOK
<1>18. CASE UNCHANGED vars
  BY <1>18, HookTypes DEF vars, TypeOK
<1>. QED
  BY <1>1, <1>2, <1>3, <1>4, <1>5, <1>6, <1>7, <1>8, <1>9, <1>10, <1>11, <1>12,
     <1>13, <1>14, <1>15, <1>16, <1>17, <1>18 DEF Next

LEMMA TypeInit == Init => TypeOK
<1>. SUFFICES ASSUME Init PROVE TypeOK
  OBVIOUS
<1>1. HookTypeOK
  <2>1. hookBind \in [Buttons -> Int]
    BY DEF Init, HookInit
  <2>. QED
    BY <2>1 DEF Init, HookInit, HookTypeOK
<1>2. /\ m_pSockList \in Seq(Sockets)
      /\ waiting \in Seq(Slots)
      /\ refused \in Seq(Slots)
  BY DEF Init
<1>3. /\ c_id \in [Sockets -> Int]
      /\ told \in [Sockets -> 0 .. NSlots]
  <2>1. 0 \in 0 .. NSlots
    BY ServerAssumption
  <2>2. c_id \in [Sockets -> Int]
    BY ServerAssumption DEF Init
  <2>. QED
    BY <2>1, <2>2 DEF Init
<1>4. /\ position \in [Slots -> Buttons]
      /\ btn_Bind \in [Buttons -> Slots \union {0, NoItemId}]
      /\ screen \in [Slots \ {NSlots} -> Sockets \union {NoSocket}]
      /\ registered \subseteq Slots
  BY DEF Init, Buttons
<1>. QED
  BY <1>1, <1>2, <1>3, <1>4 DEF Init, TypeOK

(* Every variable keeps to its type: in particular a button carries nothing  *)
(* but a slot's id, none, or the NoItemId of a drop whose item is gone.      *)
THEOREM TypeCorrect == Spec => []TypeOK
<1>1. Init => TypeOK
  BY TypeInit
<1>2. TypeOK /\ [Next]_vars => TypeOK'
  BY TypeStep
<1>. QED
  BY <1>1, <1>2, PTL DEF Spec

-----------------------------------------------------------------------------
(* The list of sockets.                                                      *)

(* The list holds every connection that is open, once.                       *)
SockListOK == NoRepeats(m_pSockList) /\ ToSet(m_pSockList) = Connected

(* Only Accept, CloseChild and Stop open or close a connection.              *)
LEMMA SockListStep ==
  ASSUME TypeOK, SockListOK, [Next]_vars
  PROVE  SockListOK'
<1>. USE DEF peerVars
<1>1. ASSUME UNCHANGED m_pSockList, Connected' = Connected PROVE SockListOK'
  BY <1>1 DEF SockListOK, NoRepeats, ToSet
<1>2. CASE Stop
  <2>1. Connected' = {}
    BY <1>2 DEF Stop, Connected, TypeOK
  <2>. QED
    BY <1>2, <2>1 DEF Stop, SockListOK, NoRepeats, ToSet
<1>3. ASSUME NEW s \in Sockets, Accept(s) PROVE SockListOK'
  <2>1. s \notin Connected /\ Connected' = Connected \union {s}
    BY <1>3 DEF Accept, Connected, TypeOK
  <2>2. m_pSockList' = Append(m_pSockList, s)
    BY <1>3 DEF Accept
  <2>. QED
    BY <2>1, <2>2, AppendElements DEF SockListOK, TypeOK
<1>4. ASSUME NEW s \in Sockets, CloseChild(s) PROVE SockListOK'
  <2>1. Connected' = Connected \ {s}
    BY <1>4 DEF CloseChild, Connected, TypeOK
  <2>2. m_pSockList' = RemoveFirst(m_pSockList, s)
    BY <1>4 DEF CloseChild
  <2>. QED
    BY <2>1, <2>2, RemoveFirstElements DEF SockListOK, TypeOK
<1>5. ASSUME NEW s \in Sockets, HelloNext(s) \/ Bye(s) PROVE SockListOK'
  <2>1. UNCHANGED m_pSockList /\ Connected' = Connected
    BY <1>5
    DEF HelloNext, Hello, HelloThrows, HelloNoSlot, HelloArrives, Bye, Connected, TypeOK
  <2>. QED
    BY <2>1, <1>1
<1>6. ASSUME UNCHANGED <<m_pSockList, phase>> PROVE SockListOK'
  BY <1>1, <1>6 DEF Connected
<1>7. CASE Start \/ Refuse \/ DropOutside \/ AnswerYes \/ AnswerNo \/ TwoSecondsPass \/ OnTimer
  BY <1>6, <1>7
  DEF Start, Refuse, DropOutside, AnswerYes, AnswerNo, TwoSecondsPass, OnTimer
<1>8. CASE \/ \E n \in 1 .. NSlots : BeginDrag(n)
           \/ \E b \in DropTargets : DropOn(b)
           \/ \E e \in Sides :
                ClickButton(ButtonOf(e)) \/ CrossToClient(e) \/ CrossToServer(e)
  BY <1>6, <1>8 DEF BeginDrag, DropOn, ClickButton, CrossToClient, CrossToServer
<1>9. CASE UNCHANGED vars
  BY <1>6, <1>9 DEF vars
<1>. QED
  BY <1>2, <1>3, <1>4, <1>5, <1>7, <1>8, <1>9 DEF Next

-----------------------------------------------------------------------------
(* The routing of input.                                                     *)

Routing == InputGoesToOneMachine /\ CursorMatchesRouting

LEMMA RoutingStep ==
  ASSUME TypeOK, SockListOK, Routing, [Next]_vars
  PROVE  Routing'
<1>. USE DEF Routing, InputGoesToOneMachine, CursorMatchesRouting, Withheld,
             hookVars, pointerVars, timerVars
<1>1. ASSUME hooks' \in {hooks, hooks + 1}, UNCHANGED <<BLOCK, pointerVars, timerVars>>
      PROVE  Routing'
  BY <1>1 DEF TypeOK, HookTypeOK
<1>2. CASE Stop
  <2>1. ~ m_allowSend
    BY <1>2 DEF Stop, UserCanAct
  <2>2. UNCHANGED <<pointerVars, timerVars>>
    BY <1>2 DEF Stop
  <2>. QED
    BY <2>1, <2>2
<1>3. ASSUME NEW s \in Sockets, HelloNext(s) PROVE Routing'
  BY <1>1, <1>3
  DEF HelloNext, Hello, HelloThrows, HelloNoSlot, HelloArrives, InstallHooks
<1>4. ASSUME NEW s \in Sockets, Bye(s) PROVE Routing'
  <2>1. s \in ToSet(m_pSockList)
    BY <1>4 DEF Bye, SockListOK, Connected
  <2>2. m_pSockList # <<>>
    BY <2>1 DEF ToSet
  <2>. QED
    BY <1>1, <1>4, <2>2 DEF Bye
<1>5. ASSUME NEW s \in Sockets, CloseChild(s) PROVE Routing'
  BY <1>5 DEF CloseChild, ShowCursorAll
<1>6. ASSUME NEW b \in DropTargets, DropOn(b) PROVE Routing'
  BY <1>1, <1>6 DEF DropOn, SendToHook, BindedClient
<1>7. CASE AnswerYes
  BY <1>1, <1>7 DEF AnswerYes, SendToHook, BindedClient
<1>8. ASSUME NEW e \in Sides, CrossToClient(e) PROVE Routing'
  BY <1>8 DEF CrossToClient, LeaveOver, HideCursorAll, TypeOK
<1>9. ASSUME NEW e \in Sides, CrossToServer(e) PROVE Routing'
  BY <1>9 DEF CrossToServer
<1>10. CASE TwoSecondsPass \/ OnTimer
  BY <1>10 DEF TwoSecondsPass, OnTimer, CursorAfterTimer, TypeOK
<1>11. CASE Start \/ Refuse \/ DropOutside \/ AnswerNo
  BY <1>1, <1>11 DEF Start, Refuse, DropOutside, AnswerNo
<1>12. CASE \/ \E s \in Sockets : Accept(s)
            \/ \E n \in 1 .. NSlots : BeginDrag(n)
            \/ \E e \in Sides : ClickButton(ButtonOf(e))
  BY <1>1, <1>12 DEF Accept, BeginDrag, ClickButton
<1>13. CASE UNCHANGED vars
  BY <1>1, <1>13 DEF vars
<1>. QED
  BY <1>2, <1>3, <1>4, <1>5, <1>6, <1>7, <1>8, <1>9, <1>10, <1>11, <1>12, <1>13
  DEF Next

LEMMA SockListInit == Init => SockListOK
BY DEF Init, SockListOK, NoRepeats, ToSet, Connected

LEMMA RoutingInvariant == Spec => [](TypeOK /\ SockListOK /\ Routing)
<1>1. Init => TypeOK /\ SockListOK /\ Routing
  <2>1. Init => Routing
    BY DEF Init, Routing, InputGoesToOneMachine, CursorMatchesRouting
  <2>. QED
    BY <2>1, TypeInit, SockListInit
<1>2. TypeOK /\ SockListOK /\ Routing /\ [Next]_vars => (TypeOK /\ SockListOK /\ Routing)'
  BY TypeStep, SockListStep, RoutingStep
<1>. QED
  BY <1>1, <1>2, PTL DEF Spec

(* While the dialog sends input to a client, the hook withholds it from the  *)
(* server, for any number of clients and slots, under any interleaving of    *)
(* departures, failed searches, reinstalled hooks and Stop.                  *)
THEOREM InputSafe == Spec => []InputGoesToOneMachine
BY RoutingInvariant, PTL DEF Routing

(* The server's cursor is hidden exactly while input goes to a client, and   *)
(* an animated cursor has a timer.                                           *)
THEOREM CursorSafe == Spec => []CursorMatchesRouting
BY RoutingInvariant, PTL DEF Routing

-----------------------------------------------------------------------------
(* The list control, for the clients the repository ships: they send one of  *)
(* the two known statuses, so that no hello waits for the user to close its  *)
(* message box.                                                              *)

OrdinaryClients == Statuses \subseteq KnownStatuses

NoBox == refused = <<>>

LEMMA NoBoxStep ==
  ASSUME NoBox, OrdinaryClients, [Next]_vars
  PROVE  NoBox'
<1>. USE DEF NoBox, gestureVars
<1>1. CASE Start \/ Stop \/ DropOutside \/ AnswerYes \/ AnswerNo \/ TwoSecondsPass \/ OnTimer
  BY <1>1 DEF Start, Stop, DropOutside, AnswerYes, AnswerNo, TwoSecondsPass, OnTimer
<1>2. ASSUME NEW s \in Sockets, Accept(s) \/ HelloNext(s) \/ Bye(s) \/ CloseChild(s)
      PROVE  NoBox'
  BY <1>2
  DEF Accept, HelloNext, Hello, HelloThrows, HelloNoSlot, Bye, CloseChild, OrdinaryClients
<1>3. ~ Refuse
  BY DEF Refuse
<1>4. CASE \/ \E n \in 1 .. NSlots : BeginDrag(n)
           \/ \E b \in DropTargets : DropOn(b)
           \/ \E e \in Sides :
                ClickButton(ButtonOf(e)) \/ CrossToClient(e) \/ CrossToServer(e)
  BY <1>4 DEF BeginDrag, DropOn, ClickButton, CrossToClient, CrossToServer
<1>5. CASE UNCHANGED vars
  BY <1>5 DEF vars
<1>. QED
  BY <1>1, <1>2, <1>3, <1>4, <1>5 DEF Next

(* A departure takes a slot and its item together, or neither.               *)
LEMMA CloseTakesOne ==
  ASSUME TypeOK, NEW s \in Sockets, CloseChild(s)
  PROVE  \/ /\ c_id[s] \in registered
            /\ registered' = registered \ {c_id[s]}
            /\ waiting' = RemoveFirst(waiting, c_id[s])
         \/ /\ c_id[s] \notin registered
            /\ UNCHANGED <<registered, waiting>>
<1>. DEFINE i == SlotOf(c_id[s])
<1>1. CASE c_id[s] \in registered
  <2>1. i = c_id[s] /\ i # 0
    BY <1>1, ServerAssumption DEF SlotOf, TypeOK, Slots
  <2>. QED
    BY <1>1, <2>1 DEF CloseChild, ItemsWithout
<1>2. CASE c_id[s] \notin registered
  <2>1. i \notin registered
    <3>1. 0 \notin registered
      BY ServerAssumption DEF TypeOK, Slots
    <3>. QED
      BY <1>2, <3>1, FirstFreeIsFree DEF SlotOf, TypeOK
  <2>. HIDE DEF i
  <2>2. CASE i = 0
    BY <1>2, <2>2 DEF CloseChild, tableVars, i
  <2>3. CASE i # 0
    <3>1. registered' = registered \ {i} /\ waiting' = ItemsWithout(i)
      BY <2>3 DEF CloseChild, i
    <3>. QED
      BY <1>2, <2>1, <3>1 DEF ItemsWithout
  <2>. QED
    BY <2>2, <2>3
<1>. QED
  BY <1>1, <1>2

LEMMA WaitingStep ==
  ASSUME TypeOK, NoBox, WaitingMatchesTable, OrdinaryClients, [Next]_vars
  PROVE  WaitingMatchesTable'
<1>. USE DEF tableVars
<1>1. ASSUME UNCHANGED waiting, registered \subseteq registered' PROVE WaitingMatchesTable'
  BY <1>1 DEF WaitingMatchesTable
<1>2. CASE Stop
  BY <1>2 DEF Stop, WaitingMatchesTable, ToSet
<1>3. ASSUME NEW s \in Sockets, NEW status \in Statuses, Hello(s, status)
      PROVE  WaitingMatchesTable'
  <2>. DEFINE k == FirstFree
  <2>1. k \in Slots /\ k \notin registered
    BY <1>3, FirstFreeIsFree DEF Hello, TypeOK
  <2>2. registered' = registered \union {k} /\ waiting' = <<k>> \o waiting
    BY <1>3 DEF Hello, OrdinaryClients
  <2>. HIDE DEF k
  <2>3. NoRepeats(waiting) /\ k \notin ToSet(waiting)
    BY <2>1 DEF WaitingMatchesTable, NoRepeats
  <2>4. NoRepeats(waiting') /\ ToSet(waiting') = ToSet(waiting) \union {k}
    BY <2>1, <2>2, <2>3, PrependElements DEF TypeOK
  <2>. QED
    BY <2>2, <2>4 DEF WaitingMatchesTable, NoRepeats
<1>4. ASSUME NEW s \in Sockets, CloseChild(s) PROVE WaitingMatchesTable'
  <2>1. NoRepeats(waiting)
    BY DEF WaitingMatchesTable, NoRepeats
  <2>2. ASSUME NEW i, registered' = registered \ {i}, waiting' = RemoveFirst(waiting, i)
        PROVE  WaitingMatchesTable'
    <3>1. NoRepeats(waiting') /\ ToSet(waiting') = ToSet(waiting) \ {i}
      BY <2>1, <2>2, RemoveFirstElements DEF TypeOK
    <3>. QED
      BY <2>2, <3>1 DEF WaitingMatchesTable, NoRepeats
  <2>. QED
    BY <1>1, <1>4, <2>2, CloseTakesOne
<1>5. ASSUME NEW s \in Sockets, Accept(s) \/ HelloThrows(s) \/ HelloNoSlot(s) \/ Bye(s)
      PROVE  WaitingMatchesTable'
  BY <1>1, <1>5 DEF Accept, HelloThrows, HelloNoSlot, HelloArrives, Bye
<1>6. CASE Start \/ DropOutside \/ AnswerYes \/ AnswerNo \/ TwoSecondsPass \/ OnTimer
  BY <1>1, <1>6 DEF Start, DropOutside, AnswerYes, AnswerNo, TwoSecondsPass, OnTimer
<1>7. ~ Refuse
  BY DEF NoBox, Refuse
<1>8. CASE \/ \E n \in 1 .. NSlots : BeginDrag(n)
           \/ \E b \in DropTargets : DropOn(b)
           \/ \E e \in Sides :
                ClickButton(ButtonOf(e)) \/ CrossToClient(e) \/ CrossToServer(e)
  BY <1>1, <1>8 DEF BeginDrag, DropOn, ClickButton, CrossToClient, CrossToServer
<1>9. CASE UNCHANGED vars
  BY <1>1, <1>9 DEF vars
<1>. QED
  BY <1>2, <1>3, <1>4, <1>5, <1>6, <1>7, <1>8, <1>9 DEF Next, HelloNext

(* The list control offers each client of the table at most once, and nobody *)
(* else, whatever fresh memory holds.                                        *)
THEOREM WaitingSafe ==
  ASSUME OrdinaryClients
  PROVE  Spec => []WaitingMatchesTable
<1>1. Init => TypeOK /\ NoBox /\ WaitingMatchesTable
  <2>1. Init => NoBox /\ WaitingMatchesTable
    BY DEF Init, NoBox, WaitingMatchesTable, ToSet
  <2>. QED
    BY <2>1, TypeInit
<1>2. TypeOK /\ NoBox /\ WaitingMatchesTable /\ [Next]_vars
        => (TypeOK /\ NoBox /\ WaitingMatchesTable)'
  BY TypeStep, NoBoxStep, WaitingStep
<1>. QED
  BY <1>1, <1>2, PTL DEF Spec

-----------------------------------------------------------------------------
(* Ids.                                                                      *)

(* A step that no connection with a stale id leaves in.                      *)
NumberedNext == Next /\ \A s \in Sockets : ~LeavesWithStaleId(s)

(* A connection that was not accepted yet has no id; and only the first      *)
(* NSlots sockets of the list have been told one, so that the answer that    *)
(* says 0 (HelloNoSlot) takes nobody's id back.                              *)
IdsOK ==
  /\ \A s \in Sockets : phase[s] = "new" => told[s] = 0 /\ c_id[s] \in UninitIds
  /\ \A i \in 1 .. Len(m_pSockList) : told[m_pSockList[i]] # 0 => i <= NSlots
  /\ AssignedIdsUnique

(* A step that takes no slot and changes no id, and closes connections only. *)
LEMMA IdsUnchanged ==
  ASSUME IdsOK, UNCHANGED <<c_id, told, m_pSockList>>, registered \subseteq registered',
         Connected' \subseteq Connected,
         \A s \in Sockets : phase'[s] = "new" => phase[s] = "new"
  PROVE  IdsOK'
BY DEF IdsOK, AssignedIdsUnique

(* A hello takes a slot that is free and so an id nobody has.                *)
LEMMA IdsHello ==
  ASSUME TypeOK, SockListOK, IdsOK, OrdinaryClients,
         NEW s \in Sockets, NEW status \in Statuses, Hello(s, status)
  PROVE  IdsOK'
<1>. DEFINE k   == FirstFree
            dst == m_pSockList[k]
<1>1. k \in Slots /\ k \notin registered
  BY FirstFreeIsFree DEF Hello, TypeOK
<1>2. k \in 1 .. Len(m_pSockList) /\ k <= NSlots
  BY <1>1, ServerAssumption DEF Hello, Slots, TypeOK
<1>3. dst \in Connected
  BY <1>2 DEF SockListOK, ToSet, TypeOK
<1>4. /\ c_id' = [c_id EXCEPT ![dst] = k]
      /\ told' = [told EXCEPT ![dst] = k]
      /\ registered' = registered \union {k}
      /\ UNCHANGED m_pSockList
  BY DEF Hello, HelloArrives, OrdinaryClients
<1>5. Connected' = Connected /\ \A t \in Sockets : phase'[t] = "new" => phase[t] = "new"
  BY DEF Hello, HelloArrives, Connected, TypeOK
<1>6. \A i \in 1 .. Len(m_pSockList) : m_pSockList[i] = dst => i = k
  BY <1>2 DEF SockListOK, NoRepeats, TypeOK
<1>. HIDE DEF k, dst
<1>7. \A t \in Sockets : /\ c_id'[t] = IF t = dst THEN k ELSE c_id[t]
                         /\ told'[t] = IF t = dst THEN k ELSE told[t]
  BY <1>3, <1>4 DEF TypeOK
<1>8. \A t \in Sockets : phase'[t] = "new" => told'[t] = 0 /\ c_id'[t] \in UninitIds
  BY <1>3, <1>5, <1>7 DEF IdsOK, Connected
<1>9. \A i \in 1 .. Len(m_pSockList') : told'[m_pSockList'[i]] # 0 => i <= NSlots
  BY <1>2, <1>4, <1>6, <1>7 DEF IdsOK, TypeOK
<1>10. AssignedIdsUnique'
  <2>1. 0 \notin registered
    BY ServerAssumption DEF TypeOK, Slots
  <2>2. dst \in Sockets /\ k # 0
    BY <1>1, <1>3, ServerAssumption DEF Connected, Slots
  <2>. QED
    BY <1>1, <1>3, <1>4, <1>5, <1>7, <2>1, <2>2 DEF IdsOK, AssignedIdsUnique, Connected
<1>. QED
  BY <1>8, <1>9, <1>10 DEF IdsOK

(* A departure frees the slot of the client that leaves and no other.        *)
LEMMA IdsClose ==
  ASSUME TypeOK, SockListOK, IdsOK, NEW s \in Sockets, CloseChild(s), ~LeavesWithStaleId(s)
  PROVE  IdsOK'
<1>1. /\ Connected' = Connected \ {s}
      /\ s \in Connected
      /\ \A t \in Sockets : phase'[t] = "new" => phase[t] = "new"
      /\ UNCHANGED <<c_id, told>>
  BY DEF CloseChild, Connected, TypeOK
<1>2. told[s] = 0 => c_id[s] \notin registered
  BY DEF LeavesWithStaleId
<1>3. 0 \notin registered
  BY ServerAssumption DEF TypeOK, Slots
<1>4. AssignedIdsUnique'
  <2>1. registered' = registered \ {c_id[s]} \/ registered' = registered
    BY CloseTakesOne
  <2>2. ASSUME NEW t \in Connected', told[t] # 0
        PROVE  told[t] \in registered' /\ told[t] = c_id[t]
    <3>1. told[t] = c_id[t] /\ told[t] \in registered /\ t # s
      BY <1>1, <2>2 DEF IdsOK, AssignedIdsUnique
    <3>2. c_id[s] \in registered => told[t] # c_id[s]
      BY <1>1, <1>2, <3>1 DEF IdsOK, AssignedIdsUnique
    <3>. QED
      BY <2>1, <3>1, <3>2
  <2>. QED
    BY <1>1, <1>3, <2>2 DEF IdsOK, AssignedIdsUnique
<1>5. \A i \in 1 .. Len(m_pSockList') : told[m_pSockList'[i]] # 0 => i <= NSlots
  <2>1. m_pSockList' = RemoveFirst(m_pSockList, s)
    BY DEF CloseChild
  <2>2. ASSUME NEW i \in 1 .. Len(m_pSockList')
        PROVE  \E j \in 1 .. Len(m_pSockList) : i <= j /\ m_pSockList'[i] = m_pSockList[j]
    BY <2>1, <2>2, RemoveFirstMovesUp DEF TypeOK
  <2>3. NSlots \in Nat
    BY ServerAssumption
  <2>4. Len(m_pSockList) \in Nat /\ Len(m_pSockList') \in Nat
    BY <2>1, RemoveFirstElements DEF TypeOK
  <2>. QED
    BY <2>2, <2>3, <2>4 DEF IdsOK
<1>. QED
  BY <1>1, <1>4, <1>5 DEF IdsOK

LEMMA IdsStep ==
  ASSUME TypeOK, SockListOK, NoBox, IdsOK, OrdinaryClients, [NumberedNext]_vars
  PROVE  IdsOK'
<1>. USE DEF peerVars, tableVars
<1>1. ASSUME UNCHANGED <<peerVars, registered>> PROVE IdsOK'
  BY <1>1, IdsUnchanged DEF Connected
<1>2. CASE Stop
  <2>1. /\ Connected' = {}
        /\ \A s \in Sockets : phase'[s] = "new" => phase[s] = "new"
    BY <1>2 DEF Stop, Connected, TypeOK
  <2>2. Len(m_pSockList') = 0 /\ UNCHANGED <<c_id, told>>
    BY <1>2 DEF Stop
  <2>. QED
    BY <2>1, <2>2 DEF IdsOK, AssignedIdsUnique
<1>3. ASSUME NEW s \in Sockets, Accept(s) PROVE IdsOK'
  <2>1. /\ Connected' = Connected \union {s}
        /\ told[s] = 0 /\ c_id[s] \in UninitIds
        /\ \A t \in Sockets : phase'[t] = "new" => phase[t] = "new"
        /\ UNCHANGED <<c_id, told, registered>>
    BY <1>3 DEF Accept, Connected, IdsOK, TypeOK
  <2>2. m_pSockList' = Append(m_pSockList, s)
    BY <1>3 DEF Accept
  <2>3. \A i \in 1 .. Len(m_pSockList') : told'[m_pSockList'[i]] # 0 => i <= NSlots
    BY <2>1, <2>2 DEF IdsOK, TypeOK
  <2>4. AssignedIdsUnique'
    <3>1. 0 \notin registered
      BY ServerAssumption DEF TypeOK, Slots
    <3>. QED
      BY <2>1, <3>1 DEF IdsOK, AssignedIdsUnique
  <2>. QED
    BY <2>1, <2>3, <2>4 DEF IdsOK
<1>4. ASSUME NEW s \in Sockets, NEW status \in Statuses, Hello(s, status) PROVE IdsOK'
  BY <1>4, IdsHello
<1>5. ASSUME NEW s \in Sockets, HelloThrows(s) \/ HelloNoSlot(s) PROVE IdsOK'
  <2>1. /\ Connected' = Connected
        /\ \A t \in Sockets : phase'[t] = "new" => phase[t] = "new"
        /\ registered \subseteq registered'
        /\ UNCHANGED <<c_id, m_pSockList>>
    BY <1>5 DEF HelloThrows, HelloNoSlot, HelloArrives, Connected, TypeOK
  <2>2. UNCHANGED told
    <3>1. ASSUME Len(m_pSockList) > NSlots PROVE told[m_pSockList[NSlots + 1]] = 0
      <4>1. /\ NSlots \in Nat /\ ~ (NSlots + 1 <= NSlots)
            /\ NSlots + 1 \in 1 .. Len(m_pSockList)
        BY <3>1, ServerAssumption DEF TypeOK
      <4>. QED
        BY <4>1 DEF IdsOK
    <3>. QED
      BY <1>5, <3>1 DEF HelloThrows, HelloNoSlot, TypeOK
  <2>. QED
    BY <2>1, <2>2, IdsUnchanged
<1>6. ASSUME NEW s \in Sockets, Bye(s) PROVE IdsOK'
  BY <1>6, IdsUnchanged DEF Bye, Connected, TypeOK
<1>7. ASSUME NEW s \in Sockets, CloseChild(s), NumberedNext PROVE IdsOK'
  BY <1>7, IdsClose DEF NumberedNext
<1>8. CASE Start \/ DropOutside \/ AnswerYes \/ AnswerNo \/ TwoSecondsPass \/ OnTimer
  BY <1>1, <1>8 DEF Start, DropOutside, AnswerYes, AnswerNo, TwoSecondsPass, OnTimer
<1>9. ~ Refuse
  BY DEF NoBox, Refuse
<1>10. CASE \/ \E n \in 1 .. NSlots : BeginDrag(n)
            \/ \E b \in DropTargets : DropOn(b)
            \/ \E e \in Sides :
                 ClickButton(ButtonOf(e)) \/ CrossToClient(e) \/ CrossToServer(e)
  BY <1>1, <1>10 DEF BeginDrag, DropOn, ClickButton, CrossToClient, CrossToServer
<1>11. CASE UNCHANGED vars
  BY <1>1, <1>11 DEF vars
<1>. QED
  BY <1>2, <1>3, <1>4, <1>5, <1>6, <1>7, <1>8, <1>9, <1>10, <1>11
  DEF Next, NumberedNext, HelloNext

(* Whatever order hellos, departures and stops come in and whatever fresh    *)
(* memory holds, the id a client was told is its own and its slot is taken;  *)
(* the one step that can break it is the departure of a connection that was  *)
(* given no id and has a stale one.                                          *)
THEOREM IdsSafe ==
  ASSUME OrdinaryClients
  PROVE  NumberedSpec => []AssignedIdsUnique
<1>1. Init => TypeOK /\ SockListOK /\ NoBox /\ IdsOK
  <2>1. Init => NoBox /\ IdsOK
    BY DEF Init, NoBox, IdsOK, AssignedIdsUnique, Connected
  <2>. QED
    BY <2>1, TypeInit, SockListInit
<1>2. TypeOK /\ SockListOK /\ NoBox /\ IdsOK /\ [NumberedNext]_vars
        => (TypeOK /\ SockListOK /\ NoBox /\ IdsOK)'
  <2>1. [NumberedNext]_vars => [Next]_vars
    BY DEF NumberedNext
  <2>. QED
    BY <2>1, TypeStep, SockListStep, NoBoxStep, IdsStep
<1>3. IdsOK => AssignedIdsUnique
  BY DEF IdsOK
<1>. QED
  BY <1>1, <1>2, <1>3, PTL DEF NumberedSpec, NumberedNext

=============================================================================
