---------------------------- MODULE PassUServer ----------------------------
(***************************************************************************)
(* The Windows server: the dialog (CPassUDlg), its server tab (CServer)    *)
(* with the table of clients and the grid of buttons, and the hook DLL     *)
(* (ServerHook), which holds copies of the bindings and of the cell the    *)
(* pointer is in.                                                          *)
(*                                                                         *)
(* Everything runs on one thread: a socket callback, a button handler, a   *)
(* hook procedure and the messages it sends are one step.  The steps that  *)
(* interleave are the callbacks of different connections, the user's       *)
(* gestures (a drag has two; an unbinding, and a hello with an unknown     *)
(* status, open a modal message box that lets other events through), the   *)
(* timer, and the moves of the pointer over a screen edge.                 *)
(*                                                                         *)
(* CObList::GetAt and GetNext throw on a NULL position.  The framework     *)
(* catches the exception at the window procedure, so the handler that is   *)
(* running ends there and what it has done so far stays done.              *)
(***************************************************************************)
EXTENDS ServerHook, SequencesExt

CONSTANTS
  Sockets,      (* connections; each is one CPassUChildSocket               *)
  NoSocket,     (* no connection                                            *)
  NSlots,       (* length of clientInfo: 9 in the code                      *)
  DropTargets,  (* buttons the user drops clients on                        *)
  UninitIds,    (* what c_id may hold in a new CPassUChildSocket, which no  *)
                (* constructor initialises                                  *)
  Statuses      (* device statuses in hello packets                         *)

KnownStatuses == {"PC", "MOBILE"}

ASSUME ServerAssumption ==
  /\ NoSocket \notin Sockets
  /\ NSlots \in 1 .. 9
  /\ DropTargets \subseteq Buttons
  /\ UninitIds \subseteq Int
  /\ UninitIds # {}

VARIABLES
  m_pServer,    (* the listening socket exists                              *)
  m_pSockList,  (* accepted connections, oldest first                       *)
  phase,        (* of each connection: new, accepted, helloed, bye, closed  *)
  c_id,         (* client id the server keeps in the socket                 *)
  told,         (* client id the peer was told in an answer to a hello      *)
  registered,   (* slots of clientInfo in use; the id of slot i is i        *)
  position,     (* clientInfo[].position, a button                          *)
  screen,       (* whose screen size client_nWidth/nHeight hold for an id   *)
  btn_Bind,     (* button -> client id, 0 for none                          *)
  waiting,      (* ids of the items of the list control, newest first       *)
  m_nSource,    (* index of the item being dragged, 0 when none is          *)
  asking,       (* button whose unbinding the user is asked about, or -1    *)
  refused,      (* slots of hellos refused with a message box that is still *)
                (* open, the innermost box last                             *)
  dllWnd,       (* the handle of the DLL's window is intact                 *)
  whereisPoint, (* the dialog's copy of the cell the pointer is in          *)
  m_allowSend,  (* input is sent to the client at whereisPoint              *)
  isCursorShow,
  cursor,       (* shape of the system cursors                              *)
  CursorFlag,   (* the animated cursor is up                                *)
  timer         (* off, armed, or due: armed for more than two seconds      *)

tableVars   == <<registered, position, screen, btn_Bind, waiting>>
peerVars    == <<m_pSockList, phase, c_id, told>>
gestureVars == <<m_nSource, asking, refused>>
pointerVars == <<whereisPoint, m_allowSend, isCursorShow, cursor>>
timerVars   == <<CursorFlag, timer>>

vars == <<hookVars, m_pServer, peerVars, tableVars, gestureVars, dllWnd,
          pointerVars, timerVars>>

Slots    == 1 .. NSlots
NoButton == -1

(* bindWatingClient computes an id as a character minus '0'; the text of an  *)
(* item that does not exist is empty, so the character is NUL.               *)
NoItemId == -48

Connected == {s \in Sockets : phase[s] \in {"accepted", "helloed", "bye"}}

TypeOK ==
  /\ HookTypeOK
  /\ m_pServer \in BOOLEAN
  /\ m_pSockList \in Seq(Sockets)
  /\ phase \in [Sockets -> {"new", "accepted", "helloed", "bye", "closed"}]
  /\ c_id \in [Sockets -> Int]
  /\ told \in [Sockets -> 0 .. NSlots]
  /\ registered \subseteq Slots
  /\ position \in [Slots -> Buttons]
  /\ screen \in [Slots \ {NSlots} -> Sockets \union {NoSocket}]
  /\ btn_Bind \in [Buttons -> Slots \union {0, NoItemId}]
  /\ waiting \in Seq(Slots)
  /\ m_nSource \in Nat
  /\ asking \in Buttons \union {NoButton}
  /\ refused \in Seq(Slots)
  /\ dllWnd \in BOOLEAN
  /\ whereisPoint \in {Centre} \union Sides
  /\ m_allowSend \in BOOLEAN
  /\ isCursorShow \in BOOLEAN
  /\ cursor \in {"default", "transparent", "animated"}
  /\ CursorFlag \in BOOLEAN
  /\ timer \in {"off", "armed", "due"}

Init ==
  /\ HookInit
  /\ m_pServer = FALSE
  /\ m_pSockList = <<>>
  /\ phase = [s \in Sockets |-> "new"]
  /\ c_id \in [Sockets -> UninitIds]
  /\ told = [s \in Sockets |-> 0]
  /\ registered = {}
  /\ position = [i \in Slots |-> 0]
  /\ screen = [i \in Slots \ {NSlots} |-> NoSocket]
  /\ btn_Bind = [b \in Buttons |-> 0]
  /\ waiting = <<>>
  /\ m_nSource = 0
  /\ asking = NoButton
  /\ refused = <<>>
  /\ dllWnd = TRUE
  /\ whereisPoint = Centre
  /\ m_allowSend = FALSE
  /\ isCursorShow = TRUE
  /\ cursor = "default"
  /\ CursorFlag \in BOOLEAN  (* not initialised, and not read before it is set *)
  /\ timer = "off"

-----------------------------------------------------------------------------
(* Parts of handlers.                                                        *)

ShowCursorAll == isCursorShow' = TRUE  /\ cursor' = "default"
HideCursorAll == isCursorShow' = FALSE /\ cursor' = "transparent"

(* A message to the DLL's window arrives only through an intact handle.      *)
SendToHook(Effect) == IF dllWnd THEN Effect ELSE UNCHANGED hookVars

(* Variant of SearchSocket that stops before the tail of the list.           *)
SearchBeforeTail(id) ==
  LET i == SelectInSeq(m_pSockList, LAMBDA s : c_id[s] = id)
  IN  IF i \in {0, Len(m_pSockList)} THEN NoSocket ELSE m_pSockList[i]

(* The list is searched from the head for the socket that has a client id;   *)
(* a search that runs off the end throws.                                    *)
SearchSocket(id) ==
  LET i == SelectInSeq(m_pSockList, LAMBDA s : c_id[s] = id)
  IN  IF i = 0 THEN NoSocket ELSE m_pSockList[i]

(* Where OnCopyData sends a key, button or move event of the hook: to a      *)
(* client, or nowhere when sending is off or when the search throws.         *)
ForwardTarget ==
  IF m_allowSend THEN SearchSocket(btn_Bind[ButtonOf(whereisPoint)]) ELSE NoSocket

(* Variant of UserCanAct without the withholding of clicks.                  *)
UserCanActAway == asking = NoButton /\ refused = <<>>

(* The user can act on the dialog: the hook lets clicks and keys through and *)
(* no message box is open.  A message box can be answered even while the     *)
(* hook withholds input: keys pressed together with Alt pass.                *)
UserCanAct == ~Withheld /\ asking = NoButton /\ refused = <<>>

-----------------------------------------------------------------------------
(* The server.                                                               *)

(* OnBnClickedStart, OnStartServer *)
Start ==
  /\ UserCanAct /\ m_nSource = 0
  /\ ~m_pServer
  /\ m_pServer' = TRUE
  /\ UNCHANGED <<hookVars, peerVars, tableVars, gestureVars, dllWnd,
                 pointerVars, timerVars>>

(* OnBnClickedStop: WM_INPUTDEVICE_TRUE, then CleanUp.  The hooks stay       *)
(* installed, and the DLL's bindings and the dialog's cell stay as they are. *)
Stop ==
  /\ UserCanAct /\ m_nSource = 0
  /\ m_pServer
  /\ SendToHook(InputDeviceTrue)
  /\ m_pServer' = FALSE
  /\ waiting' = <<>>
  /\ btn_Bind' = [b \in Buttons |-> 0]
  /\ screen' = [i \in Slots \ {NSlots} |-> NoSocket]
  /\ registered' = {}
  /\ position' = [i \in Slots |-> 0]
  /\ m_pSockList' = <<>>
  /\ phase' = [s \in Sockets |-> IF s \in Connected THEN "closed" ELSE phase[s]]
  /\ UNCHANGED <<c_id, told, gestureVars, dllWnd, pointerVars, timerVars>>

-----------------------------------------------------------------------------
(* Connections.                                                              *)

Accept(s) ==
  /\ m_pServer
  /\ phase[s] = "new"
  /\ phase' = [phase EXCEPT ![s] = "accepted"]
  /\ m_pSockList' = Append(m_pSockList, s)
  /\ UNCHANGED <<hookVars, m_pServer, c_id, told, tableVars, gestureVars,
                 dllWnd, pointerVars, timerVars>>

(* The first hello on a connection reaches OnCopyData.  Position pos starts  *)
(* at the head of the list and advances once for every slot in use before    *)
(* the first free one, so it names the k-th socket for slot k, whichever     *)
(* socket the packet came from.                                              *)
HelloArrives(s) ==
  /\ phase[s] = "accepted"
  /\ phase' = [phase EXCEPT ![s] = "helloed"]
  /\ IF Len(m_pSockList) = 1 THEN InstallHooks ELSE UNCHANGED hookVars
  /\ UNCHANGED <<m_pServer, m_pSockList, position, btn_Bind, m_nSource, asking,
                 pointerVars, timerVars>>

(* Variant of FirstFree that numbers clients by the length of the list.      *)
FirstFreeByCount == Min({Len(m_pSockList), NSlots})

FirstFree == Min(Slots \ registered)

(* A free slot and a socket at pos: the socket gets the slot's id.  With one *)
(* of the two known statuses the list control gets an item and the socket's  *)
(* peer an answer; with another a message box opens.  Sizes are stored at    *)
(* the index of the id, one past the slot's: there is no place for the last  *)
(* one, and its height lands on dllWnd.                                      *)
Hello(s, status) ==
  /\ HelloArrives(s)
  /\ registered # Slots
  /\ LET k   == FirstFree
         dst == m_pSockList[k]
     IN  /\ k <= Len(m_pSockList)
         /\ registered' = registered \union {k}
         /\ c_id' = [c_id EXCEPT ![dst] = k]
         /\ screen' = IF k = NSlots THEN screen ELSE [screen EXCEPT ![k] = s]
         /\ dllWnd' = (dllWnd /\ k # NSlots)
         /\ IF status \in KnownStatuses
              THEN /\ waiting' = <<k>> \o waiting
                   /\ told' = [told EXCEPT ![dst] = k]
                   /\ UNCHANGED refused
              ELSE /\ refused' = Append(refused, k)
                   /\ UNCHANGED <<waiting, told>>

(* The innermost message box is closed, and the hello handler that opened it *)
(* goes on: it frees the slot, whoever holds it by now, and answers nobody.  *)
Refuse ==
  /\ refused # <<>>
  /\ registered' = registered \ {Last(refused)}
  /\ refused' = Front(refused)
  /\ UNCHANGED <<hookVars, m_pServer, peerVars, position, screen, btn_Bind,
                 waiting, m_nSource, asking, dllWnd, pointerVars, timerVars>>

(* No socket at pos: GetNext throws before the slot is taken, or GetAt       *)
(* throws after setID, and the slot stays taken without a client.            *)
HelloThrows(s) ==
  /\ HelloArrives(s)
  /\ registered # Slots
  /\ FirstFree > Len(m_pSockList)
  /\ registered' = IF FirstFree = Len(m_pSockList) + 1
                     THEN registered \union {FirstFree} ELSE registered
  /\ UNCHANGED <<c_id, told, screen, waiting, refused, dllWnd>>

(* No free slot: the answer repeats the id of the packet, 0, and goes to the *)
(* socket after the NSlots that were passed; without one GetAt throws.       *)
HelloNoSlot(s) ==
  /\ HelloArrives(s)
  /\ registered = Slots
  /\ told' = IF Len(m_pSockList) > NSlots
               THEN [told EXCEPT ![m_pSockList[NSlots + 1]] = 0] ELSE told
  /\ UNCHANGED <<c_id, registered, screen, waiting, refused, dllWnd>>

(* A bye packet: the handler walks over the list, may run off its end, and   *)
(* removes the hooks only when the list is empty, which it is not while a    *)
(* packet of one of its sockets is handled.  Nothing is released.            *)
Bye(s) ==
  /\ phase[s] = "helloed"
  /\ phase' = [phase EXCEPT ![s] = "bye"]
  /\ hooks' = IF m_pSockList = <<>> THEN 0 ELSE hooks
  /\ UNCHANGED <<hookBind, hookPoint, BLOCK, m_pServer, m_pSockList, c_id, told,
                 tableVars, gestureVars, dllWnd, pointerVars, timerVars>>

(* Variant of SlotOf that stops at the first slot in use.                    *)
SlotAtHead(id) == IF registered = {} THEN 0 ELSE Min(registered)

(* The slot CloseChild finds for a socket: the first whose id equals c_id.   *)
(* The id of a free slot is 0, and so can c_id be.                           *)
SlotOf(id) ==
  IF id \in registered THEN id
  ELSE IF id = 0 /\ registered # Slots THEN FirstFree
  ELSE 0

(* Variant of ItemsWithout that removes the item on top.                     *)
ItemsWithoutNewest(i) == IF waiting = <<>> THEN waiting ELSE Tail(waiting)

(* The item of a client is found by its text, which begins with the id.      *)
ItemsWithout(i) == IF i \in registered THEN RemoveFirst(waiting, i) ELSE waiting

(* CloseChild, from OnClose.                                                 *)
CloseChild(s) ==
  /\ s \in Connected
  /\ LET i == SlotOf(c_id[s])
     IN  IF i = 0
           THEN UNCHANGED <<hookVars, tableVars>>
           ELSE /\ btn_Bind' = [btn_Bind EXCEPT ![position[i]] = 0]
                /\ SendToHook(ChildClose(position[i]))
                /\ waiting' = ItemsWithout(i)
                /\ registered' = registered \ {i}
                /\ position' = [position EXCEPT ![i] = 0]
                /\ UNCHANGED screen
  /\ m_pSockList' = RemoveFirst(m_pSockList, s)
  /\ phase' = [phase EXCEPT ![s] = "closed"]
  /\ ShowCursorAll
  /\ m_allowSend' = FALSE
  /\ whereisPoint' = Centre
  /\ UNCHANGED <<m_pServer, c_id, told, gestureVars, dllWnd, timerVars>>

-----------------------------------------------------------------------------
(* The user's gestures on the server tab.                                    *)

(* OnLvnBegindragList1 remembers the index of an item, not the item.         *)
BeginDrag(n) ==
  /\ UserCanAct /\ m_nSource = 0
  /\ n \in DOMAIN waiting
  /\ m_nSource' = n
  /\ UNCHANGED <<hookVars, m_pServer, peerVars, tableVars, asking, refused,
                 dllWnd, pointerVars, timerVars>>

(* Variant of Dragged that takes the id of the slot after the item's.        *)
DraggedNext ==
  IF m_nSource \in DOMAIN waiting THEN waiting[m_nSource] + 1 ELSE NoItemId

(* The client at the remembered index of the list as it is now.              *)
Dragged == IF m_nSource \in DOMAIN waiting THEN waiting[m_nSource] ELSE NoItemId

(* Variant of PositionAfter that forgets to note the button.                 *)
PositionKept(id, button) == position

(* setPosition of the client with an id; NoItemId is no client's.            *)
PositionAfter(id, button) ==
  [i \in Slots |-> IF i = id THEN button ELSE position[i]]

(* OnLButtonUp over a button, bindWatingClient.                              *)
DropOn(button) ==
  /\ UserCanAct /\ m_nSource # 0
  /\ m_nSource' = 0
  /\ btn_Bind' = [btn_Bind EXCEPT ![button] = Dragged]
  /\ position' = PositionAfter(Dragged, button)
  /\ SendToHook(BindedClient(button, Dragged))
  /\ UNCHANGED <<m_pServer, peerVars, registered, screen, waiting, asking,
                 refused, dllWnd, pointerVars, timerVars>>

(* OnLButtonUp anywhere else.                                                *)
DropOutside ==
  /\ UserCanAct /\ m_nSource # 0
  /\ m_nSource' = 0
  /\ UNCHANGED <<hookVars, m_pServer, peerVars, tableVars, asking, refused,
                 dllWnd, pointerVars, timerVars>>

(* OnButtonClick on one of the four visible buttons; the corner buttons are  *)
(* not visible and the centre has no handler.                                *)
ClickButton(button) ==
  /\ UserCanAct /\ m_nSource = 0
  /\ btn_Bind[button] # 0
  /\ asking' = button
  /\ UNCHANGED <<hookVars, m_pServer, peerVars, tableVars, m_nSource, refused,
                 dllWnd, pointerVars, timerVars>>

(* The message box is answered with yes: unbindWatingClient.                 *)
AnswerYes ==
  /\ asking # NoButton /\ refused = <<>>
  /\ asking' = NoButton
  /\ btn_Bind' = [btn_Bind EXCEPT ![asking] = 0]
  /\ SendToHook(BindedClient(asking, 0))
  /\ UNCHANGED <<m_pServer, peerVars, registered, position, screen, waiting,
                 m_nSource, refused, dllWnd, pointerVars, timerVars>>

AnswerNo ==
  /\ asking # NoButton /\ refused = <<>>
  /\ asking' = NoButton
  /\ UNCHANGED <<hookVars, m_pServer, peerVars, tableVars, m_nSource, refused,
                 dllWnd, pointerVars, timerVars>>

-----------------------------------------------------------------------------
(* The pointer.                                                              *)

(* MouseHookProc at an edge, then OnArrivedScreenEdge(TRUE, edge): the cell  *)
(* is noted before the search for the socket, which may throw.               *)
CrossToClient(edge) ==
  /\ LeaveOver(edge)
  /\ whereisPoint' = edge
  /\ IF SearchSocket(btn_Bind[ButtonOf(edge)]) = NoSocket
       THEN UNCHANGED <<m_allowSend, isCursorShow, cursor>>
       ELSE m_allowSend' = TRUE /\ HideCursorAll
  /\ UNCHANGED <<m_pServer, peerVars, tableVars, gestureVars, dllWnd, timerVars>>

(* MouseHookProc at the facing edge, then OnArrivedScreenEdge(FALSE, 5): the *)
(* cursor is animated and the timer set, anew if it is running.              *)
CrossToServer(edge) ==
  /\ ReturnOver(edge)
  /\ whereisPoint' = Centre
  /\ m_allowSend' = FALSE
  /\ isCursorShow' = TRUE
  /\ cursor' = "animated"
  /\ CursorFlag' = TRUE
  /\ timer' = "armed"
  /\ UNCHANGED <<m_pServer, peerVars, tableVars, gestureVars, dllWnd>>

(* More than two seconds pass after the timer was set.                       *)
TwoSecondsPass ==
  /\ timer = "armed"
  /\ timer' = "due"
  /\ UNCHANGED <<hookVars, m_pServer, peerVars, tableVars, gestureVars, dllWnd,
                 pointerVars, CursorFlag>>

(* Variants of CursorAfterTimer: without the test, with the test negated.    *)
CursorAlwaysRestored == "default"
CursorRestoredWhenHidden == IF isCursorShow THEN cursor ELSE "default"

(* The shape OnTimer leaves: a pointer that is away again stays invisible.   *)
CursorAfterTimer == IF isCursorShow THEN "default" ELSE cursor

(* OnTimer, once it finds the two seconds over.                              *)
OnTimer ==
  /\ timer = "due"
  /\ CursorFlag
  /\ CursorFlag' = FALSE
  /\ timer' = "off"
  /\ cursor' = CursorAfterTimer
  /\ UNCHANGED <<hookVars, m_pServer, peerVars, tableVars, gestureVars, dllWnd,
                 whereisPoint, m_allowSend, isCursorShow>>

-----------------------------------------------------------------------------
HelloNext(s) ==
  \/ \E status \in Statuses : Hello(s, status)
  \/ HelloThrows(s)
  \/ HelloNoSlot(s)

Next ==
  \/ Start
  \/ Stop
  \/ \E s \in Sockets : Accept(s) \/ HelloNext(s) \/ Bye(s) \/ CloseChild(s)
  \/ Refuse
  \/ \E n \in 1 .. NSlots : BeginDrag(n)
  \/ \E button \in DropTargets : DropOn(button)
  \/ DropOutside
  \/ \E edge \in Sides : ClickButton(ButtonOf(edge))
  \/ AnswerYes
  \/ AnswerNo
  \/ \E edge \in Sides : CrossToClient(edge) \/ CrossToServer(edge)
  \/ TwoSecondsPass
  \/ OnTimer

(* The dialog's message loop delivers WM_TIMER as long as a timer is set.    *)
TimerFairness == WF_vars(TwoSecondsPass) /\ WF_vars(OnTimer)

Spec == Init /\ [][Next]_vars /\ TimerFairness

(* A connection that was never given an id leaves, and its c_id, which no    *)
(* constructor sets, holds the id of a slot in use: CloseChild takes the     *)
(* client of that slot for the one that leaves.                              *)
LeavesWithStaleId(s) ==
  told[s] = 0 /\ c_id[s] \in registered /\ CloseChild(s)

(* The behaviours without that one step; what fresh memory holds is open.    *)
NumberedSpec ==
  Init /\ [][Next /\ \A s \in Sockets : ~LeavesWithStaleId(s)]_vars

-----------------------------------------------------------------------------
(* The id a connected client was told is the one the server keeps for it,    *)
(* its slot is taken, and no other connected client was told the same one:   *)
(* nobody's departure (PassUDlg.cpp:605) frees the slot of another, however  *)
(* hellos (Server.cpp:440), departures and stops interleave.  A client that  *)
(* was told none is one whose c_id was never set.                            *)
AssignedIdsUnique ==
  \A s \in Connected :
    \/ told[s] = 0 /\ c_id[s] \in UninitIds
    \/ /\ told[s] = c_id[s]
       /\ told[s] \in registered
       /\ \A t \in Connected : told[t] = told[s] => t = s

(* The list control offers each client once and only clients of the table:   *)
(* items come at the end of a hello (Server.cpp:478), may be skipped by a    *)
(* rejected or failed one, and go by text search (PassUDlg.cpp:618).         *)
WaitingMatchesTable ==
  /\ \A i, j \in DOMAIN waiting : waiting[i] = waiting[j] => i = j
  /\ ToSet(waiting) \subseteq registered

(* While input is sent to a client the hook withholds it from the server, so *)
(* no key or click acts on two machines, and the dialog knows a client's     *)
(* cell.  m_allowSend is set by one component and BLOCK by the other, and    *)
(* departures, failed searches, reinstalled hooks and Stop touch them        *)
(* separately (PassUDlg.cpp:973, ServerHook.cpp:474).                        *)
InputGoesToOneMachine ==
  m_allowSend => Withheld /\ whereisPoint \in Sides

(* The server's cursor is hidden exactly while input goes to a client, and   *)
(* an animated cursor always has a timer running that will take it down: a   *)
(* late OnTimer (PassUDlg.cpp:1132) neither shows the cursor while the       *)
(* pointer is away nor leaves the animation up.                              *)
CursorMatchesRouting ==
  /\ isCursorShow <=> ~m_allowSend
  /\ cursor = "transparent" <=> ~isCursorShow
  /\ cursor = "animated" => timer # "off"
  /\ timer # "off" => CursorFlag

(* The animation shown on return (PassUDlg.cpp:1000) ends.                   *)
AnimationEnds == cursor = "animated" ~> cursor # "animated"

(* While the hook withholds input, OnCopyData (PassUDlg.cpp:908) finds a     *)
(* client to send it to.                                                     *)
WithheldInputIsForwarded == Withheld => ForwardTarget # NoSocket

(* A client that has said hello has an id and knows it (Server.cpp:430).     *)
ClientKnowsItsId ==
  \A s \in Connected :
    phase[s] # "accepted" => c_id[s] \in registered /\ told[s] = c_id[s]

(* Hooking starts with the first client (Server.cpp:429): the hook procedures *)
(* are installed once, however often clients come back, and the handles that *)
(* remove them are kept.                                                     *)
HooksInstalledOnce == hooks <= 1

=============================================================================
