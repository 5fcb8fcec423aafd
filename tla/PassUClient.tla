---------------------------- MODULE PassUClient ----------------------------
(***************************************************************************)
(* The Windows program as a client: the dialog's two tabs, of which one    *)
(* runs at a time, the client tab (CClient), its socket, the cursor, and   *)
(* the USB device of the server that the bus driver (BusDevice) presents   *)
(* for it.                                                                 *)
(*                                                                         *)
(* The dialog runs on one thread, which waits while an IOCTL is under way; *)
(* the PnP manager's threads do not.  The server at the other end is the   *)
(* same program: it answers the hello and tells of devices that come and   *)
(* go (Server.cpp, when built with USE_USB), and its messages travel in a  *)
(* byte stream, so that one read may take several.                         *)
(***************************************************************************)
EXTENDS BusDevice, Sequences

CONSTANTS
  USE_USB,    (* how the program was built; stdafx.h says FALSE             *)
  Inputs,     (* kinds of input the server sends                            *)
  MaxWire     (* bound on the messages under way                            *)

ASSUME ClientAssumption ==
  /\ USE_USB \in BOOLEAN
  /\ Inputs \subseteq {"key", "inside", "edge", "receive"}
  /\ MaxWire \in Nat

VARIABLES
  m_SorC,        (* the server's tab is shown                               *)
  m_pServer,     (* the server half is running                              *)
  m_pClient,     (* none, failed (not connected), connected, deleted        *)
  m_connectFlag,
  m_CBtn_Start, m_CBtn_Stop,       (* buttons of the dialog, enabled or not *)
  m_cBtn_connect, m_CBtn_Cancel,   (* buttons of the client tab             *)
  tabs,          (* the tabs that are enabled                               *)
  isCursorShow, cursor, CursorFlag, timer,
  peer,          (* the server at the other end: away, greeted, known       *)
  wire,          (* messages from it that were not read yet                 *)
  plugged        (* the device in its USB port                              *)

modeVars   == <<m_SorC, m_pServer, m_connectFlag>>
buttonVars == <<m_CBtn_Start, m_CBtn_Stop, m_cBtn_connect, m_CBtn_Cancel, tabs>>
cursorVars == <<isCursorShow, cursor, CursorFlag, timer>>
netVars    == <<m_pClient, peer, wire>>
uiVars     == <<modeVars, buttonVars, cursorVars>>

vars == <<busVars, uiVars, netVars, plugged>>

Message == [type : Inputs \union {"answer", "remove"}, device : {NoDevice}]
             \union [type : {"data"}, device : Devices]

DialogTypeOK ==
  /\ m_SorC \in BOOLEAN
  /\ m_pServer \in BOOLEAN
  /\ m_connectFlag \in BOOLEAN
  /\ m_CBtn_Start \in BOOLEAN
  /\ m_CBtn_Stop \in BOOLEAN
  /\ m_cBtn_connect \in BOOLEAN
  /\ m_CBtn_Cancel \in BOOLEAN
  /\ tabs \subseteq {"server", "client"}

CursorTypeOK ==
  /\ isCursorShow \in BOOLEAN
  /\ cursor \in {"default", "transparent", "animated"}
  /\ CursorFlag \in BOOLEAN
  /\ timer \in {"off", "armed", "due"}

NetTypeOK ==
  /\ m_pClient \in {"none", "failed", "connected", "deleted"}
  /\ peer \in {"away", "greeted", "known"}
  /\ wire \in Seq(Message)
  /\ plugged \in Devices \union {NoDevice}

TypeOK == BusTypeOK /\ DialogTypeOK /\ CursorTypeOK /\ NetTypeOK

(* OnInitDialog.  Nothing initialises CursorFlag.                            *)
DialogInit ==
  /\ m_SorC = TRUE
  /\ m_pServer = FALSE
  /\ m_pClient = "none"
  /\ m_connectFlag = FALSE
  /\ m_CBtn_Start = TRUE
  /\ m_CBtn_Stop = FALSE
  /\ m_cBtn_connect = TRUE
  /\ m_CBtn_Cancel = TRUE
  /\ tabs = {"server", "client"}
  /\ isCursorShow = TRUE
  /\ cursor = "default"
  /\ CursorFlag \in BOOLEAN
  /\ timer = "off"
  /\ peer = "away"
  /\ wire = <<>>

Init == BusInit /\ DialogInit /\ plugged = NoDevice

(* The dialog's thread is free.                                              *)
Ready == ioctl = "none"

-----------------------------------------------------------------------------
(* The tabs and their buttons.                                               *)

(* Variant of StartAfterServerTab: Start is for whoever shows the tab.       *)
StartAlways == TRUE

StartAfterServerTab == ~m_connectFlag /\ (m_CBtn_Start \/ ~m_pServer)

StopAfterServerTab == m_pServer \/ (m_CBtn_Stop /\ ~m_connectFlag)

(* Variant of StopAfterClientTab that leaves the button alone.               *)
StopAsItWas == m_CBtn_Stop

StopAfterClientTab == m_connectFlag \/ (m_CBtn_Stop /\ ~m_pServer)

(* OnTcnSelchangeTab1                                                        *)
SelectTab ==
  /\ Ready
  /\ m_SorC' = ~m_SorC
  /\ IF m_SorC
       THEN m_CBtn_Start' = FALSE /\ m_CBtn_Stop' = StopAfterClientTab
       ELSE m_CBtn_Start' = StartAfterServerTab /\ m_CBtn_Stop' = StopAfterServerTab
  /\ UNCHANGED <<busVars, m_pServer, m_connectFlag, m_cBtn_connect, m_CBtn_Cancel,
                 tabs, cursorVars, netVars, plugged>>

CanClickInClientTab == Ready /\ ~m_SorC /\ "client" \in tabs

(* OnBnClickedConnect: the address is taken over, nothing is connected yet.  *)
Apply ==
  /\ CanClickInClientTab
  /\ m_cBtn_connect
  /\ m_cBtn_connect' = FALSE
  /\ m_CBtn_Start' = TRUE
  /\ m_CBtn_Cancel' = TRUE
  /\ UNCHANGED <<busVars, modeVars, m_CBtn_Stop, tabs, cursorVars, netVars, plugged>>

(* OnBnClickedCancel                                                         *)
Cancel ==
  /\ CanClickInClientTab
  /\ m_CBtn_Cancel
  /\ m_cBtn_connect' = TRUE
  /\ m_CBtn_Start' = FALSE
  /\ m_connectFlag' = FALSE
  /\ UNCHANGED <<busVars, m_SorC, m_pServer, m_CBtn_Stop, m_CBtn_Cancel, tabs,
                 cursorVars, netVars, plugged>>

ShowCursorAll == isCursorShow' = TRUE  /\ cursor' = "default"
HideCursorAll == isCursorShow' = FALSE /\ cursor' = "transparent"

(* OnBnClickedStart on the server's tab                                      *)
StartServer ==
  /\ Ready
  /\ m_SorC
  /\ m_CBtn_Start
  /\ m_pServer' = TRUE
  /\ tabs' = tabs \ {"client"}
  /\ m_CBtn_Start' = FALSE
  /\ m_CBtn_Stop' = TRUE
  /\ UNCHANGED <<busVars, m_SorC, m_connectFlag, m_cBtn_connect, m_CBtn_Cancel,
                 cursorVars, netVars, plugged>>

CancelAfterStart == FALSE

(* OnBnClickedStart on the client's tab and OnConnectStart: whether Connect  *)
(* succeeds is not looked at, and the cursor is hidden.                      *)
StartClient ==
  /\ Ready
  /\ ~m_SorC
  /\ m_CBtn_Start
  /\ \/ m_pClient' = "connected" /\ peer' = "greeted"
     \/ m_pClient' = "failed" /\ peer' = "away"
  /\ wire' = <<>>
  /\ HideCursorAll
  /\ m_CBtn_Cancel' = CancelAfterStart
  /\ m_connectFlag' = TRUE
  /\ tabs' = tabs \ {"server"}
  /\ m_CBtn_Start' = FALSE
  /\ m_CBtn_Stop' = TRUE
  /\ UNCHANGED <<busVars, m_SorC, m_pServer, m_cBtn_connect, CursorFlag, timer,
                 plugged>>

(* OnBnClickedStop and CleanUp on the server's tab                           *)
StopServer ==
  /\ Ready
  /\ m_SorC
  /\ m_CBtn_Stop
  /\ m_pServer' = FALSE
  /\ m_CBtn_Start' = TRUE
  /\ m_CBtn_Stop' = FALSE
  /\ tabs' = {"server", "client"}
  /\ UNCHANGED <<busVars, m_SorC, m_connectFlag, m_cBtn_connect, m_CBtn_Cancel,
                 cursorVars, netVars, plugged>>

(* Variant of Depart that leaves the device with the bus driver.             *)
DepartNot == UNCHANGED busVars

(* STOP_SERVER in CClient::OnCopyData, ExecuteProcess and removeDevice       *)
Depart == IF USE_USB THEN RemoveDevice ELSE UNCHANGED busVars

(* OnBnClickedStop and CleanUp on the client's tab: the bye goes to the      *)
(* program's own tab, whose OnDisconnect closes the socket.                  *)
StopClient ==
  /\ Ready
  /\ ~m_SorC
  /\ m_CBtn_Stop
  /\ Depart
  /\ m_CBtn_Start' = FALSE
  /\ m_CBtn_Stop' = FALSE
  /\ tabs' = {"server", "client"}
  /\ IF m_pClient = "none"
       THEN /\ m_CBtn_Cancel' = TRUE
            /\ UNCHANGED <<m_cBtn_connect, m_connectFlag>>
       ELSE /\ m_CBtn_Cancel' = FALSE
            /\ m_cBtn_connect' = TRUE
            /\ m_connectFlag' = FALSE
  /\ m_pClient' = "none"
  /\ peer' = "away"
  /\ wire' = <<>>
  /\ UNCHANGED <<m_SorC, m_pServer, cursorVars, plugged>>

(* CloseClient: the server has closed its end.  The socket is deleted, the   *)
(* pointer to it stays.                                                      *)
CloseClient ==
  /\ Ready
  /\ m_pClient = "connected"
  /\ Depart
  /\ m_pClient' = "deleted"
  /\ m_cBtn_connect' = TRUE
  /\ m_connectFlag' = FALSE
  /\ m_CBtn_Start' = FALSE
  /\ m_CBtn_Stop' = FALSE
  /\ peer' = "away"
  /\ wire' = <<>>
  /\ UNCHANGED <<m_SorC, m_pServer, m_CBtn_Cancel, tabs, cursorVars, plugged>>

(* The program ends, by OnDestroy or in a crash, and is started again: the   *)
(* device stays with the bus driver.                                         *)
Exit ==
  /\ Ready
  /\ m_SorC' = TRUE
  /\ m_pServer' = FALSE
  /\ m_pClient' = "none"
  /\ m_connectFlag' = FALSE
  /\ m_CBtn_Start' = TRUE
  /\ m_CBtn_Stop' = FALSE
  /\ m_cBtn_connect' = TRUE
  /\ m_CBtn_Cancel' = TRUE
  /\ tabs' = {"server", "client"}
  /\ isCursorShow' = TRUE
  /\ cursor' = "default"
  /\ CursorFlag' \in BOOLEAN
  /\ timer' = "off"
  /\ peer' = "away"
  /\ wire' = <<>>
  /\ UNCHANGED <<busVars, plugged>>

-----------------------------------------------------------------------------
(* ReceiveClientData.                                                        *)

(* MSG_DATA: CClient::OnCopyData and addDevice, on a 32-bit Windows.         *)
HandleData(d) ==
  /\ USE_USB
  /\ InsertAndAdd(d)
  /\ UNCHANGED cursorVars

(* MSG_REMOVE_USB *)
HandleRemove ==
  /\ Depart
  /\ UNCHANGED cursorVars

(* MSG_MOUSE: away from the screen's edges the cursor is shown, unless the   *)
(* animation is up.                                                          *)
HandleMouse(type) ==
  /\ IF CursorFlag        THEN UNCHANGED <<isCursorShow, cursor>>
     ELSE IF type = "edge" THEN HideCursorAll
     ELSE ShowCursorAll
  /\ UNCHANGED <<busVars, CursorFlag, timer>>

(* MSG_RECEIVE: the pointer arrives.                                         *)
HandleReceive ==
  /\ cursor' = "animated"
  /\ CursorFlag' = TRUE
  /\ timer' = "armed"
  /\ UNCHANGED <<busVars, isCursorShow>>

Handle(msg) ==
  \/ msg.type \in {"answer", "key"} /\ UNCHANGED <<busVars, cursorVars>>
  \/ msg.type = "data" /\ HandleData(msg.device)
  \/ msg.type = "remove" /\ HandleRemove
  \/ msg.type \in {"inside", "edge"} /\ HandleMouse(msg.type)
  \/ msg.type = "receive" /\ HandleReceive

(* A read takes what has arrived, of which the first message is handled.     *)
ReceiveClientData(n) ==
  /\ Ready
  /\ m_pClient = "connected"
  /\ n \in 1 .. Len(wire)
  /\ Handle(Head(wire))
  /\ wire' = SubSeq(wire, n + 1, Len(wire))
  /\ UNCHANGED <<modeVars, buttonVars, m_pClient, peer, plugged>>

(* More than two seconds pass after the timer was set.                       *)
TwoSecondsPass ==
  /\ timer = "armed"
  /\ timer' = "due"
  /\ UNCHANGED <<busVars, modeVars, buttonVars, isCursorShow, cursor, CursorFlag,
                 netVars, plugged>>

(* Variant of CursorAfterTimer that leaves the animation up.                 *)
CursorUnchanged == cursor

CursorAfterTimer == IF isCursorShow THEN "default" ELSE cursor

(* OnTimer, once it finds the two seconds over.                              *)
OnTimer ==
  /\ Ready
  /\ timer = "due"
  /\ CursorFlag
  /\ CursorFlag' = FALSE
  /\ timer' = "off"
  /\ cursor' = CursorAfterTimer
  /\ UNCHANGED <<busVars, modeVars, buttonVars, isCursorShow, netVars, plugged>>

-----------------------------------------------------------------------------
(* The server at the other end.                                              *)

Plain(type) == [type |-> type, device |-> NoDevice]
Data(d)     == [type |-> "data", device |-> d]

Post(msgs) ==
  /\ wire' = wire \o msgs
  /\ Len(wire') <= MaxWire

OtherEnd == <<busVars, uiVars, m_pClient>>

(* The answer to the hello, with the device if there is one.                 *)
PeerAnswers ==
  /\ peer = "greeted"
  /\ peer' = "known"
  /\ Post(<<Plain("answer")>>
            \o (IF USE_USB /\ plugged # NoDevice THEN <<Data(plugged)>> ELSE <<>>))
  /\ UNCHANGED <<OtherEnd, plugged>>

PeerInput(type) ==
  /\ peer = "known"
  /\ Post(<<Plain(type)>>)
  /\ UNCHANGED <<OtherEnd, peer, plugged>>

(* DBT_DEVICEARRIVAL: SendUSBInfo tells the clients that have an id.         *)
Arrival(d) ==
  /\ USE_USB
  /\ IF peer = "known" THEN Post(<<Data(d)>>) ELSE UNCHANGED wire
  /\ UNCHANGED <<OtherEnd, peer>>

(* DBT_DEVICEREMOVECOMPLETE: RemoveUSBInfo, whichever device it was.         *)
Removal ==
  /\ USE_USB
  /\ IF peer = "known" THEN Post(<<Plain("remove")>>) ELSE UNCHANGED wire
  /\ UNCHANGED <<OtherEnd, peer>>

Plug(d) == plugged = NoDevice /\ plugged' = d /\ Arrival(d)
Unplug  == plugged # NoDevice /\ plugged' = NoDevice /\ Removal

(* Another device comes or goes: nothing in the messages tells it apart.     *)
OtherArrives == plugged # NoDevice /\ UNCHANGED plugged /\ Arrival(plugged)
OtherLeaves  == UNCHANGED plugged /\ Removal

(* Nobody is told: the server shows its other tab, or its walk over the USB  *)
(* tree does not find the device (UsbEnumeration).                           *)
Unseen ==
  /\ USE_USB
  /\ plugged' \in Devices \union {NoDevice}
  /\ plugged = NoDevice \/ plugged' = NoDevice
  /\ UNCHANGED <<OtherEnd, peer, wire>>

-----------------------------------------------------------------------------
PnpManager ==
  \/ QueryRelations
  \/ Rescan
  \/ \E c \in Children : QueryId(c) \/ RemoveGone(c) \/ Disable(c)

Next ==
  /\ ~halted
  /\ \/ SelectTab \/ Apply \/ Cancel
     \/ StartServer \/ StopServer \/ StartClient \/ StopClient
     \/ CloseClient
     \/ Exit
     \/ \E n \in 1 .. MaxWire : ReceiveClientData(n)
     \/ TwoSecondsPass \/ OnTimer
     \/ PeerAnswers
     \/ \E type \in Inputs : PeerInput(type)
     \/ \E d \in Devices : Plug(d)
     \/ Unplug \/ OtherArrives \/ OtherLeaves \/ Unseen
     \/ (CreateObject \/ CreateChild \/ PnpManager) /\ UNCHANGED <<uiVars, netVars, plugged>>

Spec == Init /\ [][Next]_vars

-----------------------------------------------------------------------------
(* The program is a server or a client, never both, and has one connection:  *)
(* Start is offered by a handler that knows one half only, and the other     *)
(* half is kept away by tabs and buttons that five handlers switch           *)
(* (PassUDlg.cpp:244, 1154, 1175, 883, Client.cpp:137).                      *)
OneMode ==
  /\ ~(m_pServer /\ m_connectFlag)
  /\ m_pClient = "connected" => m_connectFlag
  /\ m_CBtn_Start => ~m_pServer /\ ~m_connectFlag

(* On the tab of the half that runs the user can stop it, and Stop is never  *)
(* offered for a half that does not run: it would close a socket that is     *)
(* gone (PassUDlg.cpp:891, Client.cpp:121).                                  *)
StopMatchesMode ==
  m_CBtn_Stop <=> IF m_SorC THEN m_pServer ELSE m_pClient \in {"failed", "connected"}

(* A cursor that is to be seen has its shape, or a timer is running that     *)
(* will give it back, in whatever order the pointer's arrival, its moves and *)
(* the timer come (PassUDlg.cpp:788, 855, 1132).                             *)
CursorRestorable ==
  isCursorShow => \/ cursor = "default"
                  \/ cursor = "animated" /\ timer # "off" /\ CursorFlag

=============================================================================
