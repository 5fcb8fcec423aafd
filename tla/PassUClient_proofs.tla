------------------------- MODULE PassUClient_proofs -------------------------
(***************************************************************************)
(* Theorems about PassUClient and OrderlyClient for any number of device   *)
(* objects, devices, kinds of input and messages under way.                *)
(***************************************************************************)
EXTENDS OrderlyClient, SequenceTheorems, TLAPS

-----------------------------------------------------------------------------
(* The messages under way.                                                   *)

(* What a read leaves of the messages is a sequence of messages.             *)
LEMMA ReadType ==
  ASSUME wire \in Seq(Message), NEW n \in 1 .. Len(wire)
  PROVE  /\ Head(wire) \in Message
         /\ SubSeq(wire, n + 1, Len(wire)) \in Seq(Message)
         /\ Len(SubSeq(wire, n + 1, Len(wire))) <= Len(wire)
<1>1. SubSeq(wire, n + 1, Len(wire)) \in Seq(Message)
  OBVIOUS
<1>2. Len(SubSeq(wire, n + 1, Len(wire))) <= Len(wire)
  OBVIOUS
<1>3. Head(wire) \in Message
  OBVIOUS
<1>. QED
  BY <1>1, <1>2, <1>3

(* A message of type data names a device.                                    *)
LEMMA DataNamesDevice ==
  ASSUME NEW msg \in Message, msg.type = "data"
  PROVE  msg.device \in Devices
BY ClientAssumption DEF Message

LEMMA MessageTypes ==
  /\ \A type \in Inputs \union {"answer", "remove"} : Plain(type) \in Message
  /\ \A d \in Devices : Data(d) \in Message
BY DEF Plain, Data, Message

LEMMA PostType ==
  ASSUME wire \in Seq(Message), NEW msgs \in Seq(Message), Post(msgs)
  PROVE  wire' \in Seq(Message) /\ Len(wire') <= MaxWire
BY DEF Post

-----------------------------------------------------------------------------
(* Type correctness.                                                         *)

LEMMA BusTypes ==
  ASSUME BusTypeOK
  PROVE  /\ \A d \in Devices : InsertAndAdd(d) => BusTypeOK'
         /\ CreateObject => BusTypeOK'
         /\ CreateChild => BusTypeOK'
         /\ RemoveDevice => BusTypeOK'
         /\ PnpManager => BusTypeOK'
         /\ UNCHANGED busVars => BusTypeOK'
<1>. USE DEF BusTypeOK, childVars, pnpVars
<1>1. ASSUME NEW d \in Devices, InsertAndAdd(d) PROVE BusTypeOK'
  BY <1>1 DEF InsertAndAdd
<1>2. CreateObject => BusTypeOK'
  BY DEF CreateObject
<1>3. CreateChild => BusTypeOK'
  BY DEF CreateChild
<1>4. RemoveDevice => BusTypeOK'
  BY DEF RemoveDevice
<1>5. ASSUME PnpManager PROVE BusTypeOK'
  <2>1. CASE QueryRelations
    <3>1. CASE HasChild /\ ~Exists(ChildDeviceObject)
      BY <2>1, <3>1 DEF QueryRelations, BusHalt
    <3>2. CASE ~(HasChild /\ ~Exists(ChildDeviceObject))
      <4>1. Reported \subseteq Children
        BY <3>2 DEF Reported, Exists
      <4>. QED
        BY <2>1, <3>2, <4>1 DEF QueryRelations
    <3>. QED
      BY <3>1, <3>2
  <2>2. CASE Rescan
    BY <2>2 DEF Rescan
  <2>3. ASSUME NEW c \in Children, QueryId(c) PROVE BusTypeOK'
    BY <2>3 DEF QueryId
  <2>4. ASSUME NEW c \in Children, RemoveGone(c) PROVE BusTypeOK'
    BY <2>4 DEF RemoveGone, RemoveChild
  <2>5. ASSUME NEW c \in Children, Disable(c) PROVE BusTypeOK'
    BY <2>5 DEF Disable, RemoveChild
  <2>. QED
    BY <1>5, <2>1, <2>2, <2>3, <2>4, <2>5 DEF PnpManager
<1>6. UNCHANGED busVars => BusTypeOK'
  BY DEF busVars
<1>. QED
  BY <1>1, <1>2, <1>3, <1>4, <1>5, <1>6

(* The steps of the server touch nothing of the client's but what is under   *)
(* way.                                                                      *)
PeerTells ==
  \/ PeerAnswers
  \/ \E type \in Inputs : PeerInput(type)
  \/ \E d \in Devices : Plug(d)
  \/ Unplug \/ OtherArrives \/ OtherLeaves

PeerNext == PeerTells \/ Unseen

LEMMA PeerKeepsOtherEnd == PeerNext => UNCHANGED <<busVars, uiVars, m_pClient>>
<1>1. PeerNext => UNCHANGED OtherEnd
  BY Zenon
  DEF PeerNext, PeerTells, Unseen, PeerAnswers, PeerInput, Plug, Unplug, OtherArrives,
      OtherLeaves, Arrival, Removal
<1>. QED
  BY <1>1 DEF OtherEnd

LEMMA BusTypeStep ==
  ASSUME BusTypeOK, NetTypeOK, [Next]_vars
  PROVE  BusTypeOK'
<1>. USE DEF uiVars
<1>1. Depart => BusTypeOK'
  BY BusTypes DEF Depart
<1>2. UNCHANGED busVars => BusTypeOK'
  BY BusTypes
<1>3. CASE SelectTab \/ Apply \/ Cancel \/ StartServer \/ StopServer \/ StartClient
  BY <1>2, <1>3
  DEF SelectTab, Apply, Cancel, StartServer, StopServer, StartClient
<1>4. CASE StopClient \/ CloseClient
  BY <1>1, <1>4 DEF StopClient, CloseClient
<1>5. CASE Exit \/ TwoSecondsPass \/ OnTimer
  BY <1>2, <1>5 DEF Exit, TwoSecondsPass, OnTimer
<1>6. ASSUME NEW n \in 1 .. MaxWire, ReceiveClientData(n) PROVE BusTypeOK'
  <2>1. Head(wire) \in Message /\ Handle(Head(wire))
    BY <1>6, ReadType DEF ReceiveClientData, NetTypeOK
  <2>2. CASE Head(wire).type = "data" /\ HandleData(Head(wire).device)
    BY <2>1, <2>2, BusTypes, DataNamesDevice DEF HandleData
  <2>3. CASE HandleRemove
    BY <1>1, <2>3 DEF HandleRemove
  <2>. QED
    BY <1>2, <2>1, <2>2, <2>3 DEF Handle, HandleMouse, HandleReceive
<1>7. CASE PeerNext
  BY <1>2, <1>7, PeerKeepsOtherEnd
<1>8. CASE CreateObject \/ CreateChild \/ PnpManager
  BY <1>8, BusTypes
<1>9. CASE UNCHANGED vars
  BY <1>2, <1>9 DEF vars
<1>. QED
  BY <1>3, <1>4, <1>5, <1>6, <1>7, <1>8, <1>9 DEF Next, PeerNext, PeerTells

LEMMA DialogTypeStep ==
  ASSUME DialogTypeOK, CursorTypeOK, [Next]_vars
  PROVE  DialogTypeOK' /\ CursorTypeOK'
<1>. USE DEF modeVars, buttonVars, cursorVars, uiVars, DialogTypeOK, CursorTypeOK
<1>1. CASE SelectTab \/ Apply \/ Cancel
  BY <1>1
  DEF SelectTab, Apply, Cancel, StopAfterClientTab, StartAfterServerTab,
      StopAfterServerTab
<1>2. CASE StartServer \/ StopServer
  BY <1>2 DEF StartServer, StopServer
<1>3. CASE StartClient
  BY <1>3 DEF StartClient, HideCursorAll, CancelAfterStart
<1>4. CASE StopClient
  BY <1>4 DEF StopClient
<1>5. CASE CloseClient
  BY <1>5 DEF CloseClient
<1>6. CASE Exit
  BY <1>6 DEF Exit
<1>7. ASSUME NEW n \in 1 .. MaxWire, ReceiveClientData(n)
      PROVE  DialogTypeOK' /\ CursorTypeOK'
  BY <1>7
  DEF ReceiveClientData, Handle, HandleData, HandleRemove, HandleMouse, HandleReceive,
      ShowCursorAll, HideCursorAll
<1>8. CASE TwoSecondsPass \/ OnTimer
  BY <1>8 DEF TwoSecondsPass, OnTimer, CursorAfterTimer
<1>9. CASE UNCHANGED uiVars
  BY <1>9
<1>10. PeerNext \/ UNCHANGED vars => UNCHANGED uiVars
  BY PeerKeepsOtherEnd DEF vars
<1>. QED
  BY <1>1, <1>2, <1>3, <1>4, <1>5, <1>6, <1>7, <1>8, <1>9, <1>10 DEF Next, PeerNext, PeerTells

(* The socket, the messages under way, which the bound keeps few, and the    *)
(* port of the server.                                                       *)
NetTyped == NetTypeOK /\ Len(wire) <= MaxWire

LEMMA NetTypeStep ==
  ASSUME NetTyped, [Next]_vars
  PROVE  NetTyped'
<1>. USE ClientAssumption DEF uiVars, netVars, NetTyped, NetTypeOK
<1>1. CASE SelectTab \/ Apply \/ Cancel \/ StartServer \/ StopServer
  BY <1>1 DEF SelectTab, Apply, Cancel, StartServer, StopServer
<1>2. CASE StartClient \/ StopClient \/ CloseClient \/ Exit
  <2>1. wire' = <<>> /\ plugged' = plugged
    BY <1>2 DEF StartClient, StopClient, CloseClient, Exit
  <2>2. /\ m_pClient' \in {"none", "failed", "connected", "deleted"}
        /\ peer' \in {"away", "greeted", "known"}
    BY <1>2 DEF StartClient, StopClient, CloseClient, Exit
  <2>. QED
    BY <2>1, <2>2
<1>3. ASSUME NEW n \in 1 .. MaxWire, ReceiveClientData(n) PROVE NetTyped'
  <2>1. /\ n \in 1 .. Len(wire)
        /\ wire' = SubSeq(wire, n + 1, Len(wire))
        /\ UNCHANGED <<m_pClient, peer, plugged>>
    BY <1>3 DEF ReceiveClientData
  <2>2. wire' \in Seq(Message) /\ Len(wire') <= Len(wire)
    BY <2>1, ReadType
  <2>. QED
    BY <2>1, <2>2
<1>4. CASE TwoSecondsPass \/ OnTimer
  BY <1>4 DEF TwoSecondsPass, OnTimer
<1>5. ASSUME NEW msgs \in Seq(Message), Post(msgs), m_pClient' = m_pClient,
             peer' \in {"away", "greeted", "known"},
             plugged' \in Devices \union {NoDevice}
      PROVE  NetTyped'
  BY <1>5, PostType
<1>6. CASE PeerAnswers
  <2>. DEFINE msgs == <<Plain("answer")>>
                        \o (IF USE_USB /\ plugged # NoDevice THEN <<Data(plugged)>> ELSE <<>>)
  <2>1. <<Plain("answer")>> \in Seq(Message)
    BY MessageTypes
  <2>2. plugged # NoDevice => <<Data(plugged)>> \in Seq(Message)
    BY MessageTypes
  <2>3. msgs \in Seq(Message)
    BY <2>1, <2>2
  <2>4. Post(msgs) /\ peer' = "known" /\ UNCHANGED <<OtherEnd, plugged>>
    BY <1>6 DEF PeerAnswers
  <2>. HIDE DEF msgs
  <2>. QED
    BY <1>5, <2>3, <2>4 DEF OtherEnd
<1>7. ASSUME NEW type \in Inputs, PeerInput(type) PROVE NetTyped'
  <2>1. <<Plain(type)>> \in Seq(Message)
    BY MessageTypes
  <2>. QED
    BY <1>5, <1>7, <2>1 DEF PeerInput, OtherEnd
<1>8. ASSUME NEW d \in Devices, Arrival(d), plugged' \in Devices \union {NoDevice}
      PROVE  NetTyped'
  <2>1. <<Data(d)>> \in Seq(Message)
    BY MessageTypes
  <2>. QED
    BY <1>5, <1>8, <2>1 DEF Arrival, OtherEnd
<1>9. ASSUME Removal, plugged' \in Devices \union {NoDevice}
      PROVE  NetTyped'
  <2>1. <<Plain("remove")>> \in Seq(Message)
    BY MessageTypes
  <2>. QED
    BY <1>5, <1>9, <2>1 DEF Removal, OtherEnd
<1>10. CASE (\E d \in Devices : Plug(d)) \/ Unplug \/ OtherArrives \/ OtherLeaves
  BY <1>8, <1>9, <1>10 DEF Plug, Unplug, OtherArrives, OtherLeaves
<1>11. CASE Unseen
  BY <1>11 DEF Unseen, OtherEnd
<1>12. CASE UNCHANGED <<uiVars, netVars, plugged>>
  BY <1>12
<1>13. CASE UNCHANGED vars
  BY <1>13 DEF vars
<1>. QED
  BY <1>1, <1>2, <1>3, <1>4, <1>6, <1>7, <1>10, <1>11, <1>12, <1>13 DEF Next

Typed == TypeOK /\ Len(wire) <= MaxWire

LEMMA TypeInit == Init => Typed
<1>. USE ClientAssumption DEF Init, BusInit, DialogInit
<1>1. Init => BusTypeOK
  BY DEF BusTypeOK
<1>2. Init => DialogTypeOK /\ CursorTypeOK
  BY DEF DialogTypeOK, CursorTypeOK
<1>3. Init => NetTyped
  BY DEF NetTyped, NetTypeOK
<1>. QED
  BY <1>1, <1>2, <1>3 DEF Typed, TypeOK, NetTyped

LEMMA TypeStep == Typed /\ [Next]_vars => Typed'
BY BusTypeStep, DialogTypeStep, NetTypeStep DEF Typed, TypeOK, NetTyped

LEMMA AlwaysTyped == Spec => []Typed
BY TypeInit, TypeStep, PTL DEF Spec

(* Every value of the client stays in its type, whatever the user, the       *)
(* server and the PnP manager do (PassUDlg.cpp, Client.cpp, Driver.c).       *)
THEOREM TypeCorrect == Spec => []TypeOK
<1>1. Typed => TypeOK
  BY DEF Typed
<1>. QED
  BY <1>1, AlwaysTyped, PTL

-----------------------------------------------------------------------------
(* One half at a time, and the cursor.                                       *)

(* What the dialog's flags, buttons and tabs have to do with each other:     *)
(* OneMode and StopMatchesMode rest on the buttons of the client's tab.      *)
Modes ==
  /\ ~(m_pServer /\ m_connectFlag)
  /\ m_connectFlag <=> m_pClient \in {"failed", "connected"}
  /\ m_CBtn_Start => ~m_pServer /\ ~m_connectFlag
  /\ m_CBtn_Stop <=> IF m_SorC THEN m_pServer ELSE m_connectFlag
  /\ "client" \in tabs => ~m_pServer
  /\ m_CBtn_Start /\ ~m_SorC => ~m_cBtn_connect
  /\ m_cBtn_connect \/ m_CBtn_Cancel => ~m_connectFlag

LEMMA ModesInit == Init => Modes /\ CursorRestorable
BY DEF Init, DialogInit, Modes, CursorRestorable

LEMMA ModesStep ==
  ASSUME DialogTypeOK, NetTypeOK, Modes, [Next]_vars
  PROVE  Modes'
<1>. USE DEF Modes, DialogTypeOK, NetTypeOK, modeVars, buttonVars, netVars
<1>1. CASE SelectTab
  BY <1>1
  DEF SelectTab, StopAfterClientTab, StartAfterServerTab, StopAfterServerTab
<1>2. CASE Apply
  BY <1>2 DEF Apply, CanClickInClientTab
<1>3. CASE Cancel
  BY <1>3 DEF Cancel, CanClickInClientTab
<1>4. CASE StartServer
  BY <1>4 DEF StartServer
<1>5. CASE StopServer
  BY <1>5 DEF StopServer
<1>6. CASE StartClient
  BY <1>6 DEF StartClient, CancelAfterStart
<1>7. CASE StopClient
  BY <1>7 DEF StopClient
<1>8. CASE CloseClient
  BY <1>8 DEF CloseClient
<1>9. CASE Exit
  BY <1>9 DEF Exit
<1>10. CASE UNCHANGED <<modeVars, buttonVars, m_pClient>>
  BY <1>10
<1>11. ASSUME NEW n \in 1 .. MaxWire, ReceiveClientData(n)
       PROVE  UNCHANGED <<modeVars, buttonVars, m_pClient>>
  BY <1>11 DEF ReceiveClientData
<1>12. CASE TwoSecondsPass \/ OnTimer
  BY <1>12, <1>10 DEF TwoSecondsPass, OnTimer
<1>13. PeerNext \/ UNCHANGED vars => UNCHANGED <<modeVars, buttonVars, m_pClient>>
  BY PeerKeepsOtherEnd DEF vars, uiVars
<1>14. UNCHANGED <<uiVars, netVars, plugged>> => UNCHANGED <<modeVars, buttonVars, m_pClient>>
  BY DEF uiVars
<1>. QED
  BY <1>1, <1>2, <1>3, <1>4, <1>5, <1>6, <1>7, <1>8, <1>9, <1>10, <1>11, <1>12, <1>13,
     <1>14
  DEF Next, PeerNext, PeerTells

LEMMA CursorStep ==
  ASSUME CursorTypeOK, CursorRestorable, [Next]_vars
  PROVE  CursorRestorable'
<1>. USE DEF CursorRestorable, CursorTypeOK, cursorVars
<1>1. CASE StartClient
  BY <1>1 DEF StartClient, HideCursorAll
<1>2. CASE Exit
  BY <1>2 DEF Exit
<1>3. ASSUME NEW n \in 1 .. MaxWire, ReceiveClientData(n) PROVE CursorRestorable'
  <2>1. CASE HandleReceive
    BY <2>1 DEF HandleReceive
  <2>2. ASSUME NEW type, HandleMouse(type) PROVE CursorRestorable'
    BY <2>2 DEF HandleMouse, ShowCursorAll, HideCursorAll
  <2>3. CASE UNCHANGED cursorVars
    BY <2>3
  <2>. QED
    BY <1>3, <2>1, <2>2, <2>3
    DEF ReceiveClientData, Handle, HandleData, HandleRemove
<1>4. CASE TwoSecondsPass
  BY <1>4 DEF TwoSecondsPass
<1>5. CASE OnTimer
  BY <1>5 DEF OnTimer, CursorAfterTimer
<1>6. CASE UNCHANGED cursorVars
  BY <1>6
<1>7. CASE SelectTab \/ Apply \/ Cancel \/ StartServer \/ StopServer
  BY <1>7, <1>6 DEF SelectTab, Apply, Cancel, StartServer, StopServer
<1>8. CASE StopClient \/ CloseClient
  BY <1>8, <1>6 DEF StopClient, CloseClient
<1>9. PeerNext \/ UNCHANGED vars => UNCHANGED cursorVars
  BY PeerKeepsOtherEnd DEF vars, uiVars
<1>10. UNCHANGED <<uiVars, netVars, plugged>> => UNCHANGED cursorVars
  BY DEF uiVars
<1>. QED
  BY <1>1, <1>2, <1>3, <1>4, <1>5, <1>6, <1>7, <1>8, <1>9, <1>10 DEF Next, PeerNext, PeerTells

LEMMA AlwaysModes == Spec => [](Typed /\ Modes /\ CursorRestorable)
<1>1. Init => Typed /\ Modes /\ CursorRestorable
  BY TypeInit, ModesInit
<1>2. Typed /\ Modes /\ CursorRestorable /\ [Next]_vars
        => (Typed /\ Modes /\ CursorRestorable)'
  BY TypeStep, ModesStep, CursorStep DEF Typed, TypeOK
<1>. QED
  BY <1>1, <1>2, PTL DEF Spec

(* The program never runs as a server and as a client at once, and Start is  *)
(* offered only when it runs as neither, whichever handlers switch the tabs  *)
(* and buttons in whatever order (PassUDlg.cpp:244, 883, 1154, 1175).        *)
THEOREM RunsOneHalf == Spec => []OneMode
<1>1. Modes => OneMode
  BY DEF Modes, OneMode
<1>. QED
  BY <1>1, AlwaysModes, PTL

(* Stop is offered exactly for the half that runs and is shown               *)
(* (PassUDlg.cpp:891, Client.cpp:121).                                       *)
THEOREM StopIsForTheHalfShown == Spec => []StopMatchesMode
<1>1. ASSUME Typed, Modes PROVE StopMatchesMode
  <2>1. m_connectFlag <=> m_pClient \in {"failed", "connected"}
    BY <1>1 DEF Modes
  <2>2. m_SorC => (m_CBtn_Stop <=> m_pServer)
    BY <1>1, Zenon DEF Modes
  <2>3. ~m_SorC => (m_CBtn_Stop <=> m_connectFlag)
    BY <1>1, Zenon DEF Modes
  <2>4. m_SorC \in BOOLEAN
    BY <1>1 DEF Typed, TypeOK, DialogTypeOK
  <2>. QED
    BY <2>1, <2>2, <2>3, <2>4, Zenon DEF StopMatchesMode
<1>. QED
  BY <1>1, AlwaysModes, PTL

(* A cursor that is to be seen has its shape, or a timer runs that gives it  *)
(* back (PassUDlg.cpp:788, 855, 1132).                                       *)
THEOREM CursorComesBack == Spec => []CursorRestorable
BY AlwaysModes, PTL

-----------------------------------------------------------------------------
(* The bus driver and the PnP manager.                                       *)

(* The child of the bus driver, from the flag to the end, and the manager's  *)
(* picture of it.  An IOCTL that adds a device finds the manager at rest.    *)
Tree ==
  /\ ~halted
  /\ ioctl # "none" => HasChild /\ relations = "valid" /\ gone = {} /\ known = {}
  /\ ioctl # "flagged" /\ HasChild => ChildDeviceObject \in Children
  /\ ioctl = "created" => ident[ChildDeviceObject] = NoDevice
  /\ ioctl = "none" /\ HasChild => child[ChildDeviceObject] = "running"
  /\ ioctl = "none" /\ relations = "valid" => known = Reported
  /\ known \subseteq {ChildDeviceObject}
  /\ gone # {} => ~HasChild
  /\ \A c \in known : child[c] = "running"

(* What the orderly client does to the bus driver: a device is added only    *)
(* when the manager is at rest.                                              *)
OrderlyBus ==
  \/ UNCHANGED busVars
  \/ RemoveDevice
  \/ Settled /\ \E d \in Devices : InsertAndAdd(d)
  \/ CreateObject
  \/ CreateChild
  \/ OrderlyPnpManager

LEMMA OrderlyReads ==
  ASSUME NetTypeOK, OrderlyReceive
  PROVE  /\ 1 \in 1 .. Len(wire)
         /\ Head(wire) = wire[1]
         /\ wire[1] \in Message
         /\ wire' = SubSeq(wire, 1 + 1, Len(wire))
         /\ Handle(wire[1])
         /\ m_pClient = "connected"
         /\ wire[1].type = "data" => Settled
         /\ UNCHANGED <<modeVars, buttonVars, m_pClient, peer, plugged>>
<1>1. 1 \in 1 .. Len(wire) /\ ReceiveClientData(1)
  BY DEF OrderlyReceive, ReceiveClientData
<1>2. wire # <<>> /\ Head(wire) = wire[1] /\ wire[1] \in Message
  BY <1>1 DEF NetTypeOK
<1>. QED
  BY <1>1, <1>2 DEF OrderlyReceive, ReceiveClientData

LEMMA BusStep ==
  ASSUME NetTypeOK, [OrderlyNext]_vars
  PROVE  OrderlyBus
<1>1. Depart => OrderlyBus
  BY DEF Depart, OrderlyBus
<1>2. CASE SelectTab \/ Apply \/ Cancel \/ StartServer \/ StopServer \/ StartClient
  BY <1>2
  DEF SelectTab, Apply, Cancel, StartServer, StopServer, StartClient, OrderlyBus
<1>3. CASE StopClient \/ CloseClient
  BY <1>1, <1>3 DEF StopClient, CloseClient
<1>4. CASE OrderlyExit \/ TwoSecondsPass \/ OnTimer
  BY <1>4 DEF OrderlyExit, Exit, TwoSecondsPass, OnTimer, OrderlyBus
<1>5. CASE OrderlyReceive
  <2>1. CASE HandleRemove
    BY <1>1, <2>1 DEF HandleRemove
  <2>2. CASE wire[1].type = "data" /\ HandleData(wire[1].device)
    BY <1>5, <2>2, OrderlyReads, DataNamesDevice DEF HandleData, OrderlyBus
  <2>3. CASE UNCHANGED busVars
    BY <2>3 DEF OrderlyBus
  <2>. QED
    BY <1>5, <2>1, <2>2, <2>3, OrderlyReads DEF Handle, HandleMouse, HandleReceive
<1>6. CASE PeerTells
  BY <1>6, PeerKeepsOtherEnd DEF PeerNext, OrderlyBus
<1>7. CASE Driver
  BY <1>7 DEF Driver, OrderlyBus
<1>8. CASE UNCHANGED vars
  BY <1>8 DEF vars, OrderlyBus
<1>. QED
  BY <1>2, <1>3, <1>4, <1>5, <1>6, <1>7, <1>8 DEF OrderlyNext, PeerTells

LEMMA TreeInit == Init => Tree
BY DEF Init, BusInit, Tree

LEMMA TreeStep ==
  ASSUME BusTypeOK, Tree, OrderlyBus
  PROVE  Tree'
<1>. USE DEF BusTypeOK, Tree, Reported, childVars, pnpVars
<1>1. CASE UNCHANGED busVars
  BY <1>1 DEF busVars
<1>2. CASE RemoveDevice
  BY <1>2 DEF RemoveDevice
<1>3. ASSUME Settled, NEW d \in Devices, InsertAndAdd(d) PROVE Tree'
  BY <1>3 DEF Settled, InsertAndAdd
<1>4. CASE CreateObject
  <2>1. PICK c \in Children :
               /\ child' = [child EXCEPT ![c] = "created"]
               /\ ident' = [ident EXCEPT ![c] = NoDevice]
               /\ ChildDeviceObject' = c
    BY <1>4 DEF CreateObject
  <2>2. ident'[c] = NoDevice
    BY <2>1
  <2>. QED
    BY <1>4, <2>1, <2>2 DEF CreateObject
<1>5. CASE CreateChild
  <2>1. child'[ChildDeviceObject] = "running"
    BY <1>5 DEF CreateChild
  <2>. QED
    BY <1>5, <2>1 DEF CreateChild
<1>6. CASE QueryRelations
  <2>1. ioctl = "none" /\ (HasChild => Exists(ChildDeviceObject))
    BY <1>6 DEF QueryRelations, Exists
  <2>2. /\ relations' = "valid"
        /\ known' = Reported
        /\ gone' = gone \union (known \ Reported)
        /\ UNCHANGED <<childVars, receiveDesc, ioctl, ident, halted>>
    BY <1>6, <2>1 DEF QueryRelations
  <2>3. HasChild => gone' = {}
    BY <2>2
  <2>. QED
    BY <2>1, <2>2, <2>3
<1>7. ASSUME NEW c \in Children, QueryId(c) PROVE Tree'
  BY <1>7 DEF QueryId
<1>8. ASSUME NEW c \in Children, RemoveGone(c) PROVE Tree'
  BY <1>8 DEF RemoveGone, RemoveChild
<1>. QED
  BY <1>1, <1>2, <1>3, <1>4, <1>5, <1>6, <1>7, <1>8 DEF OrderlyBus, OrderlyPnpManager

(* A device is with the bus driver only for a client of a server that tells  *)
(* it of devices.                                                            *)
Presented ==
  /\ HasChild => m_connectFlag /\ peer = "known" /\ USE_USB /\ receiveDesc \in Devices
  /\ wire # <<>> => peer = "known" /\ m_pClient = "connected"
  /\ peer # "away" => m_pClient = "connected"

LEMMA PresentedInit == Init => Presented
BY DEF Init, BusInit, DialogInit, Presented

(* IOCTLs and the PnP manager never raise the flag, but for InsertAndAdd.    *)
LEMMA DriverKeepsFlag ==
  ASSUME CreateObject \/ CreateChild \/ OrderlyPnpManager
  PROVE  (HasChild' => HasChild) /\ receiveDesc' = receiveDesc
BY DEF CreateObject, CreateChild, OrderlyPnpManager, QueryRelations, BusHalt, childVars,
       QueryId, RemoveGone, RemoveChild

LEMMA PresentedStep ==
  ASSUME BusTypeOK, NetTypeOK, Modes, Presented, [OrderlyNext]_vars
  PROVE  Presented'
<1>. USE DEF Presented, modeVars, buttonVars, netVars
<1>1. Depart => (HasChild' => HasChild /\ ~USE_USB)
  BY DEF Depart, RemoveDevice, busVars, childVars
<1>2. CASE SelectTab
  BY <1>2 DEF SelectTab, busVars, childVars
<1>3. CASE Apply
  BY <1>3 DEF Apply, busVars, childVars
<1>4. CASE Cancel
  BY <1>4 DEF Cancel, Modes, busVars, childVars
<1>5. CASE StartServer \/ StopServer
  BY <1>5 DEF StartServer, StopServer, busVars, childVars
<1>6. CASE StartClient
  BY <1>6 DEF StartClient, Modes, busVars, childVars
<1>7. CASE StopClient
  BY <1>7, <1>1 DEF StopClient
<1>8. CASE CloseClient
  BY <1>8, <1>1 DEF CloseClient
<1>9. CASE OrderlyExit
  BY <1>9 DEF OrderlyExit, Exit, busVars, childVars
<1>10. CASE OrderlyReceive
  <2>1. wire # <<>>
    BY <1>10, OrderlyReads DEF NetTypeOK
  <2>2. peer = "known" /\ m_connectFlag /\ m_pClient = "connected"
    <3>1. peer = "known" /\ m_pClient = "connected"
      BY <2>1
    <3>2. m_pClient \in {"failed", "connected"} => m_connectFlag
      BY DEF Modes
    <3>. QED
      BY <3>1, <3>2
  <2>3. UNCHANGED <<peer, m_connectFlag, m_pClient>>
    BY <1>10 DEF OrderlyReceive, ReceiveClientData
  <2>4. CASE HandleRemove
    BY <2>2, <2>3, <2>4, <1>1 DEF HandleRemove
  <2>5. CASE wire[1].type = "data" /\ HandleData(wire[1].device)
    <3>1. wire[1].device \in Devices
      BY <1>10, <2>5, OrderlyReads, DataNamesDevice
    <3>2. USE_USB /\ receiveDesc' \in Devices
      BY <2>5, <3>1 DEF HandleData, InsertAndAdd
    <3>. QED
      BY <2>2, <2>3, <3>2
  <2>6. CASE UNCHANGED busVars
    BY <2>2, <2>3, <2>6 DEF busVars, childVars
  <2>. QED
    BY <1>10, <2>4, <2>5, <2>6, OrderlyReads DEF Handle, HandleMouse, HandleReceive
<1>11. CASE TwoSecondsPass \/ OnTimer
  BY <1>11 DEF TwoSecondsPass, OnTimer, busVars, childVars
<1>12. CASE PeerTells
  <2>1. UNCHANGED <<HasChild, receiveDesc, m_connectFlag, m_pClient>>
    BY <1>12, PeerKeepsOtherEnd DEF PeerNext, busVars, childVars, uiVars
  <2>2. peer # "known" /\ peer' # "known" => wire' = wire
    BY <1>12
    DEF PeerTells, PeerAnswers, PeerInput, Plug, Unplug, OtherArrives, OtherLeaves,
        Arrival, Removal
  <2>3. peer' = peer \/ (peer = "greeted" /\ peer' = "known")
    BY <1>12
    DEF PeerTells, PeerAnswers, PeerInput, Plug, Unplug, OtherArrives, OtherLeaves,
        Arrival, Removal
  <2>. QED
    BY <2>1, <2>2, <2>3
<1>13. CASE Driver
  BY <1>13, DriverKeepsFlag DEF Driver, uiVars
<1>14. CASE UNCHANGED vars
  BY <1>14 DEF vars, uiVars, busVars, childVars
<1>. QED
  BY <1>2, <1>3, <1>4, <1>5, <1>6, <1>7, <1>8, <1>9, <1>10, <1>11, <1>12, <1>13, <1>14
  DEF OrderlyNext, PeerTells

RemovedBetween(i, j) == \E k \in 1 .. Len(wire) : i < k /\ k < j /\ wire[k].type = "remove"

RemovedAfter(i) == \E k \in 1 .. Len(wire) : i < k /\ wire[k].type = "remove"

(* Between two different devices there is a removal: from the one inserted   *)
(* last, over those under way, to the one in the port.                       *)
Alternate ==
  /\ \A i, j \in 1 .. Len(wire) :
       i < j /\ wire[i].type = "data" /\ wire[j].type = "data"
         => wire[i].device = wire[j].device \/ RemovedBetween(i, j)
  /\ \A j \in 1 .. Len(wire) :
       HasChild /\ wire[j].type = "data"
         => wire[j].device = receiveDesc \/ RemovedBetween(0, j)
  /\ \A i \in 1 .. Len(wire) :
       wire[i].type = "data"
         => wire[i].device = plugged \/ RemovedAfter(i)
  /\ HasChild => receiveDesc = plugged \/ RemovedAfter(0)

LEMMA AlternateInit == Init => Alternate
BY DEF Init, BusInit, DialogInit, Alternate

LEMMA Remainder ==
  ASSUME NEW T, NEW q \in Seq(T), NEW i \in 1 .. Len(q)
  PROVE  /\ Len(SubSeq(q, i + 1, Len(q))) = Len(q) - i
         /\ \A k \in 1 .. Len(q) - i : SubSeq(q, i + 1, Len(q))[k] = q[i + k]
OBVIOUS

(* The messages left by a read of one.                                       *)
LEMMA Shifted ==
  ASSUME wire \in Seq(Message), 1 \in 1 .. Len(wire),
         wire' = SubSeq(wire, 1 + 1, Len(wire))
  PROVE  /\ Len(wire') = Len(wire) - 1
         /\ \A k \in 1 .. Len(wire') : wire'[k] = wire[k + 1]
         /\ \A i, j \in Nat : RemovedBetween(i + 1, j + 1) => RemovedBetween(i, j)'
         /\ \A i \in Nat : RemovedAfter(i + 1) => RemovedAfter(i)'
<1>0. Len(wire) \in Nat /\ Len(wire) >= 1
  OBVIOUS
<1>1. Len(wire') = Len(wire) - 1
  BY Remainder
<1>2. \A k \in 1 .. Len(wire') : wire'[k] = wire[k + 1]
  BY <1>0, <1>1, Remainder
<1>3. ASSUME NEW i \in Nat, NEW j \in Nat, RemovedBetween(i + 1, j + 1)
      PROVE  RemovedBetween(i, j)'
  <2>1. PICK k \in 1 .. Len(wire) : i + 1 < k /\ k < j + 1 /\ wire[k].type = "remove"
    BY <1>3 DEF RemovedBetween
  <2>2. k - 1 \in 1 .. Len(wire') /\ i < k - 1 /\ k - 1 < j /\ (k - 1) + 1 = k
    BY <2>1, <1>1
  <2>. QED
    BY <2>1, <2>2, <1>2 DEF RemovedBetween
<1>4. ASSUME NEW i \in Nat, RemovedAfter(i + 1) PROVE RemovedAfter(i)'
  <2>1. PICK k \in 1 .. Len(wire) : i + 1 < k /\ wire[k].type = "remove"
    BY <1>4 DEF RemovedAfter
  <2>2. k - 1 \in 1 .. Len(wire') /\ i < k - 1 /\ (k - 1) + 1 = k
    BY <2>1, <1>1
  <2>. QED
    BY <2>1, <2>2, <1>2 DEF RemovedAfter
<1>. QED
  BY <1>1, <1>2, <1>3, <1>4

(* The messages after one is sent.                                           *)
LEMMA Posted ==
  ASSUME wire \in Seq(Message), NEW m \in Message, Post(<<m>>)
  PROVE  /\ Len(wire') = Len(wire) + 1
         /\ \A k \in 1 .. Len(wire) : wire'[k] = wire[k]
         /\ wire'[Len(wire) + 1] = m
         /\ \A i, j \in Nat : RemovedBetween(i, j) => RemovedBetween(i, j)'
         /\ \A i \in 0 .. Len(wire) : RemovedAfter(i) \/ m.type = "remove" => RemovedAfter(i)'
         /\ \A i \in 0 .. Len(wire) : RemovedAfter(i) => RemovedBetween(i, Len(wire) + 1)
<1>1. wire' = wire \o <<m>>
  BY DEF Post
<1>2. /\ Len(wire') = Len(wire) + 1
      /\ \A k \in 1 .. Len(wire) : wire'[k] = wire[k]
      /\ wire'[Len(wire) + 1] = m
  BY <1>1
<1>. QED
  BY <1>2 DEF RemovedBetween, RemovedAfter

(* What is read next is about the device in the bus driver.                  *)
LEMMA AlternateRead ==
  ASSUME BusTypeOK, NetTypeOK, Presented, Alternate, OrderlyReceive
  PROVE  Alternate'
<1>. DEFINE m == wire[1]
<1>1. /\ wire \in Seq(Message)
      /\ 1 \in 1 .. Len(wire)
      /\ Handle(m)
      /\ wire' = SubSeq(wire, 1 + 1, Len(wire))
      /\ plugged' = plugged
  BY OrderlyReads DEF NetTypeOK
<1>2. /\ Len(wire') = Len(wire) - 1
      /\ \A k \in 1 .. Len(wire') : wire'[k] = wire[k + 1] /\ k + 1 \in 1 .. Len(wire)
  BY <1>1, Shifted
<1>3. \A i, j \in Nat : RemovedBetween(i + 1, j + 1) => RemovedBetween(i, j)'
  BY <1>1, Shifted
<1>4. \A i \in Nat : RemovedAfter(i + 1) => RemovedAfter(i)'
  BY <1>1, Shifted
<1>5. ASSUME NEW i \in 1 .. Len(wire'), NEW j \in 1 .. Len(wire'), i < j,
             wire'[i].type = "data", wire'[j].type = "data"
      PROVE  wire'[i].device = wire'[j].device \/ RemovedBetween(i, j)'
  <2>1. /\ wire[i + 1].type = "data" /\ wire[j + 1].type = "data" /\ i + 1 < j + 1
        /\ i + 1 \in 1 .. Len(wire) /\ j + 1 \in 1 .. Len(wire)
    BY <1>2, <1>5
  <2>2. wire[i + 1].device = wire[j + 1].device \/ RemovedBetween(i + 1, j + 1)
    BY <2>1 DEF Alternate
  <2>. QED
    BY <1>2, <1>3, <2>2
<1>6. ASSUME NEW i \in 1 .. Len(wire'), wire'[i].type = "data"
      PROVE  wire'[i].device = plugged' \/ RemovedAfter(i)'
  <2>1. wire[i + 1].type = "data" /\ i + 1 \in 1 .. Len(wire)
    BY <1>2, <1>6
  <2>2. wire[i + 1].device = plugged \/ RemovedAfter(i + 1)
    BY <2>1 DEF Alternate
  <2>. QED
    BY <1>1, <1>2, <1>4, <2>2
<1>7. /\ \A j \in 1 .. Len(wire') :
           HasChild' /\ wire'[j].type = "data"
             => wire'[j].device = receiveDesc' \/ RemovedBetween(0, j)'
      /\ HasChild' => receiveDesc' = plugged \/ RemovedAfter(0)'
  <2>1. CASE m.type = "data" /\ HandleData(m.device)
    <3>1. receiveDesc' = m.device
      BY <2>1 DEF HandleData, InsertAndAdd
    <3>2. ASSUME NEW j \in 1 .. Len(wire'), wire'[j].type = "data"
          PROVE  wire'[j].device = m.device \/ RemovedBetween(0, j)'
      <4>1. wire[j + 1].type = "data" /\ j + 1 \in 1 .. Len(wire) /\ 1 < j + 1
        BY <1>2, <3>2
      <4>2. m.device = wire[j + 1].device \/ RemovedBetween(1, j + 1)
        BY <1>1, <2>1, <4>1 DEF Alternate
      <4>3. RemovedBetween(0 + 1, j + 1) => RemovedBetween(0, j)'
        BY <1>3
      <4>. QED
        BY <1>2, <4>2, <4>3
    <3>3. m.device = plugged \/ RemovedAfter(1)
      BY <1>1, <2>1 DEF Alternate
    <3>4. RemovedAfter(0 + 1) => RemovedAfter(0)'
      BY <1>4
    <3>. QED
      BY <3>1, <3>2, <3>3, <3>4
  <2>2. CASE ~HasChild'
    BY <2>2
  <2>3. CASE m.type # "remove" /\ HasChild' = HasChild /\ receiveDesc' = receiveDesc
    <3>1. ASSUME NEW j \in Nat, RemovedBetween(0, j + 1) PROVE RemovedBetween(0, j)'
      <4>1. RemovedBetween(0 + 1, j + 1)
        BY <2>3, <3>1 DEF RemovedBetween
      <4>. QED
        BY <1>3, <4>1
    <3>2. RemovedAfter(0) => RemovedAfter(0)'
      <4>1. RemovedAfter(0) => RemovedAfter(0 + 1)
        BY <2>3 DEF RemovedAfter
      <4>. QED
        BY <1>4, <4>1
    <3>3. ASSUME NEW j \in 1 .. Len(wire'), HasChild, wire'[j].type = "data"
          PROVE  wire'[j].device = receiveDesc \/ RemovedBetween(0, j)'
      <4>1. wire[j + 1].type = "data" /\ j + 1 \in 1 .. Len(wire)
        BY <1>2, <3>3
      <4>2. wire[j + 1].device = receiveDesc \/ RemovedBetween(0, j + 1)
        BY <3>3, <4>1 DEF Alternate
      <4>. QED
        BY <1>2, <3>1, <4>2
    <3>4. HasChild => receiveDesc = plugged \/ RemovedAfter(0)
      BY DEF Alternate
    <3>. QED
      BY <2>3, <3>2, <3>3, <3>4
  <2>4. m.type = "remove" /\ HandleRemove => ~HasChild'
    BY DEF HandleRemove, Depart, RemoveDevice, Presented, busVars, childVars
  <2>. QED
    BY <1>1, <2>1, <2>2, <2>3, <2>4 DEF Handle, HandleMouse, HandleReceive, busVars, childVars
<1>. QED
  BY <1>1, <1>2, <1>5, <1>6, <1>7 DEF Alternate

(* A message about a device is sent when the device comes or goes.           *)
LEMMA AlternatePost ==
  ASSUME NetTypeOK, Presented, Alternate, NEW m \in Message, Post(<<m>>),
         UNCHANGED <<HasChild, receiveDesc>>,
         \/ m.type = "data" /\ plugged' = m.device /\ plugged \in {NoDevice, m.device}
         \/ m.type = "remove"
         \/ m.type \notin {"data", "remove"} /\ plugged' = plugged
  PROVE  Alternate'
<1>. DEFINE n == Len(wire)
<1>1. wire \in Seq(Message) /\ n \in Nat
  BY DEF NetTypeOK
<1>2. /\ Len(wire') = n + 1
      /\ \A k \in 1 .. n : wire'[k] = wire[k]
      /\ wire'[n + 1] = m
      /\ \A i \in 0 .. n : RemovedAfter(i) => RemovedBetween(i, n + 1)
  BY <1>1, Posted
<1>3. /\ \A i, j \in Nat : RemovedBetween(i, j) => RemovedBetween(i, j)'
      /\ \A i \in 0 .. n : RemovedAfter(i) \/ m.type = "remove" => RemovedAfter(i)'
  BY <1>1, Posted
<1>4. ASSUME NEW i \in 1 .. n, wire[i].type = "data"
      PROVE  /\ m.type = "data" => wire[i].device = m.device \/ RemovedBetween(i, n + 1)
             /\ wire[i].device = plugged' \/ RemovedAfter(i)'
  <2>1. wire[i].device \in Devices
    BY <1>1, <1>4, DataNamesDevice
  <2>2. wire[i].device = plugged \/ RemovedAfter(i)
    BY <1>4 DEF Alternate
  <2>. QED
    BY <2>1, <2>2, <1>2, <1>3, BusAssumption
<1>5. ASSUME HasChild
      PROVE  /\ m.type = "data" => m.device = receiveDesc \/ RemovedBetween(0, n + 1)
             /\ receiveDesc = plugged' \/ RemovedAfter(0)'
  <2>1. receiveDesc \in Devices
    BY <1>5 DEF Presented
  <2>2. receiveDesc = plugged \/ RemovedAfter(0)
    BY <1>5 DEF Alternate
  <2>3. 0 \in 0 .. n
    BY <1>1
  <2>. QED
    BY <2>1, <2>2, <2>3, <1>2, <1>3, BusAssumption
<1>6. \A i, j \in 1 .. n + 1 :
        i < j /\ wire'[i].type = "data" /\ wire'[j].type = "data"
          => wire'[i].device = wire'[j].device \/ RemovedBetween(i, j)'
  <2>1. SUFFICES ASSUME NEW i \in 1 .. n + 1, NEW j \in 1 .. n + 1, i < j,
                        wire'[i].type = "data", wire'[j].type = "data"
                 PROVE  wire'[i].device = wire'[j].device \/ RemovedBetween(i, j)'
    OBVIOUS
  <2>2. i \in 1 .. n /\ wire'[i] = wire[i]
    BY <2>1, <1>1, <1>2
  <2>3. CASE j = n + 1
    <3>1. wire[i].device = m.device \/ RemovedBetween(i, j)
      BY <1>2, <1>4, <2>1, <2>2, <2>3
    <3>. QED
      BY <1>1, <1>2, <1>3, <2>2, <2>3, <3>1
  <2>4. CASE j \in 1 .. n
    <3>1. wire[i].device = wire[j].device \/ RemovedBetween(i, j)
      BY <1>2, <2>1, <2>2, <2>4 DEF Alternate
    <3>. QED
      BY <1>2, <1>3, <2>2, <2>4, <3>1
  <2>. QED
    BY <1>1, <2>3, <2>4
<1>7. \A j \in 1 .. n + 1 :
        HasChild' /\ wire'[j].type = "data"
          => wire'[j].device = receiveDesc' \/ RemovedBetween(0, j)'
  <2>1. SUFFICES ASSUME NEW j \in 1 .. n + 1, HasChild, wire'[j].type = "data"
                 PROVE  wire'[j].device = receiveDesc \/ RemovedBetween(0, j)'
    OBVIOUS
  <2>2. CASE j = n + 1
    <3>1. m.device = receiveDesc \/ RemovedBetween(0, j)
      BY <1>2, <1>5, <2>1, <2>2
    <3>. QED
      BY <1>1, <1>2, <1>3, <2>2, <3>1
  <2>3. CASE j \in 1 .. n
    <3>1. wire[j].device = receiveDesc \/ RemovedBetween(0, j)
      BY <1>2, <2>1, <2>3 DEF Alternate
    <3>. QED
      BY <1>2, <1>3, <2>3, <3>1
  <2>. QED
    BY <1>1, <2>2, <2>3
<1>8. \A i \in 1 .. n + 1 :
        wire'[i].type = "data" => wire'[i].device = plugged' \/ RemovedAfter(i)'
  <2>1. SUFFICES ASSUME NEW i \in 1 .. n + 1, wire'[i].type = "data"
                 PROVE  wire'[i].device = plugged' \/ RemovedAfter(i)'
    OBVIOUS
  <2>2. CASE i = n + 1
    BY <1>2, <2>1, <2>2
  <2>3. CASE i \in 1 .. n
    BY <1>2, <1>4, <2>1, <2>3
  <2>. QED
    BY <1>1, <2>2, <2>3
<1>. QED
  BY <1>2, <1>5, <1>6, <1>7, <1>8 DEF Alternate

LEMMA AlternateStep ==
  ASSUME BusTypeOK, NetTypeOK, Modes, Presented, Alternate, [OrderlyNext]_vars
  PROVE  Alternate'
<1>. USE DEF modeVars, buttonVars, netVars
<1>1. ASSUME HasChild' => HasChild /\ receiveDesc' = receiveDesc, UNCHANGED <<wire, plugged>>
      PROVE  Alternate'
  BY <1>1 DEF Alternate, RemovedBetween, RemovedAfter
<1>2. ASSUME ~HasChild', wire' = <<>>
      PROVE  Alternate'
  BY <1>2 DEF Alternate
<1>3. Depart => ~HasChild'
  BY DEF Depart, RemoveDevice, Presented, busVars, childVars
<1>4. UNCHANGED busVars => UNCHANGED <<HasChild, receiveDesc>>
  BY DEF busVars, childVars
<1>5. CASE SelectTab \/ Apply \/ Cancel \/ StartServer \/ StopServer
  BY <1>1, <1>4, <1>5 DEF SelectTab, Apply, Cancel, StartServer, StopServer
<1>6. CASE StartClient
  <2>1. ~HasChild' /\ wire' = <<>>
    BY <1>4, <1>6 DEF StartClient, Modes, Presented
  <2>. QED
    BY <1>2, <2>1
<1>7. CASE StopClient \/ CloseClient
  BY <1>2, <1>3, <1>7 DEF StopClient, CloseClient
<1>8. CASE OrderlyExit
  <2>1. ~HasChild' /\ wire' = <<>>
    BY <1>4, <1>8 DEF OrderlyExit, Exit, Presented
  <2>. QED
    BY <1>2, <2>1
<1>9. CASE OrderlyReceive
  BY <1>9, AlternateRead
<1>10. CASE TwoSecondsPass \/ OnTimer
  BY <1>1, <1>4, <1>10 DEF TwoSecondsPass, OnTimer
<1>11. CASE PeerTells
  <2>1. UNCHANGED <<HasChild, receiveDesc>>
    BY <1>4, <1>11, PeerKeepsOtherEnd DEF PeerNext
  <2>2. CASE PeerAnswers
    <3>1. wire = <<>> /\ ~HasChild
      BY <2>2 DEF PeerAnswers, Presented
    <3>2. CASE USE_USB /\ plugged # NoDevice
      <4>. DEFINE both == <<Plain("answer")>> \o <<Data(plugged)>>
      <4>1. wire' = <<>> \o both
        BY <2>2, <3>1, <3>2 DEF PeerAnswers, Post
      <4>2. plugged' = plugged
        BY <2>2 DEF PeerAnswers
      <4>3. Plain("answer").type # "data" /\ Data(plugged).device = plugged
        BY DEF Plain, Data
      <4>4. /\ Len(wire') = 2
            /\ \A i \in 1 .. 2 :
                 wire'[i].type = "data" => i = 2 /\ wire'[i].device = plugged'
        <5>1. /\ both \in Seq(Message)
              /\ Len(both) = 2 /\ both[1] = Plain("answer") /\ both[2] = Data(plugged)
          <6>1. <<Plain("answer")>> \in Seq(Message) /\ <<Data(plugged)>> \in Seq(Message)
            BY <3>2, MessageTypes DEF NetTypeOK
          <6>. QED
            BY <6>1
        <5>2. wire' = both
          <6>. HIDE DEF both
          <6>. QED
            BY <4>1, <5>1, ConcatEmptySeq
        <5>. QED
          BY <5>1, <5>2, <4>2, <4>3
      <4>. QED
        BY <2>1, <3>1, <4>4 DEF Alternate
    <3>3. CASE ~(USE_USB /\ plugged # NoDevice)
      <4>1. Post(<<Plain("answer")>>) /\ plugged' = plugged
        BY <2>2, <3>3 DEF PeerAnswers, Post
      <4>2. Plain("answer") \in Message /\ Plain("answer").type \notin {"data", "remove"}
        BY MessageTypes DEF Plain
      <4>. QED
        BY <2>1, <4>1, <4>2, AlternatePost
    <3>. QED
      BY <3>2, <3>3
  <2>3. ASSUME NEW type \in Inputs, PeerInput(type) PROVE Alternate'
    <3>1. Plain(type) \in Message /\ Plain(type).type \notin {"data", "remove"}
      BY MessageTypes, ClientAssumption DEF Plain
    <3>2. Post(<<Plain(type)>>) /\ plugged' = plugged
      BY <2>3 DEF PeerInput
    <3>. QED
      BY <2>1, <3>1, <3>2, AlternatePost
  <2>4. ASSUME NEW d \in Devices, Arrival(d), plugged' = d, plugged \in {NoDevice, d}
        PROVE  Alternate'
    <3>1. Data(d) \in Message /\ Data(d).type = "data" /\ Data(d).device = d
      BY MessageTypes DEF Data
    <3>2. CASE Post(<<Data(d)>>)
      BY <2>1, <2>4, <3>1, <3>2, AlternatePost
    <3>3. CASE peer # "known"
      <4>1. wire = <<>> /\ ~HasChild /\ wire' = wire
        BY <2>4, <3>3 DEF Presented, Arrival
      <4>. QED
        BY <1>2, <2>1, <4>1
    <3>. QED
      BY <2>4, <3>2, <3>3 DEF Arrival
  <2>5. ASSUME Removal PROVE Alternate'
    <3>1. Plain("remove") \in Message /\ Plain("remove").type = "remove"
      BY MessageTypes DEF Plain
    <3>2. CASE Post(<<Plain("remove")>>)
      BY <2>1, <3>1, <3>2, AlternatePost
    <3>3. CASE peer # "known"
      <4>1. wire = <<>> /\ ~HasChild /\ wire' = wire
        BY <2>5, <3>3 DEF Presented, Removal
      <4>. QED
        BY <1>2, <2>1, <4>1
    <3>. QED
      BY <2>5, <3>2, <3>3 DEF Removal
  <2>6. CASE OtherArrives
    <3>1. plugged \in Devices /\ plugged' = plugged /\ Arrival(plugged)
      BY <2>6 DEF OtherArrives, NetTypeOK
    <3>. QED
      BY <2>4, <3>1
  <2>. QED
    BY <1>11, <2>2, <2>3, <2>4, <2>5, <2>6 DEF PeerTells, Plug, Unplug, OtherLeaves
<1>12. CASE Driver
  BY <1>1, <1>12, DriverKeepsFlag DEF Driver
<1>13. CASE UNCHANGED vars
  BY <1>1, <1>4, <1>13 DEF vars
<1>. QED
  BY <1>5, <1>6, <1>7, <1>8, <1>9, <1>10, <1>11, <1>12, <1>13 DEF OrderlyNext, PeerTells

(* The description of the child is the one inserted last.                    *)
Described ==
  /\ ioctl = "none" /\ HasChild => desc[ChildDeviceObject] = receiveDesc
  /\ ioctl = "none" => IdentityFits
  /\ ioctl = "none" /\ HasChild
       => ident[ChildDeviceObject] \in {NoDevice, desc[ChildDeviceObject]}

LEMMA DescribedInit == Init => Described
BY DEF Init, BusInit, Described, IdentityFits

(* While there is a child, what is inserted is what was inserted before.     *)
LEMMA SameDescription ==
  ASSUME NetTypeOK, Alternate, [OrderlyNext]_vars, HasChild
  PROVE  receiveDesc' = receiveDesc
<1>1. Depart => receiveDesc' = receiveDesc
  BY DEF Depart, RemoveDevice, busVars
<1>2. UNCHANGED busVars => receiveDesc' = receiveDesc
  BY DEF busVars
<1>3. CASE SelectTab \/ Apply \/ Cancel \/ StartServer \/ StopServer \/ StartClient
  BY <1>2, <1>3 DEF SelectTab, Apply, Cancel, StartServer, StopServer, StartClient
<1>4. CASE StopClient \/ CloseClient
  BY <1>1, <1>4 DEF StopClient, CloseClient
<1>5. CASE OrderlyExit \/ TwoSecondsPass \/ OnTimer
  BY <1>2, <1>5 DEF OrderlyExit, Exit, TwoSecondsPass, OnTimer
<1>6. CASE OrderlyReceive
  <2>1. CASE wire[1].type = "data" /\ HandleData(wire[1].device)
    <3>1. 1 \in 1 .. Len(wire)
      BY <1>6, OrderlyReads
    <3>2. ~RemovedBetween(0, 1)
      BY DEF RemovedBetween
    <3>3. wire[1].device = receiveDesc
      BY <2>1, <3>1, <3>2 DEF Alternate
    <3>. QED
      BY <2>1, <3>3 DEF HandleData, InsertAndAdd
  <2>. QED
    BY <1>1, <1>2, <1>6, <2>1, OrderlyReads
    DEF Handle, HandleRemove, HandleMouse, HandleReceive
<1>7. CASE PeerTells
  BY <1>2, <1>7, PeerKeepsOtherEnd DEF PeerNext
<1>8. CASE Driver
  BY <1>8, DriverKeepsFlag DEF Driver
<1>9. CASE UNCHANGED vars
  BY <1>2, <1>9 DEF vars
<1>. QED
  BY <1>3, <1>4, <1>5, <1>6, <1>7, <1>8, <1>9 DEF OrderlyNext, PeerTells

LEMMA DescribedStep ==
  ASSUME BusTypeOK, Tree, Described, OrderlyBus, HasChild => receiveDesc' = receiveDesc
  PROVE  Described'
<1>. USE DEF BusTypeOK, Described, IdentityFits, childVars, pnpVars
<1>1. CASE UNCHANGED busVars
  BY <1>1 DEF busVars
<1>2. CASE RemoveDevice
  BY <1>2 DEF RemoveDevice
<1>3. ASSUME NEW d \in Devices, InsertAndAdd(d) PROVE Described'
  BY <1>3 DEF InsertAndAdd
<1>4. CASE CreateObject
  BY <1>4 DEF CreateObject
<1>5. CASE CreateChild
  <2>1. /\ ChildDeviceObject \in Children
        /\ known = {}
        /\ ident[ChildDeviceObject] = NoDevice
    BY <1>5 DEF CreateChild, Tree
  <2>2. desc'[ChildDeviceObject] = receiveDesc
    BY <1>5, <2>1 DEF CreateChild
  <2>. QED
    BY <1>5, <2>1, <2>2 DEF CreateChild
<1>6. CASE QueryRelations
  <2>1. ioctl = "none" /\ (HasChild => Exists(ChildDeviceObject))
    BY <1>6 DEF QueryRelations, Tree, Exists
  <2>2. /\ known' = Reported
        /\ UNCHANGED <<childVars, receiveDesc, ioctl, ident, halted>>
    BY <1>6, <2>1 DEF QueryRelations
  <2>. QED
    BY <2>1, <2>2 DEF Reported
<1>7. ASSUME NEW c \in Children, QueryId(c) PROVE Described'
  <2>1. c = ChildDeviceObject /\ HasChild /\ ident' = [ident EXCEPT ![c] = receiveDesc]
    BY <1>7 DEF QueryId
  <2>2. UNCHANGED <<childVars, receiveDesc, ioctl, known>>
    BY <1>7 DEF QueryId
  <2>. QED
    BY <2>1, <2>2
<1>8. ASSUME NEW c \in Children, RemoveGone(c) PROVE Described'
  BY <1>8 DEF RemoveGone, RemoveChild
<1>. QED
  BY <1>1, <1>2, <1>3, <1>4, <1>5, <1>6, <1>7, <1>8 DEF OrderlyBus, OrderlyPnpManager

-----------------------------------------------------------------------------
(* The orderly client.                                                       *)

LEMMA OrderlyStep == Typed /\ [OrderlyNext]_vars => [Next]_vars
<1>1. ASSUME Typed, OrderlyReceive PROVE \E n \in 1 .. MaxWire : ReceiveClientData(n)
  <2>1. 1 \in 1 .. Len(wire) /\ Len(wire) <= MaxWire /\ Len(wire) \in Nat
    BY <1>1, OrderlyReads DEF Typed, TypeOK, NetTypeOK
  <2>2. 1 \in 1 .. MaxWire
    BY <2>1, ClientAssumption
  <2>. QED
    BY <1>1, <2>2 DEF OrderlyReceive
<1>2. Driver => (CreateObject \/ CreateChild \/ PnpManager) /\ UNCHANGED <<uiVars, netVars, plugged>>
  BY DEF Driver, OrderlyPnpManager, PnpManager
<1>. QED
  BY <1>1, <1>2 DEF OrderlyNext, OrderlyExit, Next

(* The orderly client is a client: whatever is shown of every use of it      *)
(* holds of the orderly use.                                                 *)
LEMMA OrderlyIsAClient == OrderlySpec => Spec
<1>1. Typed /\ [OrderlyNext]_vars => [Next]_vars /\ Typed'
  BY OrderlyStep, TypeStep
<1>. QED
  BY <1>1, TypeInit, PTL DEF OrderlySpec, Spec

OrderlyInv == Typed /\ Modes /\ Tree /\ Presented /\ Alternate /\ Described

LEMMA AlwaysOrderly == OrderlySpec => []OrderlyInv
<1>1. Init => OrderlyInv
  BY TypeInit, ModesInit, TreeInit, PresentedInit, AlternateInit, DescribedInit
  DEF OrderlyInv
<1>2. ASSUME OrderlyInv, [OrderlyNext]_vars PROVE OrderlyInv'
  <2>1. Typed /\ BusTypeOK /\ DialogTypeOK /\ NetTypeOK
    BY <1>2 DEF OrderlyInv, Typed, TypeOK
  <2>2. [Next]_vars
    BY <1>2, <2>1, OrderlyStep
  <2>3. Typed'
    BY <2>1, <2>2, TypeStep
  <2>4. Modes'
    BY <1>2, <2>1, <2>2, ModesStep DEF OrderlyInv
  <2>5. OrderlyBus
    BY <1>2, <2>1, BusStep
  <2>6. Tree'
    BY <1>2, <2>1, <2>5, TreeStep DEF OrderlyInv
  <2>7. Presented'
    BY <1>2, <2>1, PresentedStep DEF OrderlyInv
  <2>8. Alternate'
    BY <1>2, <2>1, AlternateStep DEF OrderlyInv
  <2>9. Described'
    BY <1>2, <2>1, <2>5, SameDescription, DescribedStep DEF OrderlyInv
  <2>. QED
    BY <2>3, <2>4, <2>6, <2>7, <2>8, <2>9 DEF OrderlyInv
<1>. QED
  BY <1>1, <1>2, PTL DEF OrderlySpec

(* A device is with the bus driver only while the client is connected,       *)
(* whatever messages are on their way (PassUDlg.cpp:1184, Client.cpp:185).   *)
THEOREM NoDeviceWithoutConnection == OrderlySpec => []DeviceWhileConnected
<1>1. OrderlyInv => DeviceWhileConnected
  BY DEF OrderlyInv, Presented, DeviceWhileConnected
<1>. QED
  BY <1>1, AlwaysOrderly, PTL

(* Once the PnP manager is done its tree is what the bus driver reports, and *)
(* the child it asks for is always there (Driver.c:498, 872, 917), in a use  *)
(* in which it is at rest while a device is added.                           *)
THEOREM TreeIsRight == OrderlySpec => []TreeFollows
<1>1. OrderlyInv => TreeFollows
  BY DEF OrderlyInv, Tree, TreeFollows
<1>. QED
  BY <1>1, AlwaysOrderly, PTL

(* A child is never known to the system as another device than the one whose *)
(* descriptors it answers with: between two devices the server sends a       *)
(* removal (Driver.c:270, 748, Server.cpp:512, 557).                         *)
THEOREM IdentityIsRight == OrderlySpec => []IdentityFits
<1>1. OrderlyInv => IdentityFits
  BY DEF OrderlyInv, Typed, TypeOK, BusTypeOK, Tree, Described, IdentityFits
<1>. QED
  BY <1>1, AlwaysOrderly, PTL

=============================================================================
