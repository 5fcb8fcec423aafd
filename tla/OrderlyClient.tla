--------------------------- MODULE OrderlyClient ---------------------------
(***************************************************************************)
(* The client under an orderly use, in which the USB device of the server  *)
(* is presented as it should be:                                           *)
(*   - a read takes one message;                                           *)
(*   - a device is added once the PnP manager is done with the one before; *)
(*   - the PnP manager asks for the children only when it is told to, and  *)
(*     nobody disables the child;                                          *)
(*   - the server tells its clients of every change at its ports, and no   *)
(*     other USB device is taken out of it;                                *)
(*   - the program ends only when it is not connected.                     *)
(* The handlers are those of PassUClient and BusDevice.                    *)
(***************************************************************************)
EXTENDS PassUClient

Settled == relations = "valid" /\ gone = {}

OrderlyReceive ==
  /\ wire # <<>> /\ Head(wire).type = "data" => Settled
  /\ ReceiveClientData(1)

OrderlyExit == ~m_connectFlag /\ Exit

OrderlyPnpManager == QueryRelations \/ \E c \in Children : QueryId(c) \/ RemoveGone(c)

Driver == /\ CreateObject \/ CreateChild \/ OrderlyPnpManager
          /\ UNCHANGED <<uiVars, netVars, plugged>>

OrderlyNext ==
  /\ ~halted
  /\ \/ SelectTab \/ Apply \/ Cancel
     \/ StartServer \/ StopServer \/ StartClient \/ StopClient
     \/ CloseClient
     \/ OrderlyExit
     \/ OrderlyReceive
     \/ TwoSecondsPass \/ OnTimer
     \/ PeerAnswers
     \/ \E type \in Inputs : PeerInput(type)
     \/ \E d \in Devices : Plug(d)
     \/ Unplug \/ OtherArrives
     \/ Driver

(* The IOCTL in progress goes on, the PnP manager does what it was told to,  *)
(* and both programs handle the messages that arrive.                        *)
Progress ==
  /\ WF_vars(CreateObject /\ UNCHANGED <<uiVars, netVars, plugged>>)
  /\ WF_vars(CreateChild /\ UNCHANGED <<uiVars, netVars, plugged>>)
  /\ WF_vars(QueryRelations /\ UNCHANGED <<uiVars, netVars, plugged>>)
  /\ \A c \in Children :
       /\ WF_vars(QueryId(c) /\ UNCHANGED <<uiVars, netVars, plugged>>)
       /\ WF_vars(RemoveGone(c) /\ UNCHANGED <<uiVars, netVars, plugged>>)
  /\ WF_vars(OrderlyReceive)
  /\ WF_vars(PeerAnswers)

OrderlySpec == Init /\ [][OrderlyNext]_vars /\ Progress

-----------------------------------------------------------------------------
(* A device of the server is with the bus driver only while the client is    *)
(* connected: Stop, the server's end and the server's removal all take it    *)
(* back (PassUDlg.cpp:1184, 888, Client.cpp:185), whatever is on its way.    *)
DeviceWhileConnected == HasChild => m_connectFlag

(* When the PnP manager is done its tree holds what the bus driver reports:  *)
(* a child that runs, or nothing; and no object is used that is not there.   *)
(* Removals by message, by Stop and by a closed connection set the flag and  *)
(* invalidate the tree (Driver.c:917) while the manager asks for children    *)
(* and identities and sends removals that the driver refuses (872), and the  *)
(* next device follows in another object.  It says nothing of a manager that *)
(* asks while a device is being added (905, 498): orderly use has none.      *)
TreeFollows ==
  /\ ~halted
  /\ relations = "valid" /\ ioctl = "none" => known = Reported
  /\ \A c \in known : child[c] = "running"

(* A child is known to the system as the device whose descriptors it answers *)
(* with: QUERY_ID reads the description inserted last, the descriptors are   *)
(* those of the child's creation (Driver.c:748, 270).                        *)
IdentityFits == \A c \in known : ident[c] \in {NoDevice, desc[c]}

Shown == {ident[c] : c \in known} \ {NoDevice}

(* A device that stays in the server's port while the client stays connected *)
(* is presented to the client's system, and stays (Server.cpp:512, 538,      *)
(* Client.cpp:203, Driver.c:903).                                            *)
DevicePassed ==
  \A d \in Devices :
    <>[](peer = "known" /\ plugged = d) => <>[](Shown = {d})

(* A device does not outlive the connection or its removal at the server     *)
(* (PassUDlg.cpp:1184, Server.cpp:557).                                      *)
DeviceLeaves == <>[](~m_connectFlag \/ plugged = NoDevice) => <>[](Shown = {})

=============================================================================
