----------------------------- MODULE BusDevice -----------------------------
(***************************************************************************)
(* The parent device of the USB bus driver: it keeps one child, which an   *)
(* application adds and removes with IOCTLs, and reports it to the PnP     *)
(* manager.                                                                *)
(*                                                                         *)
(* An IOCTL runs in the thread of the application; the PnP manager asks    *)
(* for the children and removes them in threads of its own.  Nothing       *)
(* guards HasChild and ChildDeviceObject, so adding a device is three      *)
(* steps: the flag, the device object, and its timers and lists.  Inside,  *)
(* a child is the module ChildDevice; here only its life counts.           *)
(*                                                                         *)
(* The system stops (halted) when an object is used that is not there.     *)
(***************************************************************************)
EXTENDS Naturals

CONSTANTS
  Children,   (* device objects                                             *)
  NoChild,
  Devices,    (* USB devices of the server, as described by USBDEVICEDESC   *)
  NoDevice

ASSUME BusAssumption == NoChild \notin Children /\ NoDevice \notin Devices

VARIABLES
  HasChild,
  ChildDeviceObject,  (* ChildDeviceObject[0]                               *)
  child,              (* of each object: none, created, running, removed    *)
  desc,               (* the device whose descriptors a child answers with  *)
  receiveDesc,        (* the description inserted last                      *)
  ioctl,              (* how far IOCTL_BUSDRIVER_ADDDEVICE is               *)
  relations,          (* the PnP manager's picture is valid or invalidated  *)
  known,              (* children in its device tree                        *)
  gone,               (* children it has yet to send the removal            *)
  ident,              (* the device a child was told to be by QUERY_ID      *)
  halted

childVars == <<HasChild, ChildDeviceObject, child, desc>>
pnpVars   == <<relations, known, gone, ident>>
busVars   == <<childVars, receiveDesc, ioctl, pnpVars, halted>>

BusTypeOK ==
  /\ HasChild \in BOOLEAN
  /\ ChildDeviceObject \in Children \union {NoChild}
  /\ child \in [Children -> {"none", "created", "running", "removed"}]
  /\ desc \in [Children -> Devices \union {NoDevice}]
  /\ receiveDesc \in Devices \union {NoDevice}
  /\ ioctl \in {"none", "flagged", "created"}
  /\ relations \in {"valid", "invalid"}
  /\ known \subseteq Children
  /\ gone \subseteq Children
  /\ ident \in [Children -> Devices \union {NoDevice}]
  /\ halted \in BOOLEAN

(* DRIVER_AddDevice and the start of the device: the manager is about to ask *)
(* for the children.                                                         *)
BusInit ==
  /\ HasChild = FALSE
  /\ ChildDeviceObject = NoChild
  /\ child = [c \in Children |-> "none"]
  /\ desc = [c \in Children |-> NoDevice]
  /\ receiveDesc = NoDevice
  /\ ioctl = "none"
  /\ relations = "invalid"
  /\ known = {}
  /\ gone = {}
  /\ ident = [c \in Children |-> NoDevice]
  /\ halted = FALSE

BusHalt == halted' = TRUE /\ UNCHANGED <<childVars, receiveDesc, ioctl, pnpVars>>

-----------------------------------------------------------------------------
(* IOCTLs.                                                                   *)

(* Nobody refers to the object: it was never made, is deleted, or lives on   *)
(* unseen after a removal that was refused.  It can stand for a new one.     *)
Free(c) == c \notin known \union gone \union {ChildDeviceObject}

(* IOCTL_BUSDRIVER_INSERTDATA and IOCTL_BUSDRIVER_ADDDEVICE one after the    *)
(* other; the second is refused while there is a child.  Children bounds the *)
(* objects in use at a time.                                                 *)
InsertAndAdd(d) ==
  /\ ioctl = "none"
  /\ \E c \in Children : Free(c)
  /\ receiveDesc' = d
  /\ IF HasChild THEN UNCHANGED <<HasChild, ioctl>>
                 ELSE HasChild' = TRUE /\ ioctl' = "flagged"
  /\ UNCHANGED <<ChildDeviceObject, child, desc, pnpVars, halted>>

(* CreateChildDevice: IoCreateDevice, ...                                    *)
CreateObject ==
  /\ ioctl = "flagged"
  /\ \E c \in Children :
       /\ Free(c)
       /\ child' = [child EXCEPT ![c] = "created"]
       /\ desc' = [desc EXCEPT ![c] = NoDevice]
       /\ ident' = [ident EXCEPT ![c] = NoDevice]
       /\ ChildDeviceObject' = c
  /\ ioctl' = "created"
  /\ UNCHANGED <<HasChild, receiveDesc, relations, known, gone, halted>>

(* Variant of CreateChild that does not tell the PnP manager.                *)
CreateChildSilently ==
  /\ ioctl = "created"
  /\ child' = [child EXCEPT ![ChildDeviceObject] = "running"]
  /\ desc' = [desc EXCEPT ![ChildDeviceObject] = receiveDesc]
  /\ ioctl' = "none"
  /\ UNCHANGED <<HasChild, ChildDeviceObject, receiveDesc, pnpVars, halted>>

(* ... descriptors, lists and timers; then the manager is told.              *)
CreateChild ==
  /\ ioctl = "created"
  /\ child' = [child EXCEPT ![ChildDeviceObject] = "running"]
  /\ desc' = [desc EXCEPT ![ChildDeviceObject] = receiveDesc]
  /\ ioctl' = "none"
  /\ relations' = "invalid"
  /\ UNCHANGED <<HasChild, ChildDeviceObject, receiveDesc, known, gone, ident, halted>>

(* Variant of RemoveDevice that does not tell the PnP manager.               *)
RemoveSilently ==
  /\ ioctl = "none"
  /\ HasChild' = FALSE
  /\ UNCHANGED <<ChildDeviceObject, child, desc, receiveDesc, ioctl, pnpVars, halted>>

(* Variant of RemoveDevice that keeps the flag.                              *)
RemoveKeepingFlag ==
  /\ ioctl = "none"
  /\ relations' = "invalid"
  /\ UNCHANGED <<childVars, receiveDesc, ioctl, known, gone, ident, halted>>

(* IOCTL_BUSDRIVER_REMOVEDEVICE                                              *)
RemoveDevice ==
  /\ ioctl = "none"
  /\ HasChild' = FALSE
  /\ relations' = "invalid"
  /\ UNCHANGED <<ChildDeviceObject, child, desc, receiveDesc, ioctl, known, gone,
                 ident, halted>>

-----------------------------------------------------------------------------
(* The PnP manager.                                                          *)

Exists(c) == c \in Children /\ child[c] \in {"created", "running"}

(* Variant of Reported without the test.                                     *)
ReportedAnyway == {ChildDeviceObject}

Reported == IF HasChild THEN {ChildDeviceObject} ELSE {}

(* IRP_MN_QUERY_DEVICE_RELATIONS: a reference to the child is taken, so it   *)
(* has to be there.  The manager queues the removal of those that are gone.  *)
QueryRelations ==
  /\ relations = "invalid"
  /\ IF HasChild /\ ~Exists(ChildDeviceObject)
       THEN BusHalt
       ELSE /\ relations' = "valid"
            /\ known' = Reported
            /\ gone' = gone \union (known \ Reported)
            /\ UNCHANGED <<childVars, receiveDesc, ioctl, ident, halted>>

(* The user scans for changed hardware.                                      *)
Rescan ==
  /\ relations = "valid"
  /\ relations' = "invalid"
  /\ UNCHANGED <<childVars, receiveDesc, ioctl, known, gone, ident, halted>>

(* IRP_MN_QUERY_ID; DRIVER_PnpDispatch refuses it when the flag is not set.  *)
QueryId(c) ==
  /\ c \in known
  /\ ident[c] = NoDevice
  /\ HasChild
  /\ ChildDeviceObject = c
  /\ ident' = [ident EXCEPT ![c] = receiveDesc]
  /\ UNCHANGED <<childVars, receiveDesc, ioctl, relations, known, gone, halted>>

(* IRP_MN_REMOVE_DEVICE.  DRIVER_PnpDispatch refuses it when the flag is not *)
(* set; otherwise the child is removed, and whichever child it is, the flag  *)
(* is cleared.  The lists of a child that is not initialised cannot be       *)
(* emptied.                                                                  *)
RemoveChild(c) ==
  /\ halted' = (HasChild /\ child[c] = "created")
  /\ IF HasChild /\ child[c] = "running"
       THEN HasChild' = FALSE /\ child' = [child EXCEPT ![c] = "removed"]
       ELSE UNCHANGED <<HasChild, child>>
  /\ UNCHANGED <<ChildDeviceObject, desc, receiveDesc, ioctl>>

RemoveGone(c) ==
  /\ c \in gone
  /\ gone' = gone \ {c}
  /\ RemoveChild(c)
  /\ UNCHANGED <<relations, known, ident>>

(* The user disables the device: it is removed, and stays in the tree.       *)
Disable(c) ==
  /\ c \in known
  /\ RemoveChild(c)
  /\ UNCHANGED pnpVars

=============================================================================
