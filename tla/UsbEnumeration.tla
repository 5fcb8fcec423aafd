--------------------------- MODULE UsbEnumeration ---------------------------
(* GetPassUSBDesc (Server.cpp): the walk over the USB tree by which the      *)
(* server finds the device it passes on.  For every host controller the walk *)
(* opens the root hub, asks each port what is connected, reads the           *)
(* descriptors of it, and descends into external hubs.  The device whose     *)
(* serial number string has index 3 is the one whose description is sent.    *)
(*                                                                           *)
(* The walk runs in the dialog's thread and nothing else of the program runs *)
(* meanwhile, but devices come and go, their drivers become ready, and every *)
(* request to the operating system may fail: each is a choice of the step    *)
(* that makes the request.  Blocks of memory are <<place, kind>>, a place    *)
(* being <<hub, port>> and port 0 the hub itself; live holds the blocks this *)
(* walk allocated and did not free.  (No block of a walk is reached by a     *)
(* later one.)                                                               *)
EXTENDS Integers, Sequences, FiniteSets

CONSTANTS
  Controllers,  (* host controllers, 1 .. n in the order of SetupDiEnum...   *)
  RootHub,      (* RootHub[c]: the hub of controller c                       *)
  Wiring,       (* Wiring[h]: the nodes the ports of hub h lead to           *)
  NoNode,       (* a port nothing is ever connected to; no device            *)
  Devices,      (* nodes that are not hubs                                   *)
  Serial3,      (* devices with iSerialNumber = 3                            *)
  LongNames,    (* devices whose description, service or class is too long   *)
                (* for the description that is sent                          *)
  Bos,          (* nodes of USB 2.1 or later                                 *)
  DeviceStrings,(* strings the device descriptor of a node refers to         *)
  Blocks,       (* Blocks[n]: the descriptors of its configuration, in order *)
  Languages,    (* Languages[n]: the languages of its strings                *)
  Existing,     (* Existing[n]: the indices of the strings it has            *)
  Supported,    (* optional requests the operating system knows              *)
  NumStrings,   (* NUM_STRING_DESC_TO_GET - 1                                *)
  MaxWalks, MaxDisturbances     (* bounds of the exploration                 *)

Hubs     == DOMAIN Wiring
Roots    == {RootHub[c] : c \in Controllers}
External == Hubs \ Roots
Nodes    == Devices \cup External

(* A descriptor of a configuration: its type, whether its length is the one  *)
(* of its type, the string it refers to (0: none), and whether it is an      *)
(* interface of the video class.                                             *)
Types == {"config", "otherSpeed", "iad", "interface", "other", "zero"}
Block == [type : Types, sized : BOOLEAN, string : 0 .. NumStrings, video : BOOLEAN]

ASSUME EnumerationAssumption ==
  /\ Controllers \in {1 .. n : n \in 1 .. 9} /\ NumStrings \in Nat
  /\ Wiring \in [Hubs -> Seq(Nodes \cup {NoNode})]
  /\ RootHub \in [Controllers -> Hubs]
  /\ NoNode \notin Nodes \cup Hubs /\ Serial3 \subseteq Devices /\ Bos \subseteq Nodes
  /\ \A n \in Nodes : /\ Blocks[n] \in Seq(Block)
                      /\ DeviceStrings[n] \in Seq(1 .. NumStrings)
                      /\ Languages[n] \in Seq(Nat)
                      /\ Existing[n] \subseteq 1 .. NumStrings

(* The bus is a tree: each controller has a root hub of its own, a node      *)
(* hangs at one port of one hub, and in the end from a root hub.             *)
HubOf(n) == CHOOSE h \in Hubs : \E i \in DOMAIN Wiring[h] : Wiring[h][i] = n

ASSUME TreeAssumption ==
  /\ IsFiniteSet(Nodes) /\ Devices \cap Hubs = {}
  /\ \A c, d \in Controllers : RootHub[c] = RootHub[d] => c = d
  /\ \A g, h \in Hubs : \A i \in DOMAIN Wiring[g], j \in DOMAIN Wiring[h] :
       Wiring[g][i] = Wiring[h][j] /\ Wiring[g][i] # NoNode => g = h /\ i = j
  /\ \A n \in Nodes : \E h \in Hubs : \E i \in DOMAIN Wiring[h] : Wiring[h][i] = n
  /\ \A X \in SUBSET External : X # {} => \E h \in X : HubOf(h) \notin X

VARIABLES
  node,       (* each node: absent; other: plugged in, and enumerating, reset *)
              (* or failed (statuses 2 to 10); new: connected, its driver    *)
              (* not ready; ready                                            *)
  pc,         (* where the walk is                                           *)
  controller, (* index of GetPassUSBDesc                                     *)
  frames,     (* the calls of EnumerateHub under way, innermost last         *)
  port,       (* the locals of EnumerateHubPorts for the port at hand        *)
  GetPassUSBDescSuc, sendToDeviceDescData,
  TotalDevicesConnected, TotalHubs,
  EnumeratedHCListHead,  (* how often each controller is in the list         *)
  live,       (* blocks allocated and not freed                              *)
  keeps,      (* <<i, b>>: the information block i points to block b         *)
  handles,    (* hubs with an open handle                                    *)
  walks, faults, moved,  (* walks begun; requests that failed and nodes that *)
              (* changed in this walk, or after it                           *)
  disturbances  (* failures and changes so far                               *)

walkVars  == <<pc, controller, frames, port, walks>>
result    == <<GetPassUSBDescSuc, sendToDeviceDescData>>
counters  == <<TotalDevicesConnected, TotalHubs>>
memory    == <<live, keeps, handles>>
world     == <<node, moved>>
failures  == <<faults, disturbances>>
vars      == <<walkVars, result, counters, memory, world, EnumeratedHCListHead, failures>>

Plugged(n)   == n # NoNode /\ node[n] # "absent"
Connected(n) == n # NoNode /\ node[n] \in {"new", "ready"}
Ready(n)     == n # NoNode /\ node[n] = "ready"
Reachable(h) == h \notin Roots => Ready(h)

Top        == frames[Len(frames)]
NodeAt     == Wiring[Top.hub][Top.index]
Here       == <<Top.hub, Top.index>>
At(place, kinds) == {place} \X kinds

NoPort == [status |-> "NoDeviceConnected", isHub |-> FALSE, held |-> {}, props |-> "none",
           todo |-> <<>>, strings |-> <<>>]

(* What a step may cost: n requests the device could have answered failed.   *)
Disturb(n) == disturbances + n <= MaxDisturbances /\ disturbances' = disturbances + n
Fault(n)   == Disturb(n) /\ faults' = faults + n
Cost(S)    == Cardinality({i \in DOMAIN S : S[i]})

-----------------------------------------------------------------------------
Init ==
  /\ node \in [Nodes -> {"absent", "other", "ready"}]
  /\ \A n \in Nodes : Plugged(n) => Reachable(HubOf(n))
  /\ pc = "idle" /\ controller = 0 /\ frames = <<>> /\ port = NoPort
  /\ GetPassUSBDescSuc = FALSE /\ sendToDeviceDescData = NoNode
  /\ TotalDevicesConnected = 0 /\ TotalHubs = 0
  /\ EnumeratedHCListHead = [c \in Controllers |-> 0]
  /\ live = {} /\ keeps = {} /\ handles = {}
  /\ walks = 0 /\ faults = 0 /\ moved = {} /\ disturbances = 0

(* A node is plugged in, which it may take time to find out or which may     *)
(* fail, its driver becomes ready, it fails, it is pulled out; what hangs    *)
(* below a hub goes with it.                                                 *)
Closed(S) == \A m \in Nodes : HubOf(m) \in S => m \in S
Below == [n \in Nodes |->
  {m \in Nodes : \A S \in SUBSET Nodes : n \in S /\ Closed(S) => m \in S}]

Change(n, state) ==
  /\ Disturb(1)
  /\ node' = [m \in Nodes |-> IF m = n THEN state ELSE IF m \in Below[n] THEN "absent" ELSE node[m]]
  /\ moved' = moved \cup Below[n]
  /\ UNCHANGED <<walkVars, result, counters, memory, EnumeratedHCListHead, faults>>

PlugIn(n)      == /\ node[n] = "absent" /\ Reachable(HubOf(n))
                  /\ \E state \in {"other", "new"} : Change(n, state)
Enumerated(n)  == node[n] = "other" /\ \E state \in {"new", "ready"} : Change(n, state)
DriverReady(n) == node[n] = "new" /\ Change(n, "ready")
Fails(n)       == Connected(n) /\ Change(n, "other")
PullOut(n)     == Plugged(n) /\ Change(n, "absent")

-----------------------------------------------------------------------------
(* Variant for the check of TypeOK: the counters of the last walk go on.     *)
CountsOn ==
  /\ pc = "idle" /\ walks < MaxWalks
  /\ walks' = walks + 1 /\ pc' = "controllers" /\ controller' = 1
  /\ GetPassUSBDescSuc' = FALSE /\ sendToDeviceDescData' = NoNode
  /\ live' = {} /\ keeps' = {} /\ moved' = {} /\ faults' = 0
  /\ UNCHANGED <<counters, frames, port, node, disturbances, EnumeratedHCListHead, handles>>

(* GetPassUSBDesc up to the loop.  What the walk before left allocated stays *)
(* allocated and is not reached again.                                       *)
GetPassUSBDesc ==
  /\ pc = "idle" /\ walks < MaxWalks
  /\ walks' = walks + 1 /\ pc' = "controllers" /\ controller' = 1
  /\ GetPassUSBDescSuc' = FALSE /\ sendToDeviceDescData' = NoNode
  /\ TotalDevicesConnected' = 0 /\ TotalHubs' = 0
  /\ live' = {} /\ keeps' = {} /\ moved' = {} /\ faults' = 0
  /\ UNCHANGED <<frames, port, node, disturbances, EnumeratedHCListHead, handles>>

(* The loop ends, or is broken off because a controller's interface or path  *)
(* cannot be read.                                                           *)
EndWalk ==
  /\ pc = "controllers"
  /\ \/ controller \notin Controllers /\ UNCHANGED failures
     \/ controller \in Controllers /\ Fault(1)
  /\ pc' = "idle" /\ controller' = 0
  /\ UNCHANGED <<frames, port, walks, result, counters, memory, world, EnumeratedHCListHead>>

(* The name of the hub at the controller, a block of the caller's.           *)
GetRootHubName(hub) == At(<<hub, 0>>, {"HubName"})

(* A controller that cannot be opened, or whose driver key cannot be read    *)
(* (GetHCDDriverKeyName), is passed over before it is put into the list; one *)
(* whose root hub's name cannot be read, or is too long, after.              *)
SkipController ==
  /\ pc = "controllers" /\ controller \in Controllers /\ Fault(1)
  /\ controller' = controller + 1
  /\ \/ UNCHANGED <<EnumeratedHCListHead, live>>
     \/ /\ EnumeratedHCListHead' = [EnumeratedHCListHead EXCEPT ![controller] = @ + 1]
        /\ \E name \in {{}, GetRootHubName(RootHub[controller])} : live' = live \cup name
  /\ UNCHANGED <<pc, frames, port, walks, result, counters, keeps, handles, world>>

(* EnumerateHub is called with the blocks it is given.  A controller goes to *)
(* the end of the list whether or not it is there already: the search for it *)
(* (852-862) has no effect.                                                  *)
Call(hub, given) ==
  pc' = "hub" /\ frames' = Append(frames, [hub |-> hub, index |-> 0, given |-> given])

EnumerateHostController ==
  LET hub == RootHub[controller] IN
  /\ pc = "controllers" /\ controller \in Controllers
  /\ EnumeratedHCListHead' = [EnumeratedHCListHead EXCEPT ![controller] = @ + 1]
  /\ live' = live \cup GetRootHubName(hub)
  /\ Call(hub, GetRootHubName(hub))
  /\ UNCHANGED <<controller, port, walks, result, counters, keeps, handles, world, failures>>

-----------------------------------------------------------------------------
(* The end of EnumerateHub, back in EnumerateHostController or in the loop   *)
(* over the ports of the hub above.                                          *)
Return ==
  /\ frames' = SubSeq(frames, 1, Len(frames) - 1) /\ port' = NoPort
  /\ IF Len(frames) = 1 THEN pc' = "controllers" /\ controller' = controller + 1
     ELSE pc' = "port" /\ UNCHANGED controller
  /\ UNCHANGED <<walks, world, EnumeratedHCListHead, result, counters>>

(* Variant for the check of NoDanglingPointer: the information block keeps   *)
(* its pointers to the optional blocks that were freed.                      *)
OpenHubForgetsNothing ==
  LET own(kinds) == At(<<Top.hub, 0>>, kinds)
      optional   == {"HubInfoEx", "HubCapabilityEx"} \cap Supported
  IN
  /\ pc = "hub" /\ Reachable(Top.hub)
  /\ \E answered \in SUBSET optional :
       /\ Fault(Cardinality(optional \ answered))
       /\ live' = live \cup own({"info", "HubInfo"} \cup answered)
       /\ keeps' = keeps \cup own({"info"}) \X (Top.given \cup own({"HubInfo"} \cup optional))
  /\ handles' = handles \cup {Top.hub}
  /\ pc' = "port"
  /\ UNCHANGED <<controller, frames, port, walks, result, counters, world, EnumeratedHCListHead>>

(* EnumerateHub up to EnumerateHubPorts: the information block of the hub    *)
(* points to what the hub was given and to its own blocks; two of these are  *)
(* freed, and forgotten by the information block, where the request for them *)
(* fails.                                                                    *)
OpenHub ==
  LET own(kinds) == At(<<Top.hub, 0>>, kinds)
      optional   == {"HubInfoEx", "HubCapabilityEx"} \cap Supported
  IN
  /\ pc = "hub" /\ Reachable(Top.hub)
  /\ \E answered \in SUBSET optional :
       /\ Fault(Cardinality(optional \ answered))
       /\ live' = live \cup own({"info", "HubInfo"} \cup answered)
       /\ keeps' = keeps \cup own({"info"}) \X (Top.given \cup own({"HubInfo"} \cup answered))
  /\ handles' = handles \cup {Top.hub}
  /\ pc' = "port"
  /\ UNCHANGED <<controller, frames, port, walks, result, counters, world, EnumeratedHCListHead>>

(* EnumerateHubError, reached while memory is short, or, the capability      *)
(* block allocated and not freed here, because the hub cannot be opened or   *)
(* does not answer.                                                          *)
EnumerateHubError ==
  LET freed == {"HubName", "ConnectionInfo", "ConfigDesc", "BosDesc", "StringDescs"} IN
  /\ pc = "hub"
  /\ \E lost \in {{}, At(<<Top.hub, 0>>, {"HubCapabilityEx"})} :
       /\ live' = {b \in live : ~(b \in Top.given /\ b[2] \in freed)} \cup lost
       /\ Fault(IF lost # {} /\ ~Reachable(Top.hub) THEN 0 ELSE 1)
  /\ Return
  /\ UNCHANGED <<keeps, handles>>

(* Variant for the check of NothingLost: the handle of the hub is not        *)
(* closed.                                                                   *)
LeaveHubOpen ==
  /\ pc = "port"
  /\ IF Top.index = Len(Wiring[Top.hub]) THEN UNCHANGED failures ELSE Fault(1)
  /\ Return
  /\ UNCHANGED memory

(* EnumerateHubPorts is through with its ports, or breaks off because it has *)
(* no memory for the first blocks of the next.                               *)
LeaveHub ==
  /\ pc = "port"
  /\ IF Top.index = Len(Wiring[Top.hub]) THEN UNCHANGED failures ELSE Fault(1)
  /\ handles' = handles \ {Top.hub}
  /\ Return
  /\ UNCHANGED <<live, keeps>>

-----------------------------------------------------------------------------
(* EnumerateHubPorts.                                                        *)
NextIndex == frames' = [frames EXCEPT ![Len(frames)].index = @ + 1]

(* Neither request for the connection of a port succeeds: all is freed.      *)
SkipPort ==
  /\ pc = "port" /\ Top.index < Len(Wiring[Top.hub]) /\ Fault(1)
  /\ NextIndex
  /\ UNCHANGED <<pc, controller, port, walks, result, counters, memory, world, EnumeratedHCListHead>>

(* Variant for the check of WalkFinds: every device that is plugged in is    *)
(* connected.                                                                *)
PluggedIsConnected(n) == IF Plugged(n) THEN "DeviceConnected" ELSE "NoDeviceConnected"

(* The connection of the next port: its status, and whether a hub is there,  *)
(* which a hub that is not connected may or may not have told yet.           *)
ConnectionStatus(n) ==
  IF Connected(n) THEN "DeviceConnected" ELSE IF Plugged(n) THEN "other" ELSE "NoDeviceConnected"
DeviceIsHub(n) ==
  {isHub \in BOOLEAN : /\ isHub => Plugged(n) /\ n \in External
                       /\ Connected(n) /\ n \in External => isHub}

(* It is read and counted: a device if it is connected, a hub in any case.   *)
ReadConnection ==
  LET n        == Wiring[Top.hub][Top.index + 1]
      optional == {"PortConnectorProps", "ConnectionInfoV2"} \cap Supported
      one(p)   == IF p THEN 1 ELSE 0
  IN
  /\ pc = "port" /\ Top.index < Len(Wiring[Top.hub])
  /\ \E answered \in SUBSET optional :
       /\ Fault(Cardinality(optional \ answered))
       /\ \E isHub \in DeviceIsHub(n) :
            port' = [NoPort EXCEPT !.status = ConnectionStatus(n), !.isHub = isHub,
                                   !.held = {"ConnectionInfo"} \cup answered]
       /\ live' = live \cup At(<<Top.hub, Top.index + 1>>, {"ConnectionInfo"} \cup answered)
  /\ NextIndex /\ pc' = "describe"
  /\ TotalDevicesConnected' = TotalDevicesConnected + one(port'.status = "DeviceConnected")
  /\ TotalHubs' = TotalHubs + one(port'.isHub)
  /\ UNCHANGED <<controller, walks, result, keeps, handles, world, EnumeratedHCListHead>>

(* The requests about the node, where there is one.  One that is connected   *)
(* without a ready driver has no driver key, and so no properties; one that  *)
(* is not connected may have them; where a property other than the identity  *)
(* and the description cannot be read, it is left out (partial).  The        *)
(* descriptors are read of a node that is connected, each in two requests,   *)
(* the second for the length that the first gave.                            *)
GetDriverKeyName(n) == port.status # "NoDeviceConnected" /\ Plugged(n) /\ node[n] # "new"
DriverNameToDeviceProperties(n) ==
  IF GetDriverKeyName(n) THEN {"whole", "partial", "none"} ELSE {"none"}
GetConfigDescriptor(n) == port.status = "DeviceConnected" /\ Connected(n)
GetBOSDescriptor(n)    == Connected(n) /\ n \in Bos

Describe ==
  LET n == NodeAt IN
  /\ pc = "describe"
  /\ \E props \in DriverNameToDeviceProperties(n), config, bos \in BOOLEAN :
       LET got == (IF props # "none" THEN {"DevProps"} ELSE {})
                    \cup (IF config THEN {"ConfigDesc"} ELSE {})
                    \cup (IF bos THEN {"BosDesc"} ELSE {})
       IN
       /\ config => GetConfigDescriptor(n)
       /\ bos => config /\ GetBOSDescriptor(n)
       /\ Fault(Cost(<<GetDriverKeyName(n) /\ Ready(n) /\ props # "whole",
                       GetConfigDescriptor(n) /\ ~config,
                       config /\ GetBOSDescriptor(n) /\ ~bos>>))
       /\ port' = [port EXCEPT !.props = props, !.held = @ \cup got]
       /\ live' = live \cup At(Here, got)
  /\ pc' = "strings"
  /\ UNCHANGED <<controller, frames, walks, result, counters, keeps, handles, world, EnumeratedHCListHead>>

-----------------------------------------------------------------------------
(* The descriptors a loop over the configuration of n gets to see: it stops  *)
(* before one of a checked type with a wrong length, and never gets past one *)
(* of length 0.                                                              *)
Wrong(b, checked)   == b.type \in checked /\ ~b.sized
Seen(n, checked)    == {i \in DOMAIN Blocks[n] :
  \A j \in 1 .. i : ~Wrong(Blocks[n][j], checked) /\ Blocks[n][j].type # "zero"}
Endless(n, checked) == \E z \in DOMAIN Blocks[n] :
  Blocks[n][z].type = "zero" /\ \A j \in 1 .. z - 1 : ~Wrong(Blocks[n][j], checked)

Checked == {"config", "iad", "interface"}      (* GetAllStringDescriptors    *)
Looked  == {"config", "otherSpeed", "interface"}  (* AreThereStringDescriptors *)

AreThereStringDescriptors(n) ==
  \/ DeviceStrings[n] # <<>>
  \/ \E i \in Seen(n, Looked) : Blocks[n][i].type \in Looked /\ Blocks[n][i].string # 0

(* The strings GetAllStringDescriptors asks for, in its order, 0 standing    *)
(* for a descriptor that refers to none: the list begins with the entry of   *)
(* string 0, the languages, so that nothing is asked for.  The strings of a  *)
(* device with a video interface are then tried one by one.                  *)
Probe(i)   == [string |-> i, probe |-> TRUE]
Request(i) == [string |-> i, probe |-> FALSE]
GetAllStringDescriptors(n) ==
  LET seen == 1 .. Cardinality(Seen(n, Checked))
      of(b) == IF b.type \in Checked THEN b.string ELSE 0
      more  == \E i \in seen : Blocks[n][i].type = "interface" /\ Blocks[n][i].video
  IN [i \in DOMAIN DeviceStrings[n] |-> Request(DeviceStrings[n][i])]
       \o [i \in seen |-> Request(of(Blocks[n][i]))]
       \o (IF more THEN [i \in 1 .. NumStrings |-> Probe(i)] ELSE <<>>)

NoStrings ==
  /\ pc = "strings"
  /\ \/ "ConfigDesc" \notin port.held /\ pc' = "enumerate" /\ UNCHANGED failures
     \/ /\ "ConfigDesc" \in port.held /\ ~AreThereStringDescriptors(NodeAt)
        /\ pc' = IF Endless(NodeAt, Looked) THEN "endless" ELSE "enumerate"
        /\ UNCHANGED failures
     \/ (* the languages cannot be read *)
        /\ "ConfigDesc" \in port.held /\ AreThereStringDescriptors(NodeAt)
        /\ pc' = "enumerate" /\ Fault(IF Connected(NodeAt) THEN 1 ELSE 0)
  /\ UNCHANGED <<controller, frames, port, walks, result, counters, memory, world, EnumeratedHCListHead>>

StartStrings ==
  /\ pc = "strings" /\ "ConfigDesc" \in port.held
  /\ AreThereStringDescriptors(NodeAt) /\ Connected(NodeAt)
  /\ port' = [port EXCEPT !.todo = GetAllStringDescriptors(NodeAt), !.held = @ \cup {"StringDescs"},
                          !.strings = <<[index |-> 0, language |-> 0]>>]
  /\ live' = live \cup At(Here, {"StringDescs"})
  /\ pc' = "fetch"
  /\ UNCHANGED <<controller, frames, walks, result, counters, keeps, handles, world, EnumeratedHCListHead, failures>>

(* Variant for the check of StringsComplete: the list is not searched.       *)
NeverListed(i) == i # i

(* GetStringDescriptors: a string the list holds in some language is not     *)
(* asked for again; of another, the languages are asked for in turn up to    *)
(* the first that fails.  A failed probe ends the probing.                   *)
Listed(i) == \E k \in DOMAIN port.strings : port.strings[k].index = i
Answered(n, i) == IF Connected(n) /\ i \in Existing[n] THEN Len(Languages[n]) ELSE 0

GetStringDescriptor(i, language) == [index |-> i, language |-> language]
GetStringDescriptors ==
  LET n == NodeAt
      r == Head(port.todo)
  IN
  /\ pc = "fetch" /\ port.todo # <<>>
  /\ \E k \in 0 .. Answered(n, r.string) :
       /\ Listed(r.string) => k = 0
       /\ Fault(IF Listed(r.string) \/ k = Answered(n, r.string) THEN 0 ELSE 1)
       /\ port' = [port EXCEPT
            !.strings = @ \o [l \in 1 .. k |-> GetStringDescriptor(r.string, Languages[n][l])],
            !.todo    = IF r.probe /\ ~Listed(r.string) /\ k < Len(Languages[n]) THEN <<>> ELSE Tail(@)]
  /\ UNCHANGED <<pc, controller, frames, walks, result, counters, memory, world, EnumeratedHCListHead>>

(* Variant for the check of WalkEnds: the loop goes on at a malformed        *)
(* descriptor without getting past it.                                       *)
StringsContinue ==
  /\ pc = "fetch" /\ port.todo = <<>>
  /\ pc' = IF Endless(NodeAt, Checked) \/ \E i \in DOMAIN Blocks[NodeAt] : Wrong(Blocks[NodeAt][i], Checked)
           THEN "endless" ELSE "enumerate"
  /\ UNCHANGED <<controller, frames, port, walks, result, counters, memory, world, EnumeratedHCListHead, failures>>

(* The loop over the configuration ends, or does not.                        *)
StringsDone ==
  /\ pc = "fetch" /\ port.todo = <<>>
  /\ pc' = IF Endless(NodeAt, Checked) THEN "endless" ELSE "enumerate"
  /\ UNCHANGED <<controller, frames, port, walks, result, counters, memory, world, EnumeratedHCListHead, failures>>

-----------------------------------------------------------------------------
(* An external hub: EnumerateHub takes over the blocks of the port; without  *)
(* a name that fits, they are left where they are.                           *)
GetExternalHubName(n) == Ready(n)

EnumerateExternalHub ==
  /\ pc = "enumerate" /\ port.isHub /\ GetExternalHubName(NodeAt)
  /\ live' = live \cup At(<<NodeAt, 0>>, {"HubName"})
  /\ Call(NodeAt, At(Here, port.held) \cup At(<<NodeAt, 0>>, {"HubName"}))
  /\ port' = NoPort
  /\ UNCHANGED <<controller, walks, result, counters, keeps, handles, world, EnumeratedHCListHead, failures>>

SkipExternalHub ==
  /\ pc = "enumerate" /\ port.isHub /\ Fault(IF GetExternalHubName(NodeAt) THEN 1 ELSE 0)
  /\ \/ UNCHANGED live
     \/ GetExternalHubName(NodeAt) /\ live' = live \cup At(<<NodeAt, 0>>, {"HubName"})
  /\ pc' = "port" /\ port' = NoPort
  /\ UNCHANGED <<controller, frames, walks, result, counters, keeps, handles, world, EnumeratedHCListHead>>

(* A device: its information block is made; the device to pass on is copied, *)
(* its properties unconditionally, so that the program ends where one of     *)
(* them is missing or too long.                                              *)
EnumerateDevice ==
  LET passes == "ConfigDesc" \in port.held /\ NodeAt \in Serial3 IN
  /\ pc = "enumerate" /\ ~port.isHub
  /\ live' = live \cup At(Here, {"info"})
  /\ keeps' = keeps \cup At(Here, {"info"}) \X At(Here, port.held)
  /\ IF passes THEN GetPassUSBDescSuc' = TRUE /\ sendToDeviceDescData' = NodeAt ELSE UNCHANGED result
  /\ pc' = IF passes /\ (port.props # "whole" \/ NodeAt \in LongNames) THEN "crashed" ELSE "port"
  /\ port' = NoPort
  /\ UNCHANGED <<controller, frames, walks, counters, handles, world, EnumeratedHCListHead, failures>>

(* No memory for it: the blocks but two are freed and the loop is left.      *)
NoDeviceInfo ==
  /\ pc = "enumerate" /\ ~port.isHub /\ Fault(1)
  /\ live' = live \ At(Here, {"ConfigDesc", "BosDesc", "ConnectionInfo", "PortConnectorProps", "ConnectionInfoV2"})
  /\ handles' = handles \ {Top.hub}
  /\ Return
  /\ UNCHANGED keeps

-----------------------------------------------------------------------------
Walk ==
  \/ EndWalk \/ SkipController \/ EnumerateHostController
  \/ OpenHub \/ EnumerateHubError \/ LeaveHub
  \/ SkipPort \/ ReadConnection \/ Describe
  \/ NoStrings \/ StartStrings \/ GetStringDescriptors \/ StringsDone
  \/ EnumerateExternalHub \/ SkipExternalHub \/ EnumerateDevice \/ NoDeviceInfo

World == \E n \in Nodes :
  PlugIn(n) \/ Enumerated(n) \/ DriverReady(n) \/ Fails(n) \/ PullOut(n)

Next == GetPassUSBDesc \/ Walk \/ World

(* The walk runs in a thread of the program, which the system schedules.     *)
Spec == Init /\ [][Next]_vars /\ WF_vars(Walk)

-----------------------------------------------------------------------------
TypeOK ==
  /\ node \in [Nodes -> {"absent", "other", "new", "ready"}]
  /\ pc \in {"idle", "controllers", "hub", "port", "describe", "strings", "fetch", "endless",
             "enumerate", "crashed"}
  /\ controller \in 0 .. Cardinality(Controllers) + 1
  /\ \A i \in DOMAIN frames : frames[i].hub \in Hubs /\ frames[i].index \in 0 .. Len(Wiring[frames[i].hub])
  /\ GetPassUSBDescSuc \in BOOLEAN /\ sendToDeviceDescData \in Serial3 \cup {NoNode}
  /\ TotalDevicesConnected \in 0 .. Cardinality(Nodes) /\ TotalHubs \in 0 .. Cardinality(External)
  /\ \A c \in Controllers : EnumeratedHCListHead[c] \in 0 .. walks
  /\ handles \subseteq Hubs

(* No pointer of the walk leads to freed memory: not those of an information *)
(* block, not those a hub was given, nor the locals for the port at hand.    *)
(* EnumerateHubError frees what the hub's caller gave it, and the hub's      *)
(* optional blocks are freed where their request fails (1878, 1907).         *)
NoDanglingPointer ==
  /\ \A p \in keeps : p[2] \in live
  /\ \A i \in DOMAIN frames : frames[i].given \subseteq live
  /\ pc \in {"describe", "strings", "fetch", "enumerate"} => At(Here, port.held) \subseteq live

(* Each hub whose ports are being read, and no other, has an open handle;    *)
(* and after a walk where no request failed, nothing moved and each hub was  *)
(* ready or absent (2390 leaves all blocks of its port where they are),      *)
(* every block is an information block or one of these points to it.         *)
NothingLost ==
  /\ handles = {frames[i].hub : i \in 1 .. Len(frames) - (IF pc = "hub" THEN 1 ELSE 0)}
  /\ pc = "idle" /\ faults = 0 /\ moved = {} /\ (\A h \in External : ~Plugged(h) \/ Ready(h)) =>
       \A b \in live : b[2] = "info" \/ \E p \in keeps : p[2] = b

(* What a finished walk says.  Without failures it finds a device to pass on *)
(* if one was there with its driver all the time, whatever else moved; what  *)
(* it found is such a device that is there or was during the walk; and if    *)
(* nothing moved, the counters count the devices that are connected, with    *)
(* the hubs among them and perhaps hubs that are not (2310, 2315).  A walk   *)
(* that ends the program (2472-2476) does it over a device to pass on that   *)
(* moved, had no driver, failed to answer, or whose names are too long.      *)
WalkFinds ==
  /\ pc = "idle" /\ walks > 0 =>
       /\ faults = 0 /\ (\E n \in Serial3 \ moved : Ready(n)) => GetPassUSBDescSuc
       /\ GetPassUSBDescSuc => sendToDeviceDescData \in {n \in Serial3 : Ready(n) \/ n \in moved}
       /\ faults = 0 /\ moved = {} =>
            /\ TotalDevicesConnected = Cardinality({n \in Nodes : Connected(n)})
            /\ TotalHubs \in Cardinality({n \in External : Connected(n)}) ..
                             Cardinality({n \in External : Plugged(n)})
  /\ pc = "crashed" =>
       \E n \in Serial3 : /\ n = sendToDeviceDescData
                          /\ faults > 0 \/ n \in moved \cup LongNames \/ node[n] = "new"

(* The entries of a string stand together in the list, the l-th of them in   *)
(* the l-th language, so that none is there twice; and once nothing is left  *)
(* to ask for, without a failure and with the device in place, the list      *)
(* holds every string the descriptors up to the first malformed one refer to *)
(* and that exists, in every language.                                       *)
StringsComplete ==
  pc \in {"fetch", "enumerate"} /\ port.strings # <<>> =>
    LET n == NodeAt
        referred == {DeviceStrings[n][i] : i \in DOMAIN DeviceStrings[n]}
          \cup {Blocks[n][i].string : i \in {i \in Seen(n, Checked) : Blocks[n][i].type \in Checked}}
    IN /\ \A i \in DOMAIN port.strings : port.strings[i].index # 0 =>
            \E before \in 0 .. i - 1 : \A j \in DOMAIN port.strings :
              port.strings[j].index = port.strings[i].index =>
                /\ j - before \in DOMAIN Languages[n]
                /\ port.strings[j].language = Languages[n][j - before]
       /\ port.todo = <<>> /\ faults = 0 /\ n \notin moved =>
            \A s \in referred \cap Existing[n] : \A l \in DOMAIN Languages[n] :
              \E k \in DOMAIN port.strings :
                port.strings[k] = GetStringDescriptor(s, Languages[n][l])

(* A walk that has begun ends, or ends the program, however often nodes move *)
(* and requests fail, unless a configuration holds a descriptor of length 0: *)
(* the loops over it (3038, 3178) then never leave it.                       *)
WalkEnds ==
  pc # "idle" ~> (pc \in {"idle", "crashed"} \/ (pc = "endless" /\ Endless(NodeAt, {})))
=============================================================================
