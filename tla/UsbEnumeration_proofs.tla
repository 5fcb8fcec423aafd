------------------------ MODULE UsbEnumeration_proofs -----------------------
(* What the walk over the USB tree keeps, for any tree, any number of        *)
(* controllers, and any failures and changes.                                *)
EXTENDS UsbEnumeration, FiniteSetTheorems, SequenceTheorems, TLAPS

(* ----- The place of the walk ---------------------------------------------- *)
(* The port at index is in hand; a hub under way has been opened; the port   *)
(* it has come to, the ports that are through, and those that are through or *)
(* have been descended into.                                                 *)
InHand   == pc \in {"describe", "strings", "fetch", "endless", "enumerate"}
Opened(k) == k < Len(frames) \/ pc # "hub"
Through(k) == IF k < Len(frames) \/ InHand THEN frames[k].index - 1 ELSE frames[k].index
Entered(k) == IF k < Len(frames) THEN frames[k].index ELSE Through(k)
Pointed(k) == IF k < Len(frames) /\ Opened(k + 1) THEN frames[k].index ELSE Through(k)

(* What holds of port i of hub h as far as the hub is under way.             *)
Read(h, i) == \A k \in DOMAIN frames : frames[k].hub = h => i <= frames[k].index
Left(h, i) == \A k \in DOMAIN frames : frames[k].hub = h => i <= Entered(k)
Kept(h, i) == \A k \in DOMAIN frames : frames[k].hub = h => Opened(k) /\ i <= Pointed(k)
Behind(c)  == pc = "idle" \/ c < controller \/ (c = controller /\ frames # <<>>)

Kinds == {"HubName", "info", "HubInfo", "HubInfoEx", "HubCapabilityEx", "ConnectionInfo",
          "PortConnectorProps", "ConnectionInfoV2", "DevProps", "ConfigDesc", "BosDesc", "StringDescs"}
Blk   == (Hubs \X Nat) \X Kinds
Frame == [hub : Hubs, index : Nat, given : SUBSET Blk]
ToDo  == [string : 0 .. NumStrings, probe : BOOLEAN]
Port  == [status : {"DeviceConnected", "other", "NoDeviceConnected"},
          isHub : BOOLEAN, held : SUBSET Kinds,
          props : {"whole", "partial", "none"},
          todo : Seq(ToDo),
          strings : Seq([index : 0 .. NumStrings, language : Nat])]

WalkTypes ==
  /\ pc \in {"idle", "controllers", "hub", "port", "describe", "strings", "fetch", "endless",
             "enumerate", "crashed"}
  /\ walks \in Nat /\ faults \in Nat /\ disturbances \in Nat
  /\ controller \in Nat /\ (pc = "idle" <=> controller = 0)
  /\ controller <= Cardinality(Controllers) + 1

StackOK ==
  /\ frames \in Seq(Frame)
  /\ frames = <<>> <=> pc \in {"idle", "controllers"}
  /\ frames # <<>> => controller \in Controllers
  /\ \A k \in DOMAIN frames : frames[k].index <= Len(Wiring[frames[k].hub])
  /\ \A k \in DOMAIN frames : k < Len(frames) \/ InHand => frames[k].index > 0
  /\ pc = "hub" => Top.index = 0
  /\ \A j, k \in DOMAIN frames : frames[j].hub = frames[k].hub => j = k

PortType   == port \in Port /\ (~InHand => port = NoPort)
MemoryType == live \in SUBSET Blk /\ keeps \in SUBSET (Blk \X Blk) /\ handles \in SUBSET Hubs
Shape      == WalkTypes /\ StackOK /\ PortType /\ MemoryType

(* The hub a frame is for was there when it was called; what it was given is *)
(* of its place, or of the port it hangs at.                                 *)
CallsOK ==
  \A k \in DOMAIN frames :
    /\ frames[k].hub \in Roots \/ frames[k].hub \in moved \/ Ready(frames[k].hub)
    /\ \A b \in frames[k].given :
         b[1] = <<frames[k].hub, 0>> \/ (k > 1 /\ b[1] = <<frames[k - 1].hub, frames[k - 1].index>>)

ListOK ==
  /\ EnumeratedHCListHead \in [Controllers -> Nat]
  /\ \A c \in Controllers :
       /\ EnumeratedHCListHead[c] <= walks
       /\ ~Behind(c) => EnumeratedHCListHead[c] < walks

WorldOK ==
  /\ node \in [Nodes -> {"absent", "other", "new", "ready"}] /\ moved \in SUBSET Nodes
  /\ \A n \in Nodes : Plugged(n) => Reachable(HubOf(n))
  /\ \A n \in Nodes \ moved : Plugged(n) => HubOf(n) \in Roots \/ HubOf(n) \notin moved

PortOK ==
  InHand =>
    LET n == NodeAt IN
    /\ port.isHub => n \in External
    /\ port.status # "NoDeviceConnected" => n \in Nodes
    /\ n \in Nodes \ moved =>
         /\ port.status = ConnectionStatus(n)
         /\ port.isHub => Plugged(n)
         /\ Connected(n) /\ n \in External => port.isHub
         /\ "ConfigDesc" \in port.held => Connected(n)
         /\ port.props = "whole" => node[n] # "new"
         /\ faults = 0 /\ pc # "describe" =>
              /\ Connected(n) => "ConfigDesc" \in port.held
              /\ Ready(n) => port.props = "whole"

ResultOK ==
  /\ sendToDeviceDescData \in Serial3 \cup {NoNode}
  /\ GetPassUSBDescSuc \in BOOLEAN
  /\ GetPassUSBDescSuc /\ pc # "crashed" =>
       sendToDeviceDescData \in {n \in Serial3 : Ready(n) \/ n \in moved}
  /\ pc = "crashed" =>
       \E n \in Serial3 : /\ n = sendToDeviceDescData
                          /\ faults > 0 \/ n \in moved \cup LongNames \/ node[n] = "new"

HandlesOK == handles = {frames[i].hub : i \in 1 .. Len(frames) - (IF pc = "hub" THEN 1 ELSE 0)}

(* A block is an information block or pointed to by one, or it is on its way *)
(* to one: given to the hub just called, or held for the port in hand.       *)
Settled(b) == b[2] = "info" \/ \E p \in keeps : p[2] = b
OnTheWay(b) == (pc = "hub" /\ b \in Top.given) \/ (InHand /\ b \in At(Here, port.held))
Smooth == faults = 0 /\ moved = {} /\ \A h \in External : ~Plugged(h) \/ Ready(h)
Owned  == Smooth => \A b \in live : Settled(b) \/ OnTheWay(b)

(* S: the hubs this walk has come to, C: the nodes it has counted as         *)
(* connected, H: those it has counted as hubs.                               *)
HubsMet(S) ==
  /\ \A k \in DOMAIN frames : frames[k].hub \in S
  /\ \A c \in Controllers : RootHub[c] \in S => Behind(c)
  /\ \A h \in Hubs : \A i \in DOMAIN Wiring[h] :
       Wiring[h][i] \in S => h \in S /\ Left(h, i)
BlocksMet(S) ==
  \A p \in keeps : p[2][1][1] \in S /\ Kept(p[2][1][1], p[2][1][2])
NodesMet(S, C, H) ==
  /\ TotalDevicesConnected = Cardinality(C) /\ TotalHubs = Cardinality(H)
  /\ \A h \in Hubs : \A i \in DOMAIN Wiring[h] :
       Wiring[h][i] \in C \cup H => h \in S /\ Read(h, i)
Counted(n, C, H) ==
  /\ Connected(n) <=> n \in C
  /\ Connected(n) /\ n \in External => n \in H
  /\ n \in H => Plugged(n)
NothingMissed(S, C, H) ==
  faults = 0 /\ walks > 0 =>
    /\ \A c \in Controllers : Behind(c) => RootHub[c] \in S
    /\ \A h \in S : \A i \in DOMAIN Wiring[h] : Wiring[h][i] \in Nodes \ moved =>
         /\ Read(h, i) => Counted(Wiring[h][i], C, H)
         /\ Left(h, i) /\ Ready(Wiring[h][i]) =>
              /\ Wiring[h][i] \in External => Wiring[h][i] \in S
              /\ Wiring[h][i] \in Serial3 => GetPassUSBDescSuc \/ pc = "crashed"
Met(S, C, H) ==
  HubsMet(S) /\ BlocksMet(S) /\ NodesMet(S, C, H) /\ NothingMissed(S, C, H)
Visited == \E S \in SUBSET Hubs, C \in SUBSET Nodes, H \in SUBSET External : Met(S, C, H)

(* The strings of node n: those its descriptors refer to, when one of them   *)
(* is there in every language, the answer to the request for one, and when   *)
(* the entries of each stand together.                                       *)
Referred(n) == {DeviceStrings[n][i] : i \in DOMAIN DeviceStrings[n]}
  \cup {Blocks[n][i].string : i \in {i \in Seen(n, Checked) : Blocks[n][i].type \in Checked}}
Whole(n, s, list) ==
  \A l \in DOMAIN Languages[n] : \E k \in DOMAIN list : list[k] = GetStringDescriptor(s, Languages[n][l])
Answer(n, s, k) == [l \in 1 .. k |-> GetStringDescriptor(s, Languages[n][l])]
Together(n, list) ==
  \A i \in DOMAIN list : list[i].index # 0 =>
    \E before \in 0 .. i - 1 : \A j \in DOMAIN list :
      list[j].index = list[i].index =>
        /\ j - before \in DOMAIN Languages[n]
        /\ list[j].language = Languages[n][j - before]

(* As long as nothing fails, each string listed is whole, and each one       *)
(* referred to is whole or still to be asked for; what is tried one by one   *)
(* comes last, so that giving up on it gives up nothing else.                *)
ProbesLast(todo)  == \A i, j \in DOMAIN todo : i < j /\ todo[i].probe => todo[j].probe
NonePartly(n, list) == \A k \in DOMAIN list : list[k].index \in Existing[n] => Whole(n, list[k].index, list)
NoneLeftOut(n, todo, list) ==
  \A s \in Referred(n) \cap Existing[n] : Whole(n, s, list) \/ \E i \in DOMAIN todo : todo[i] = Request(s)
StringsAt(n) ==
  /\ Together(n, port.strings) /\ ProbesLast(port.todo) /\ Len(port.strings) > 0
  /\ port.strings[1].index = 0
  /\ n \notin moved => Connected(n)
  /\ faults = 0 /\ n \notin moved =>
       NonePartly(n, port.strings) /\ NoneLeftOut(n, port.todo, port.strings)
StringsOK ==
  /\ pc \in {"describe", "strings"} => port.strings = <<>>
  /\ pc = "fetch" => port.strings # <<>>
  /\ InHand /\ port.strings # <<>> => \E n \in Nodes : n = NodeAt /\ StringsAt(n)

-----------------------------------------------------------------------------
(* The tree: a node hangs at one port of one hub.                            *)
LEMMA Ports ==
  ASSUME NEW h \in Hubs
  PROVE  /\ Len(Wiring[h]) \in Nat /\ DOMAIN Wiring[h] = 1 .. Len(Wiring[h])
         /\ \A i \in DOMAIN Wiring[h] : Wiring[h][i] \in Nodes \cup {NoNode}
BY EnumerationAssumption

LEMMA HangsOnce ==
  ASSUME NEW h \in Hubs, NEW i \in DOMAIN Wiring[h], Wiring[h][i] \in Nodes
  PROVE  /\ HubOf(Wiring[h][i]) = h
         /\ \A g \in Hubs : \A j \in DOMAIN Wiring[g] :
              Wiring[g][j] = Wiring[h][i] => g = h /\ j = i
<1>1. Wiring[h][i] # NoNode
  BY EnumerationAssumption
<1>2. \A g \in Hubs : \A j \in DOMAIN Wiring[g] : Wiring[g][j] = Wiring[h][i] => g = h /\ j = i
  BY <1>1, TreeAssumption
<1>. QED
  BY <1>2 DEF HubOf

LEMMA Hangs ==
  ASSUME NEW n \in Nodes
  PROVE  HubOf(n) \in Hubs /\ \E i \in DOMAIN Wiring[HubOf(n)] : Wiring[HubOf(n)][i] = n
BY TreeAssumption DEF HubOf

(* A hub that is a node is no root, and a root is no node.                   *)
LEMMA RootsAreNoNodes ==
  /\ Nodes \cap Roots = {} /\ NoNode \notin Hubs /\ NoNode \notin Nodes
  /\ External = Nodes \cap Hubs /\ Nodes \cap Devices = Nodes \ External
  /\ Serial3 \subseteq Nodes \ External
<1>1. Roots \subseteq Hubs /\ NoNode \notin Nodes \cup Hubs /\ Serial3 \subseteq Devices
  BY EnumerationAssumption DEF Roots
<1>2. Devices \cap Hubs = {}
  BY TreeAssumption
<1>. QED
  BY <1>1, <1>2 DEF Nodes, External

(* What is pulled out takes with it what hangs below.                        *)
LEMMA BelowIsClosed ==
  ASSUME NEW n \in Nodes
  PROVE  n \in Below[n] /\ Below[n] \in SUBSET Nodes /\ Closed(Below[n])
<1>1. Below[n] = {m \in Nodes : \A S \in SUBSET Nodes : n \in S /\ Closed(S) => m \in S}
  BY DEF Below
<1>2. ASSUME NEW m \in Nodes, HubOf(m) \in Below[n] PROVE m \in Below[n]
  BY <1>1, <1>2 DEF Closed
<1>. QED
  BY <1>1, <1>2 DEF Closed

-----------------------------------------------------------------------------
(* The three ways in which the stack of hubs changes.                        *)
LEMMA CallFrames ==
  ASSUME StackOK, NEW hub \in Hubs, NEW given \in SUBSET Blk, Call(hub, given)
  PROVE  /\ frames' \in Seq(Frame) /\ Len(frames') = Len(frames) + 1
         /\ \A k \in 1 .. Len(frames) : frames'[k] = frames[k]
         /\ frames'[Len(frames) + 1] = [hub |-> hub, index |-> 0, given |-> given]
         /\ frames' # <<>> /\ pc' = "hub"
<1>1. [hub |-> hub, index |-> 0, given |-> given] \in Frame
  BY DEF Frame
<1>. QED
  BY <1>1, AppendProperties DEF StackOK, Call

LEMMA ReturnFrames ==
  ASSUME StackOK, frames # <<>>, Return
  PROVE  /\ frames' \in Seq(Frame) /\ Len(frames') = Len(frames) - 1
         /\ \A k \in 1 .. Len(frames) - 1 : frames'[k] = frames[k]
         /\ frames' = <<>> <=> Len(frames) = 1
         /\ port' = NoPort
         /\ Len(frames) = 1 => pc' = "controllers" /\ controller' = controller + 1
         /\ Len(frames) # 1 => pc' = "port" /\ controller' = controller
<1>1. Len(frames) \in Nat \ {0} /\ frames \in Seq(Frame)
  BY EmptySeq DEF StackOK
<1>2. /\ SubSeq(frames, 1, Len(frames) - 1) \in Seq(Frame)
      /\ Len(SubSeq(frames, 1, Len(frames) - 1)) = Len(frames) - 1
      /\ \A k \in 1 .. Len(frames) - 1 : SubSeq(frames, 1, Len(frames) - 1)[k] = frames[k]
  BY SMTT(20), <1>1
<1>3. /\ frames' = SubSeq(frames, 1, Len(frames) - 1) /\ port' = NoPort
      /\ Len(frames) = 1 => pc' = "controllers" /\ controller' = controller + 1
      /\ Len(frames) # 1 => pc' = "port" /\ controller' = controller
  BY DEF Return
<1>4. frames' = <<>> <=> Len(frames') = 0
  BY <1>2, <1>3, EmptySeq
<1>. QED
  BY <1>1, <1>2, <1>3, <1>4

LEMMA NextFrames ==
  ASSUME StackOK, frames # <<>>, NextIndex
  PROVE  /\ frames' \in Seq(Frame) /\ Len(frames') = Len(frames) /\ frames' # <<>>
         /\ \A k \in 1 .. Len(frames) - 1 : frames'[k] = frames[k]
         /\ frames'[Len(frames)].hub = Top.hub
         /\ frames'[Len(frames)].given = Top.given
         /\ frames'[Len(frames)].index = Top.index + 1
<1>1. Len(frames) \in DOMAIN frames /\ frames \in Seq(Frame)
  BY EmptySeq DEF StackOK
<1>. DEFINE f == [Top EXCEPT !.index = @ + 1]
<1>2. f \in Frame /\ f.hub = Top.hub /\ f.given = Top.given /\ f.index = Top.index + 1
  <2>1. Top \in Frame
    BY <1>1 DEF Top
  <2>. QED
    BY <2>1 DEF Frame
<1>3. frames' = [frames EXCEPT ![Len(frames)] = f]
  BY <1>1 DEF NextIndex, Top
<1>. HIDE DEF f
<1>. QED
  BY <1>1, <1>2, <1>3, ExceptSeq, EmptySeq

-----------------------------------------------------------------------------
(* What failures cost, and what a sum of costs says of its parts.            *)
LEMMA FaultCosts ==
  ASSUME WalkTypes, NEW n \in Nat, Fault(n)
  PROVE  /\ faults' \in Nat /\ disturbances' \in Nat
         /\ faults' = 0 => faults = 0 /\ n = 0
BY DEF WalkTypes, Fault, Disturb

LEMMA FewFail ==
  ASSUME NEW a, NEW b, NEW X \in SUBSET {a, b}
  PROVE  Cardinality(X) \in Nat
<1>1. IsFiniteSet({a} \cup {b})
  BY FS_Singleton, FS_Union
<1>2. IsFiniteSet(X)
  BY <1>1, FS_Subset
<1>. QED
  BY <1>2, FS_CardinalityType

LEMMA CostOfThree ==
  ASSUME NEW a \in BOOLEAN, NEW b \in BOOLEAN, NEW c \in BOOLEAN
  PROVE  /\ Cost(<<a, b, c>>) \in Nat
         /\ Cost(<<a, b, c>>) = 0 => ~a /\ ~b /\ ~c
<1>. DEFINE X == {i \in 1 .. 3 : <<a, b, c>>[i]}
<1>1. Cost(<<a, b, c>>) = Cardinality(X)
  BY DEF Cost
<1>2. IsFiniteSet(X)
  <2>1. \A k \in Nat : IsFiniteSet(1 .. k)
    BY FS_Interval
  <2>. QED
    BY <2>1, FS_Subset
<1>3. Cardinality(X) = 0 => X = {}
  BY <1>2, FS_EmptySet
<1>4. X = {} => ~a /\ ~b /\ ~c
  <2>1. ASSUME X = {} PROVE ~ <<a, b, c>>[1] /\ ~ <<a, b, c>>[2] /\ ~ <<a, b, c>>[3]
    BY <2>1
  <2>. QED
    BY <2>1
<1>. QED
  BY <1>1, <1>2, <1>3, <1>4, FS_CardinalityType

(* The descriptors a loop sees are the first ones.                           *)
LEMMA SeenFirst ==
  ASSUME NEW n \in Nodes, NEW checked
  PROVE  /\ Cardinality(Seen(n, checked)) \in 0 .. Len(Blocks[n])
         /\ Seen(n, checked) = 1 .. Cardinality(Seen(n, checked))
<1>. DEFINE X == Seen(n, checked)
            L == Len(Blocks[n])
            m == Cardinality(X)
<1>1. L \in Nat /\ DOMAIN Blocks[n] = 1 .. L
  BY EnumerationAssumption
<1>2. X \subseteq 1 .. L /\ \A i \in X : 1 .. i \subseteq X
  BY <1>1 DEF Seen
<1>. HIDE DEF X
<1>3. IsFiniteSet(1 .. L) /\ Cardinality(1 .. L) = L
  BY <1>1, FS_Interval
<1>4. IsFiniteSet(X) /\ m \in Nat /\ m <= L
  <2>1. IsFiniteSet(X) /\ Cardinality(X) <= Cardinality(1 .. L)
    BY <1>2, <1>3, FS_Subset
  <2>2. Cardinality(X) \in Nat
    BY <2>1, FS_CardinalityType
  <2>. QED
    BY <1>3, <2>1, <2>2
<1>5. ASSUME NEW i \in X PROVE i \in 1 .. m
  <2>1. IsFiniteSet(1 .. i) /\ Cardinality(1 .. i) = i /\ i \in 1 .. L
    BY <1>1, <1>2, FS_Interval
  <2>2. Cardinality(1 .. i) <= m
    BY <1>2, <1>4, FS_Subset
  <2>. QED
    BY <1>4, <2>1, <2>2
<1>6. X \subseteq 1 .. m
  BY <1>5
<1>7. IsFiniteSet(1 .. m) /\ Cardinality(1 .. m) = m
  BY <1>4, FS_Interval
<1>8. X = 1 .. m
  BY <1>6, <1>7, FS_Subset
<1>. QED
  BY <1>4, <1>8 DEF X

(* The requests for the strings of a node, in three parts.                   *)
LEMMA RequestsInOrder ==
  ASSUME NEW n \in Nodes
  PROVE  \E a, b, c \in Seq(ToDo) :
           /\ GetAllStringDescriptors(n) = (a \o b) \o c
           /\ a = [i \in DOMAIN DeviceStrings[n] |-> Request(DeviceStrings[n][i])]
           /\ DOMAIN b = Seen(n, Checked)
           /\ \A i \in DOMAIN b :
                b[i] = Request(IF Blocks[n][i].type \in Checked THEN Blocks[n][i].string ELSE 0)
           /\ \A i \in DOMAIN c : c[i].probe
<1>. DEFINE m    == Cardinality(Seen(n, Checked))
            of(d) == IF d.type \in Checked THEN d.string ELSE 0
            more == \E i \in 1 .. m : Blocks[n][i].type = "interface" /\ Blocks[n][i].video
            a    == [i \in DOMAIN DeviceStrings[n] |-> Request(DeviceStrings[n][i])]
            b    == [i \in 1 .. m |-> Request(of(Blocks[n][i]))]
            c    == IF more THEN [i \in 1 .. NumStrings |-> Probe(i)] ELSE <<>>
<1>1. GetAllStringDescriptors(n) = (a \o b) \o c
  BY DEF GetAllStringDescriptors
<1>2. NumStrings \in Nat /\ DeviceStrings[n] \in Seq(1 .. NumStrings) /\ Blocks[n] \in Seq(Block)
  BY EnumerationAssumption
<1>3. a \in Seq(ToDo)
  <2>1. \A i \in DOMAIN DeviceStrings[n] : Request(DeviceStrings[n][i]) \in ToDo
    BY <1>2 DEF Request, ToDo
  <2>2. Len(DeviceStrings[n]) \in Nat /\ DOMAIN DeviceStrings[n] = 1 .. Len(DeviceStrings[n])
    BY <1>2
  <2>. QED
    BY <2>1, <2>2
<1>4. m \in 0 .. Len(Blocks[n]) /\ Seen(n, Checked) = 1 .. m
  BY SeenFirst
<1>5. b \in Seq(ToDo)
  <2>1. ASSUME NEW i \in 1 .. m PROVE Request(of(Blocks[n][i])) \in ToDo
    <3>1. Blocks[n][i] \in Block
      BY <1>2, <1>4
    <3>. QED
      BY <1>2, <3>1 DEF Block, Request, ToDo
  <2>2. m \in Nat
    BY <1>2, <1>4
  <2>. HIDE DEF m, of
  <2>. QED
    BY <2>1, <2>2
<1>6. c \in Seq(ToDo) /\ \A i \in DOMAIN c : c[i].probe
  <2>1. \A i \in 1 .. NumStrings : Probe(i) \in ToDo /\ Probe(i).probe
    BY <1>2 DEF Probe, ToDo
  <2>2. CASE more
    <3>1. c = [i \in 1 .. NumStrings |-> Probe(i)]
      BY <2>2
    <3>. QED
      BY <1>2, <2>1, <3>1
  <2>3. CASE ~more
    <3>1. c = <<>>
      BY <2>3
    <3>2. c \in Seq(ToDo) /\ DOMAIN c = {}
      <4>. HIDE DEF c, more
      <4>. QED
        BY <3>1, EmptySeq
    <3>. QED
      BY <3>2
  <2>. QED
    BY <2>2, <2>3
<1>7. DOMAIN b = Seen(n, Checked)
  BY <1>4
<1>. HIDE DEF a, c, m
<1>8. \A i \in DOMAIN b :
        b[i] = Request(IF Blocks[n][i].type \in Checked THEN Blocks[n][i].string ELSE 0)
  OBVIOUS
<1>. HIDE DEF b
<1>. QED
  BY <1>1, <1>3, <1>5, <1>6, <1>7, <1>8 DEF a

-----------------------------------------------------------------------------
(* Types.  First the scalars.                                                *)
LEMMA ControllerCount ==
  \E n \in 1 .. 9 : Controllers = 1 .. n /\ Cardinality(Controllers) = n
<1>1. PICK n \in 1 .. 9 : Controllers = 1 .. n
  BY EnumerationAssumption
<1>2. \A m \in Nat : Cardinality(1 .. m) = m
  BY FS_Interval
<1>. QED
  BY <1>1, <1>2

LEMMA WorldKeeps ==
  ASSUME World
  PROVE  /\ UNCHANGED <<pc, controller, frames, port, walks, result, counters, memory,
                        EnumeratedHCListHead, faults>>
         /\ Disturb(1)
BY DEF World, PlugIn, Enumerated, DriverReady, Fails, PullOut, Change, walkVars

(* What a step of the walk costs.                                            *)
LEMMA WalkCosts ==
  ASSUME Walk
  PROVE  (\E n \in Nat : Fault(n)) \/ UNCHANGED failures
<1>1. CASE OpenHub
  <2>1. PICK answered \in SUBSET ({"HubInfoEx", "HubCapabilityEx"} \cap Supported) :
          Fault(Cardinality(({"HubInfoEx", "HubCapabilityEx"} \cap Supported) \ answered))
    BY <1>1 DEF OpenHub
  <2>2. Cardinality(({"HubInfoEx", "HubCapabilityEx"} \cap Supported) \ answered) \in Nat
    BY FewFail
  <2>. QED
    BY <2>1, <2>2
<1>2. CASE ReadConnection
  <2>1. PICK answered \in SUBSET ({"PortConnectorProps", "ConnectionInfoV2"} \cap Supported) :
          Fault(Cardinality(({"PortConnectorProps", "ConnectionInfoV2"} \cap Supported) \ answered))
    BY <1>2 DEF ReadConnection
  <2>2. Cardinality(({"PortConnectorProps", "ConnectionInfoV2"} \cap Supported) \ answered) \in Nat
    BY FewFail
  <2>. QED
    BY <2>1, <2>2
<1>3. CASE Describe
  <2>1. PICK a, b, c \in BOOLEAN : Fault(Cost(<<a, b, c>>))
    BY <1>3 DEF Describe, GetDriverKeyName, GetConfigDescriptor, GetBOSDescriptor
  <2>. QED
    BY <2>1, CostOfThree
<1>4. CASE EnumerateHubError
  <2>1. PICK n \in {0, 1} : Fault(n)
    BY <1>4 DEF EnumerateHubError
  <2>. QED
    BY <2>1
<1>5. CASE NoStrings
  <2>1. (\E n \in {0, 1} : Fault(n)) \/ UNCHANGED failures
    BY <1>5 DEF NoStrings
  <2>. QED
    BY <2>1
<1>6. CASE GetStringDescriptors
  <2>1. PICK n \in {0, 1} : Fault(n)
    BY <1>6 DEF GetStringDescriptors
  <2>. QED
    BY <2>1
<1>7. CASE SkipExternalHub
  <2>1. PICK n \in {0, 1} : Fault(n)
    BY <1>7 DEF SkipExternalHub
  <2>. QED
    BY <2>1
<1>8. CASE Fault(1)
  BY <1>8
<1>. QED
  BY <1>1, <1>2, <1>3, <1>4, <1>5, <1>6, <1>7, <1>8 DEF Walk, EndWalk, SkipController,
     EnumerateHostController, LeaveHub, SkipPort, StartStrings, StringsDone, EnumerateExternalHub,
     EnumerateDevice, NoDeviceInfo

LEMMA FaultsGrow ==
  ASSUME WalkTypes, Walk \/ World
  PROVE  /\ faults' \in Nat /\ disturbances' \in Nat
         /\ faults' = 0 => faults = 0
<1>1. CASE Walk
  <2>1. CASE \E n \in Nat : Fault(n)
    BY <2>1, FaultCosts
  <2>2. CASE UNCHANGED failures
    BY <2>2 DEF WalkTypes, failures
  <2>. QED
    BY <1>1, <2>1, <2>2, WalkCosts
<1>2. CASE World
  BY <1>2, WorldKeeps DEF WalkTypes, Disturb
<1>. QED
  BY <1>1, <1>2

LEMMA WalkTypesStep ==
  ASSUME Shape, Next
  PROVE  WalkTypes'
<1>0. /\ WalkTypes /\ StackOK
      /\ Cardinality(Controllers) \in Nat /\ Controllers = 1 .. Cardinality(Controllers)
  BY ControllerCount DEF Shape
<1>1. CASE GetPassUSBDesc
  BY <1>0, <1>1 DEF GetPassUSBDesc, WalkTypes
<1>2. CASE World
  BY <1>0, <1>2, WorldKeeps, FaultsGrow DEF WalkTypes
<1>3. CASE Walk
  <2>1. faults' \in Nat /\ disturbances' \in Nat
    BY <1>0, <1>3, FaultsGrow
  <2>2. CASE EndWalk \/ SkipController
    BY <1>0, <2>1, <2>2 DEF EndWalk, SkipController, WalkTypes
  <2>3. CASE EnumerateHostController \/ EnumerateExternalHub
    BY <1>0, <2>1, <2>3 DEF EnumerateHostController, EnumerateExternalHub, Call, WalkTypes
  <2>4. CASE EnumerateHubError \/ LeaveHub \/ NoDeviceInfo
    <3>1. pc \notin {"idle", "controllers"} /\ UNCHANGED walks /\ Return
      BY <2>4 DEF EnumerateHubError, LeaveHub, NoDeviceInfo, Return
    <3>2. controller \in Controllers
      BY <1>0, <3>1 DEF StackOK
    <3>. QED
      BY <1>0, <2>1, <3>1, <3>2 DEF WalkTypes, Return
  <2>5. CASE OpenHub \/ SkipPort \/ ReadConnection \/ Describe
    BY <1>0, <2>1, <2>5 DEF OpenHub, SkipPort, ReadConnection, Describe, WalkTypes
  <2>6. CASE NoStrings \/ StartStrings \/ GetStringDescriptors \/ StringsDone
    BY <1>0, <2>1, <2>6 DEF NoStrings, StartStrings, GetStringDescriptors, StringsDone, WalkTypes
  <2>7. CASE SkipExternalHub \/ EnumerateDevice
    BY <1>0, <2>1, <2>7 DEF SkipExternalHub, EnumerateDevice, WalkTypes
  <2>. QED
    BY <1>3, <2>2, <2>3, <2>4, <2>5, <2>6, <2>7 DEF Walk
<1>. QED
  BY <1>1, <1>2, <1>3 DEF Next

(* The stack.  A hub that is called is not on it: the hubs the walk has come *)
(* to are kept in S, and neither the next controller's root nor the node at  *)
(* the port in hand is among them.                                           *)
LEMMA TopIs ==
  ASSUME StackOK, frames # <<>>
  PROVE  /\ Len(frames) \in DOMAIN frames /\ DOMAIN frames = 1 .. Len(frames) /\ Len(frames) \in Nat \ {0}
         /\ Top = frames[Len(frames)] /\ Top \in Frame /\ Top.hub \in Hubs /\ Top.index \in Nat
         /\ Top.given \in SUBSET Blk
         /\ Top.index <= Len(Wiring[Top.hub])
         /\ InHand => /\ Top.index \in DOMAIN Wiring[Top.hub] /\ Top.index > 0
                      /\ NodeAt = Wiring[Top.hub][Top.index] /\ NodeAt \in Nodes \cup {NoNode}
<1>1. Len(frames) \in DOMAIN frames /\ DOMAIN frames = 1 .. Len(frames) /\ Len(frames) \in Nat \ {0}
  BY EmptySeq DEF StackOK
<1>2. Top = frames[Len(frames)] /\ Top \in Frame
  BY <1>1 DEF Top, StackOK
<1>3. Top.hub \in Hubs /\ Top.index \in Nat /\ Top.given \in SUBSET Blk
  BY <1>2 DEF Frame
<1>4. Top.index <= Len(Wiring[Top.hub]) /\ (InHand => Top.index > 0)
  BY <1>1, <1>2 DEF StackOK
<1>5. InHand => Top.index \in DOMAIN Wiring[Top.hub]
  BY <1>3, <1>4, Ports
<1>6. InHand => NodeAt \in Nodes \cup {NoNode}
  BY <1>3, <1>5, Ports DEF NodeAt
<1>. QED
  BY <1>1, <1>2, <1>3, <1>4, <1>5, <1>6 DEF NodeAt

LEMMA RootIsNew ==
  ASSUME Shape, NEW S, HubsMet(S), pc = "controllers", controller \in Controllers
  PROVE  RootHub[controller] \in Hubs /\ RootHub[controller] \notin S
BY EnumerationAssumption DEF Shape, StackOK, WalkTypes, HubsMet, Behind

LEMMA NodeIsNew ==
  ASSUME Shape, NEW S, HubsMet(S), InHand
  PROVE  NodeAt \notin S
<1>1. frames # <<>> /\ StackOK
  BY DEF Shape, StackOK, InHand
<1>2. /\ Top.hub \in Hubs /\ Top.index \in DOMAIN Wiring[Top.hub] /\ Top.index \in Nat
      /\ Top = frames[Len(frames)] /\ Len(frames) \in DOMAIN frames
      /\ NodeAt = Wiring[Top.hub][Top.index] /\ Len(frames) \in Nat
  BY <1>1, TopIs
<1>3. Entered(Len(frames)) = Top.index - 1
  BY <1>2 DEF Entered, Through
<1>4. ~Left(Top.hub, Top.index)
  BY <1>2, <1>3 DEF Left
<1>. QED
  BY <1>2, <1>4 DEF HubsMet

LEMMA StackStays ==
  ASSUME StackOK, frames' = frames, frames # <<>> => controller' = controller,
         pc \in {"idle", "controllers"} <=> pc' \in {"idle", "controllers"},
         InHand' => InHand, pc' = "hub" => pc = "hub"
  PROVE  StackOK'
BY DEF StackOK, Top

LEMMA StackCalls ==
  ASSUME Shape, NEW S, HubsMet(S), NEW hub \in Hubs \ S, NEW given \in SUBSET Blk,
         Call(hub, given), controller' = controller, controller \in Controllers,
         frames # <<>> => Top.index > 0
  PROVE  StackOK'
<1>. DEFINE n == Len(frames)
<1>0. StackOK
  BY DEF Shape
<1>1. /\ frames' \in Seq(Frame) /\ Len(frames') = n + 1
      /\ \A k \in 1 .. n : frames'[k] = frames[k]
      /\ frames'[n + 1] = [hub |-> hub, index |-> 0, given |-> given]
      /\ frames' # <<>> /\ pc' = "hub"
  BY <1>0, CallFrames
<1>2. n \in Nat /\ DOMAIN frames = 1 .. n /\ DOMAIN frames' = 1 .. n + 1
  BY <1>1 DEF Shape, StackOK
<1>3. \A k \in 1 .. n : frames[k].hub # hub
  BY <1>2 DEF HubsMet
<1>4. Len(Wiring[hub]) \in Nat
  BY Ports
<1>5. \A k \in 1 .. n : frames[k].index > 0
  BY <1>0, <1>2 DEF StackOK, Top
<1>6. \A k \in 1 .. n + 1 : frames'[k].index <= Len(Wiring[frames'[k].hub])
  <2>1. \A k \in 1 .. n : frames[k].index <= Len(Wiring[frames[k].hub])
    BY <1>0, <1>2 DEF StackOK
  <2>2. \A k \in 1 .. n : frames'[k].index <= Len(Wiring[frames'[k].hub])
    BY <1>1, <2>1
  <2>3. frames'[n + 1].index <= Len(Wiring[frames'[n + 1].hub])
    BY <1>1, <1>4
  <2>4. \A k \in 1 .. n + 1 : k \in 1 .. n \/ k = n + 1
    BY <1>2
  <2>. QED
    BY <2>2, <2>3, <2>4
<1>7. \A k \in 1 .. n + 1 : k < n + 1 => frames'[k].index > 0
  BY <1>1, <1>2, <1>5
<1>8. ASSUME NEW j \in 1 .. n + 1, NEW k \in 1 .. n + 1, frames'[j].hub = frames'[k].hub
      PROVE  j = k
  <2>1. CASE j \in 1 .. n /\ k \in 1 .. n
    BY <1>0, <1>1, <1>2, <1>8, <2>1 DEF StackOK
  <2>2. CASE j = n + 1 /\ k \in 1 .. n
    BY <1>1, <1>3, <1>8, <2>2
  <2>3. CASE j \in 1 .. n /\ k = n + 1
    BY <1>1, <1>3, <1>8, <2>3
  <2>. QED
    BY <1>2, <2>1, <2>2, <2>3
<1>9. Top'.index = 0 /\ ~InHand'
  BY <1>1 DEF Top, InHand
<1>. QED
  BY <1>1, <1>2, <1>6, <1>7, <1>8, <1>9 DEF StackOK

LEMMA StackReturns ==
  ASSUME StackOK, frames # <<>>, Return
  PROVE  StackOK' /\ ~InHand'
<1>. DEFINE n == Len(frames)
<1>1. /\ frames' \in Seq(Frame) /\ Len(frames') = n - 1
      /\ \A k \in 1 .. n - 1 : frames'[k] = frames[k]
      /\ frames' = <<>> <=> n = 1
      /\ n = 1 => pc' = "controllers" /\ controller' = controller + 1
      /\ n # 1 => pc' = "port" /\ controller' = controller
  BY ReturnFrames
<1>2. n \in Nat \ {0} /\ DOMAIN frames = 1 .. n /\ DOMAIN frames' = 1 .. n - 1
  BY <1>1, TopIs
<1>3. ~InHand' /\ pc' # "hub" /\ pc' # "idle" /\ (pc' = "controllers" <=> n = 1)
  BY <1>1 DEF InHand
<1>4. ASSUME NEW k \in 1 .. n - 1
      PROVE  frames'[k].index <= Len(Wiring[frames'[k].hub]) /\ frames'[k].index > 0
  <2>1. k \in DOMAIN frames /\ k < Len(frames) /\ frames'[k] = frames[k]
    BY <1>1, <1>2
  <2>. QED
    BY <2>1 DEF StackOK
<1>5. ASSUME NEW j \in 1 .. n - 1, NEW k \in 1 .. n - 1, frames'[j].hub = frames'[k].hub
      PROVE  j = k
  <2>1. j \in DOMAIN frames /\ k \in DOMAIN frames /\ frames'[k] = frames[k] /\ frames'[j] = frames[j]
    BY <1>1, <1>2
  <2>. QED
    BY <1>5, <2>1 DEF StackOK
<1>6. frames' # <<>> => controller' \in Controllers
  BY <1>1 DEF StackOK
<1>. QED
  BY <1>1, <1>2, <1>3, <1>4, <1>5, <1>6 DEF StackOK

LEMMA StackNext ==
  ASSUME StackOK, frames # <<>>, NextIndex, controller' = controller,
         Top.index < Len(Wiring[Top.hub]), pc' \in {"port", "describe"}
  PROVE  StackOK'
<1>. DEFINE n == Len(frames)
<1>1. /\ frames' \in Seq(Frame) /\ Len(frames') = n /\ frames' # <<>>
      /\ \A k \in 1 .. n - 1 : frames'[k] = frames[k]
      /\ frames'[n].hub = Top.hub
      /\ frames'[n].index = Top.index + 1
  BY NextFrames
<1>2. /\ n \in Nat \ {0} /\ DOMAIN frames = 1 .. n /\ DOMAIN frames' = 1 .. n
      /\ Top = frames[n] /\ Top.hub \in Hubs /\ Top.index \in Nat
  BY <1>1, TopIs
<1>3. Len(Wiring[Top.hub]) \in Nat
  BY <1>2, Ports
<1>4. \A k \in 1 .. n : frames'[k].hub = frames[k].hub
  BY <1>1, <1>2
<1>5. \A k \in 1 .. n : frames'[k].index <= Len(Wiring[frames'[k].hub])
  BY <1>1, <1>2, <1>3 DEF StackOK
<1>6. \A k \in 1 .. n : frames'[k].index > 0
  BY <1>1, <1>2 DEF StackOK
<1>7. \A j, k \in 1 .. n : frames'[j].hub = frames'[k].hub => j = k
  BY <1>2, <1>4 DEF StackOK
<1>8. frames' # <<>> => controller' \in Controllers
  BY DEF StackOK
<1>. QED
  BY <1>1, <1>2, <1>5, <1>6, <1>7, <1>8 DEF StackOK

LEMMA AtIsBlk ==
  ASSUME NEW h \in Hubs, NEW i \in Nat, NEW kinds \in SUBSET Kinds
  PROVE  At(<<h, i>>, kinds) \in SUBSET Blk
<1>1. ASSUME NEW b \in At(<<h, i>>, kinds) PROVE b \in Blk
  <2>1. PICK k \in kinds : b = <<<<h, i>>, k>>
    BY DEF At
  <2>. QED
    BY <2>1 DEF Blk
<1>. QED
  BY <1>1

(* What is in hand: the blocks of the port, and of the hub below it.         *)
LEMMA HandIs ==
  ASSUME Shape, PortOK, InHand
  PROVE  /\ StackOK /\ frames # <<>> /\ Top.index > 0
         /\ port \in Port /\ port.held \in SUBSET Kinds
         /\ Here = <<Top.hub, Top.index>> /\ Top.hub \in Hubs /\ Top.index \in Nat
         /\ \A kinds \in SUBSET Kinds : At(Here, kinds) \in SUBSET Blk
         /\ port.isHub => /\ NodeAt \in External /\ NodeAt \in Nodes \cap Hubs
                          /\ At(<<NodeAt, 0>>, {"HubName"}) \in SUBSET Blk
<1>1. StackOK /\ frames # <<>>
  BY DEF Shape, StackOK, InHand
<1>2. Top.index > 0 /\ Top.hub \in Hubs /\ Top.index \in Nat
  BY <1>1, TopIs
<1>3. port \in Port /\ port.held \in SUBSET Kinds
  BY DEF Shape, PortType, Port
<1>4. port.isHub => NodeAt \in External /\ NodeAt \in Nodes \cap Hubs
  BY RootsAreNoNodes DEF PortOK
<1>5. \A h \in Hubs, i \in Nat, kinds \in SUBSET Kinds : At(<<h, i>>, kinds) \in SUBSET Blk
  BY AtIsBlk
<1>6. {"HubName"} \in SUBSET Kinds
  BY DEF Kinds
<1>7. Here = <<Top.hub, Top.index>>
  BY DEF Here
<1>8. port.isHub => At(<<NodeAt, 0>>, {"HubName"}) \in SUBSET Blk
  BY <1>4, <1>5, <1>6
<1>. QED
  BY <1>1, <1>2, <1>3, <1>4, <1>5, <1>7, <1>8

LEMMA StackStep ==
  ASSUME Shape, PortOK, NEW S, HubsMet(S), Next
  PROVE  StackOK'
<1>0. StackOK
  BY DEF Shape
<1>1. CASE GetPassUSBDesc
  <2>1. frames = <<>>
    BY <1>0, <1>1 DEF GetPassUSBDesc, StackOK
  <2>. QED
    BY <1>0, <1>1, <2>1, StackStays DEF GetPassUSBDesc, InHand
<1>2. CASE EndWalk
  <2>1. frames = <<>>
    BY <1>0, <1>2 DEF EndWalk, StackOK
  <2>. QED
    BY <1>0, <1>2, <2>1, StackStays DEF EndWalk, InHand
<1>3. CASE SkipController
  <2>1. frames = <<>>
    BY <1>0, <1>3 DEF SkipController, StackOK
  <2>. QED
    BY <1>0, <1>3, <2>1, StackStays DEF SkipController, InHand
<1>4. CASE EnumerateHostController
  <2>. DEFINE hub == RootHub[controller]
  <2>1. /\ Call(hub, GetRootHubName(hub)) /\ controller' = controller
        /\ pc = "controllers" /\ controller \in Controllers
    BY <1>4 DEF EnumerateHostController
  <2>2. hub \in Hubs \ S /\ frames = <<>>
    BY <1>0, <2>1, RootIsNew DEF StackOK
  <2>3. GetRootHubName(hub) \in SUBSET Blk
    <3>1. {"HubName"} \in SUBSET Kinds
      BY DEF Kinds
    <3>. QED
      BY <2>2, <3>1, AtIsBlk DEF GetRootHubName
  <2>. QED
    BY <2>1, <2>2, <2>3, StackCalls
<1>5. CASE OpenHub
  BY <1>0, <1>5, StackStays DEF OpenHub, InHand
<1>6. CASE EnumerateHubError
  <2>1. frames # <<>> /\ Return
    BY <1>0, <1>6 DEF EnumerateHubError, StackOK, Return
  <2>. QED
    BY <1>0, <2>1, StackReturns
<1>7. CASE LeaveHub
  <2>1. frames # <<>> /\ Return
    BY <1>0, <1>7 DEF LeaveHub, StackOK, Return
  <2>. QED
    BY <1>0, <2>1, StackReturns
<1>8. CASE NoDeviceInfo
  <2>1. frames # <<>> /\ Return
    BY <1>0, <1>8 DEF NoDeviceInfo, StackOK, Return
  <2>. QED
    BY <1>0, <2>1, StackReturns
<1>9. CASE SkipPort
  <2>1. frames # <<>>
    BY <1>0, <1>9 DEF SkipPort, StackOK
  <2>. QED
    BY <1>0, <1>9, <2>1, StackNext DEF SkipPort
<1>10. CASE ReadConnection
  <2>1. frames # <<>>
    BY <1>0, <1>10 DEF ReadConnection, StackOK
  <2>. QED
    BY <1>0, <1>10, <2>1, StackNext DEF ReadConnection
<1>11. CASE Describe
  BY <1>0, <1>11, StackStays DEF Describe, InHand
<1>12. CASE NoStrings
  BY <1>0, <1>12, StackStays DEF NoStrings, InHand
<1>13. CASE StartStrings
  BY <1>0, <1>13, StackStays DEF StartStrings, InHand
<1>14. CASE GetStringDescriptors
  BY <1>0, <1>14, StackStays DEF GetStringDescriptors, InHand
<1>15. CASE StringsDone
  BY <1>0, <1>15, StackStays DEF StringsDone, InHand
<1>16. CASE EnumerateExternalHub
  <2>. DEFINE given == At(Here, port.held) \cup At(<<NodeAt, 0>>, {"HubName"})
  <2>1. Call(NodeAt, given) /\ controller' = controller /\ InHand /\ port.isHub
    BY <1>16 DEF EnumerateExternalHub, InHand
  <2>2. NodeAt \in Hubs \ S
    BY <2>1, NodeIsNew, HandIs
  <2>3. given \in SUBSET Blk /\ Top.index > 0 /\ frames # <<>>
    BY <2>1, HandIs
  <2>4. controller \in Controllers
    BY <1>0, <2>3 DEF StackOK
  <2>. HIDE DEF given
  <2>. QED
    BY <2>1, <2>2, <2>3, <2>4, StackCalls
<1>17. CASE SkipExternalHub
  BY <1>0, <1>17, StackStays DEF SkipExternalHub, InHand
<1>18. CASE EnumerateDevice
  BY <1>0, <1>18, StackStays DEF EnumerateDevice, InHand
<1>19. CASE World
  BY <1>0, <1>19, WorldKeeps, StackStays DEF InHand
<1>. QED
  BY <1>1, <1>2, <1>3, <1>4, <1>5, <1>6, <1>7, <1>8, <1>9, <1>10, <1>11, <1>12, <1>13, <1>14,
     <1>15, <1>16, <1>17, <1>18, <1>19 DEF Next, Walk

(* The port in hand: a step that leaves the port alone, or puts it away.     *)
LEMMA NoPortIsPort == NoPort \in Port
<1>1. <<>> \in Seq(ToDo) /\ <<>> \in Seq([index : 0 .. NumStrings, language : Nat])
  BY EmptySeq
<1>. QED
  BY <1>1 DEF NoPort, Port

LEMMA PortStep ==
  ASSUME Shape, PortOK, Next
  PROVE  PortType'
<1>0. port \in Port /\ (~InHand => port = NoPort) /\ NoPort \in Port
  BY NoPortIsPort DEF Shape, PortType
<1>1. CASE port' = NoPort
  BY <1>0, <1>1 DEF PortType
<1>2. CASE UNCHANGED port /\ (InHand => InHand')
  BY <1>0, <1>2 DEF PortType
<1>3. CASE ReadConnection
  <2>1. PICK answered \in SUBSET ({"PortConnectorProps", "ConnectionInfoV2"} \cap Supported),
             isHub \in BOOLEAN :
          LET n == Wiring[Top.hub][Top.index + 1]
          IN port' = [NoPort EXCEPT !.status = ConnectionStatus(n), !.isHub = isHub,
                                    !.held = {"ConnectionInfo"} \cup answered]
    BY <1>3 DEF ReadConnection, DeviceIsHub
  <2>2. \A n : ConnectionStatus(n) \in {"DeviceConnected", "other", "NoDeviceConnected"}
    BY DEF ConnectionStatus
  <2>3. {"ConnectionInfo"} \cup answered \in SUBSET Kinds
    BY DEF Kinds
  <2>4. port' \in Port
    BY <1>0, <2>1, <2>2, <2>3 DEF Port
  <2>. QED
    BY <1>3, <2>4 DEF PortType, InHand, ReadConnection
<1>4. CASE Describe
  <2>1. PICK props \in {"whole", "partial", "none"}, config \in BOOLEAN, bos \in BOOLEAN :
          port' = [port EXCEPT !.props = props,
                     !.held = @ \cup ((IF props # "none" THEN {"DevProps"} ELSE {})
                                       \cup (IF config THEN {"ConfigDesc"} ELSE {})
                                       \cup (IF bos THEN {"BosDesc"} ELSE {}))]
    BY <1>4 DEF Describe, DriverNameToDeviceProperties
  <2>2. (IF props # "none" THEN {"DevProps"} ELSE {}) \cup (IF config THEN {"ConfigDesc"} ELSE {})
          \cup (IF bos THEN {"BosDesc"} ELSE {}) \in SUBSET Kinds
    BY DEF Kinds
  <2>3. port' \in Port
    BY <1>0, <2>1, <2>2 DEF Port
  <2>. QED
    BY <1>4, <2>3 DEF PortType, InHand, Describe
<1>5. CASE StartStrings
  <2>1. NodeAt \in Nodes
    <3>1. InHand /\ Connected(NodeAt)
      BY <1>5 DEF StartStrings, InHand
    <3>2. NodeAt \in Nodes \cup {NoNode}
      BY <3>1, HandIs, TopIs
    <3>. QED
      BY <3>1, <3>2 DEF Connected
  <2>2. GetAllStringDescriptors(NodeAt) \in Seq(ToDo)
    <3>1. PICK a, b, c \in Seq(ToDo) : GetAllStringDescriptors(NodeAt) = (a \o b) \o c
      BY <2>1, RequestsInOrder
    <3>. QED
      BY <3>1, ConcatProperties
  <2>3. <<[index |-> 0, language |-> 0]>> \in Seq([index : 0 .. NumStrings, language : Nat])
    BY EnumerationAssumption
  <2>4. port' \in Port
    <3>1. {"StringDescs"} \in SUBSET Kinds
      BY DEF Kinds
    <3>2. port' = [port EXCEPT !.todo = GetAllStringDescriptors(NodeAt),
                               !.held = @ \cup {"StringDescs"},
                               !.strings = <<[index |-> 0, language |-> 0]>>]
      BY <1>5 DEF StartStrings
    <3>. QED
      BY <1>0, <2>2, <2>3, <3>1, <3>2 DEF Port
  <2>. QED
    BY <1>5, <2>4 DEF PortType, InHand, StartStrings
<1>6. CASE GetStringDescriptors
  <2>1. InHand
    BY <1>6 DEF GetStringDescriptors, InHand
  <2>. DEFINE r == Head(port.todo)
              Entry == [index : 0 .. NumStrings, language : Nat]
  <2>2. /\ port.todo \in Seq(ToDo) /\ port.todo # <<>> /\ port.strings \in Seq(Entry)
    BY <1>0, <1>6 DEF Port, GetStringDescriptors
  <2>3. r \in ToDo /\ Tail(port.todo) \in Seq(ToDo)
    BY <2>2, HeadTailProperties
  <2>4. PICK k \in 0 .. Answered(NodeAt, r.string) :
          port' = [port EXCEPT
            !.strings = @ \o [l \in 1 .. k |-> GetStringDescriptor(r.string, Languages[NodeAt][l])],
            !.todo    = IF r.probe /\ ~Listed(r.string) /\ k < Len(Languages[NodeAt]) THEN <<>> ELSE Tail(@)]
    BY <1>6 DEF GetStringDescriptors
  <2>5. [l \in 1 .. k |-> GetStringDescriptor(r.string, Languages[NodeAt][l])] \in Seq(Entry)
    <3>1. CASE NodeAt \in Nodes
      <4>1. Languages[NodeAt] \in Seq(Nat)
        BY <3>1, EnumerationAssumption
      <4>2. k \in 0 .. Len(Languages[NodeAt]) /\ k \in Nat
        BY <2>4, <4>1 DEF Answered
      <4>3. \A l \in 1 .. k : GetStringDescriptor(r.string, Languages[NodeAt][l]) \in Entry
        BY SMTT(20), <2>3, <4>1, <4>2 DEF GetStringDescriptor, ToDo
      <4>. HIDE DEF r, Entry
      <4>. QED
        BY <4>2, <4>3
    <3>2. CASE NodeAt \notin Nodes
      <4>1. NodeAt = NoNode
        BY <2>1, <3>2, HandIs, TopIs
      <4>2. k = 0
        BY <2>4, <4>1 DEF Answered, Connected
      <4>. QED
        BY <4>2, EmptySeq
    <3>. QED
      BY <3>1, <3>2
  <2>6. port' \in Port
    <3>1. <<>> \in Seq(ToDo)
      BY EmptySeq
    <3>2. port.strings \o [l \in 1 .. k |-> GetStringDescriptor(r.string, Languages[NodeAt][l])] \in Seq(Entry)
      BY <2>2, <2>5, ConcatProperties
    <3>3. (IF r.probe /\ ~Listed(r.string) /\ k < Len(Languages[NodeAt]) THEN <<>> ELSE Tail(port.todo)) \in Seq(ToDo)
      BY <2>3, <3>1
    <3>. QED
      BY <1>0, <2>4, <3>2, <3>3 DEF Port
  <2>. QED
    BY <1>6, <2>6 DEF PortType, InHand, GetStringDescriptors
<1>7. ReadConnection \/ Describe \/ StartStrings \/ GetStringDescriptors
        \/ port' = NoPort \/ (UNCHANGED port /\ (InHand => InHand'))
  <2>1. CASE Walk
    BY <1>0, <2>1 DEF Walk, EndWalk, SkipController, EnumerateHostController, OpenHub, Call,
       EnumerateHubError, LeaveHub, SkipPort, NoStrings, StringsDone, EnumerateExternalHub,
       SkipExternalHub, EnumerateDevice, NoDeviceInfo, Return, InHand
  <2>2. CASE GetPassUSBDesc
    BY <1>0, <2>2 DEF GetPassUSBDesc, InHand
  <2>3. CASE World
    BY <2>3, WorldKeeps DEF InHand
  <2>. QED
    BY <2>1, <2>2, <2>3 DEF Next
<1>. QED
  BY <1>1, <1>2, <1>3, <1>4, <1>5, <1>6, <1>7

(* The blocks, what points to them, and the handles.                         *)
LEMMA MemoryStep ==
  ASSUME Shape, PortOK, Next
  PROVE  MemoryType'
<1>0. live \in SUBSET Blk /\ keeps \in SUBSET (Blk \X Blk) /\ handles \in SUBSET Hubs /\ StackOK
  BY DEF Shape, MemoryType
<1>a. ASSUME NEW X \in SUBSET Blk, live' \in SUBSET (live \cup X),
             NEW a \in SUBSET Blk, NEW b \in SUBSET Blk, keeps' \in SUBSET (keeps \cup a \X b),
             handles' \in SUBSET Hubs
      PROVE  MemoryType'
  BY <1>0, <1>a DEF MemoryType
<1>b. {} \in SUBSET Blk
  OBVIOUS
<1>1. CASE UNCHANGED memory
  BY <1>0, <1>1 DEF MemoryType, memory
<1>2. CASE GetPassUSBDesc
  BY <1>0, <1>2 DEF GetPassUSBDesc, MemoryType
<1>3. CASE SkipController \/ EnumerateHostController
  <2>1. RootHub[controller] \in Hubs
    BY <1>3, EnumerationAssumption DEF SkipController, EnumerateHostController
  <2>2. GetRootHubName(RootHub[controller]) \in SUBSET Blk
    BY <2>1, AtIsBlk DEF GetRootHubName, Kinds
  <2>3. live' \in SUBSET (live \cup GetRootHubName(RootHub[controller])) /\ UNCHANGED <<keeps, handles>>
    BY <1>3 DEF SkipController, EnumerateHostController
  <2>. QED
    BY <1>0, <1>a, <1>b, <2>2, <2>3
<1>4. CASE OpenHub
  <2>1. frames # <<>>
    BY <1>0, <1>4 DEF OpenHub, StackOK
  <2>2. Top.hub \in Hubs /\ Top.given \in SUBSET Blk
    BY <1>0, <2>1, TopIs
  <2>. DEFINE own(kinds) == At(<<Top.hub, 0>>, kinds)
  <2>3. PICK answered \in SUBSET ({"HubInfoEx", "HubCapabilityEx"} \cap Supported) :
          /\ live' = live \cup own({"info", "HubInfo"} \cup answered)
          /\ keeps' = keeps \cup own({"info"}) \X (Top.given \cup own({"HubInfo"} \cup answered))
    BY <1>4 DEF OpenHub
  <2>4. \A kinds \in SUBSET Kinds : own(kinds) \in SUBSET Blk
    BY <2>2, AtIsBlk
  <2>5. /\ {"info"} \in SUBSET Kinds /\ {"info", "HubInfo"} \cup answered \in SUBSET Kinds
        /\ {"HubInfo"} \cup answered \in SUBSET Kinds
    BY DEF Kinds
  <2>6. /\ own({"info", "HubInfo"} \cup answered) \in SUBSET Blk /\ own({"info"}) \in SUBSET Blk
        /\ Top.given \cup own({"HubInfo"} \cup answered) \in SUBSET Blk
    BY <2>2, <2>4, <2>5
  <2>7. handles' \in SUBSET Hubs
    BY <1>0, <1>4, <2>2 DEF OpenHub
  <2>8. \E X, a, b \in SUBSET Blk : live' = live \cup X /\ keeps' = keeps \cup a \X b
    BY <2>3, <2>6
  <2>. QED
    BY <1>a, <2>7, <2>8
<1>5. CASE EnumerateHubError
  <2>1. frames # <<>>
    BY <1>0, <1>5 DEF EnumerateHubError, StackOK
  <2>2. At(<<Top.hub, 0>>, {"HubCapabilityEx"}) \in SUBSET Blk
    BY <1>0, <2>1, TopIs, AtIsBlk DEF Kinds
  <2>3. live' \in SUBSET (live \cup At(<<Top.hub, 0>>, {"HubCapabilityEx"})) /\ UNCHANGED <<keeps, handles>>
    BY <1>5 DEF EnumerateHubError
  <2>. QED
    BY <1>0, <1>a, <1>b, <2>2, <2>3
<1>6. CASE LeaveHub \/ NoDeviceInfo
  BY <1>0, <1>a, <1>b, <1>6 DEF LeaveHub, NoDeviceInfo
<1>7. CASE ReadConnection
  <2>1. frames # <<>>
    BY <1>0, <1>7 DEF ReadConnection, StackOK
  <2>2. PICK answered \in SUBSET ({"PortConnectorProps", "ConnectionInfoV2"} \cap Supported) :
          live' = live \cup At(<<Top.hub, Top.index + 1>>, {"ConnectionInfo"} \cup answered)
    BY <1>7 DEF ReadConnection
  <2>3. Top.hub \in Hubs /\ Top.index + 1 \in Nat
    BY <1>0, <2>1, TopIs
  <2>4. {"ConnectionInfo"} \cup answered \in SUBSET Kinds
    BY DEF Kinds
  <2>5. At(<<Top.hub, Top.index + 1>>, {"ConnectionInfo"} \cup answered) \in SUBSET Blk
    BY <2>3, <2>4, AtIsBlk
  <2>. QED
    BY <1>0, <1>7, <1>a, <1>b, <2>2, <2>5 DEF ReadConnection
<1>8. CASE Describe \/ StartStrings
  <2>1. InHand /\ UNCHANGED <<keeps, handles>>
    BY <1>8 DEF Describe, StartStrings, InHand
  <2>2. \A kinds \in SUBSET Kinds : At(Here, kinds) \in SUBSET Blk
    BY <2>1, HandIs
  <2>3. \E got \in SUBSET {"DevProps", "ConfigDesc", "BosDesc", "StringDescs"} : live' = live \cup At(Here, got)
    <3>1. CASE Describe
      <4>1. PICK props \in {"whole", "partial", "none"}, config \in BOOLEAN, bos \in BOOLEAN :
              live' = live \cup At(Here, (IF props # "none" THEN {"DevProps"} ELSE {})
                                           \cup (IF config THEN {"ConfigDesc"} ELSE {})
                                           \cup (IF bos THEN {"BosDesc"} ELSE {}))
        BY <3>1 DEF Describe, DriverNameToDeviceProperties
      <4>. QED
        BY <4>1
    <3>2. CASE StartStrings
      BY <3>2 DEF StartStrings
    <3>. QED
      BY <1>8, <3>1, <3>2
  <2>4. PICK got \in SUBSET Kinds : live' = live \cup At(Here, got)
    BY <2>3 DEF Kinds
  <2>5. At(Here, got) \in SUBSET Blk
    BY <2>2
  <2>. QED
    BY <1>0, <1>a, <1>b, <2>1, <2>4, <2>5
<1>9. CASE EnumerateExternalHub \/ SkipExternalHub
  <2>1. InHand /\ port.isHub /\ UNCHANGED <<keeps, handles>>
    BY <1>9 DEF EnumerateExternalHub, SkipExternalHub, InHand
  <2>2. At(<<NodeAt, 0>>, {"HubName"}) \in SUBSET Blk
    BY <2>1, HandIs
  <2>3. live' \in SUBSET (live \cup At(<<NodeAt, 0>>, {"HubName"}))
    BY <1>9 DEF EnumerateExternalHub, SkipExternalHub
  <2>. QED
    BY <1>0, <1>a, <1>b, <2>1, <2>2, <2>3
<1>10. CASE EnumerateDevice
  <2>1. InHand
    BY <1>10 DEF EnumerateDevice, InHand
  <2>2. At(Here, {"info"}) \in SUBSET Blk /\ At(Here, port.held) \in SUBSET Blk
    BY <2>1, HandIs DEF Kinds
  <2>3. /\ live' = live \cup At(Here, {"info"}) /\ handles' = handles
        /\ keeps' = keeps \cup At(Here, {"info"}) \X At(Here, port.held)
    BY <1>10 DEF EnumerateDevice
  <2>. QED
    BY <1>0, <1>a, <2>2, <2>3
<1>11. UNCHANGED memory \/ GetPassUSBDesc \/ SkipController \/ EnumerateHostController \/ OpenHub
         \/ EnumerateHubError \/ LeaveHub \/ NoDeviceInfo \/ ReadConnection \/ Describe \/ StartStrings
         \/ EnumerateExternalHub \/ SkipExternalHub \/ EnumerateDevice
  BY WorldKeeps DEF Next, Walk, EndWalk, SkipPort, NoStrings, GetStringDescriptors, StringsDone
<1>. QED
  BY <1>1, <1>2, <1>3, <1>4, <1>5, <1>6, <1>7, <1>8, <1>9, <1>10, <1>11

LEMMA ShapeStep ==
  ASSUME Shape, PortOK, NEW S, HubsMet(S), Next
  PROVE  Shape'
BY WalkTypesStep, StackStep, PortStep, MemoryStep DEF Shape

LEMMA ShapeInit == Init => Shape
<1>1. <<>> \in Seq(Frame) /\ DOMAIN <<>> = {}
  BY EmptySeq
<1>2. Cardinality(Controllers) \in Nat
  BY ControllerCount
<1>. QED
  BY <1>1, <1>2, NoPortIsPort DEF Init, Shape, WalkTypes, StackOK, PortType, MemoryType, InHand

-----------------------------------------------------------------------------
(* The world moves: what is left of the nodes that did not move.             *)
LEMMA NotBelowItself ==
  ASSUME NEW n \in Nodes
  PROVE  HubOf(n) \notin Below[n]
<1>. SUFFICES ASSUME HubOf(n) \in Below[n] PROVE FALSE
  OBVIOUS
<1>1. n \in Below[n] /\ Below[n] \in SUBSET Nodes /\ Closed(Below[n])
  BY BelowIsClosed
<1>2. ASSUME NEW m \in Below[n] PROVE HubOf(m) \in Below[n]
  <2>. SUFFICES ASSUME HubOf(m) \notin Below[n] PROVE FALSE
    OBVIOUS
  <2>. DEFINE S == Below[n] \ {m}
  <2>1. m # n /\ n \in S /\ S \in SUBSET Nodes
    BY <1>1
  <2>2. Closed(S)
    BY <1>1 DEF Closed
  <2>3. m \in S
    BY <1>2, <2>1, <2>2 DEF Below
  <2>. QED
    BY <2>3
<1>. DEFINE X == Below[n] \cap External
<1>3. \A m \in Nodes : HubOf(m) \in Hubs
  BY Hangs
<1>4. X \in SUBSET External /\ HubOf(n) \in X
  BY <1>1, <1>3, RootsAreNoNodes
<1>5. \A h \in X : HubOf(h) \in X
  BY <1>1, <1>2, <1>3, RootsAreNoNodes
<1>. QED
  BY <1>4, <1>5, TreeAssumption

LEMMA WorldChange ==
  ASSUME WorldOK, NEW n \in Nodes, NEW state \in {"absent", "other", "new", "ready"},
         Change(n, state), state = "absent" \/ Reachable(HubOf(n))
  PROVE  /\ WorldOK' /\ moved \subseteq moved' /\ moved' # {}
         /\ \A m \in Nodes \ moved' : node'[m] = node[m]
<1>. DEFINE S == Below[n]
<1>0. n \in S /\ S \in SUBSET Nodes /\ Closed(S) /\ HubOf(n) \notin S
  BY BelowIsClosed, NotBelowItself
<1>1. /\ node' = [m \in Nodes |-> IF m = n THEN state ELSE IF m \in S THEN "absent" ELSE node[m]]
      /\ moved' = moved \cup S
      /\ node' \in [Nodes -> {"absent", "other", "new", "ready"}] /\ moved' \in SUBSET Nodes
  BY <1>0 DEF Change, WorldOK
<1>. HIDE DEF S
<1>2. \A m \in Nodes \ S : node'[m] = node[m] /\ Plugged(m)' = Plugged(m) /\ Ready(m)' = Ready(m)
  BY <1>0, <1>1 DEF Plugged, Ready
<1>3. \A m \in Nodes : HubOf(m) \in Hubs /\ (HubOf(m) \notin Roots => HubOf(m) \in Nodes)
  BY Hangs DEF Nodes, External
<1>4. ASSUME NEW m \in Nodes, HubOf(m) \notin S, Reachable(HubOf(m)) PROVE Reachable(HubOf(m))'
  BY <1>2, <1>3, <1>4 DEF Reachable
<1>5. ASSUME NEW m \in Nodes, Plugged(m)' PROVE Reachable(HubOf(m))'
  <2>1. CASE m \in S
    <3>1. m = n /\ state # "absent"
      BY <1>1, <1>5, <2>1 DEF Plugged
    <3>. QED
      BY <1>0, <1>4, <3>1
  <2>2. CASE m \notin S
    <3>1. Plugged(m) /\ HubOf(m) \notin S
      BY <1>0, <1>2, <1>5, <2>2 DEF Closed
    <3>. QED
      BY <1>4, <3>1 DEF WorldOK
  <2>. QED
    BY <2>1, <2>2
<1>6. ASSUME NEW m \in Nodes \ moved', Plugged(m)' PROVE HubOf(m) \in Roots \/ HubOf(m) \notin moved'
  <2>1. m \notin S /\ m \notin moved
    BY <1>1, <1>6
  <2>2. Plugged(m) /\ HubOf(m) \notin S
    BY <1>0, <1>2, <1>6, <2>1 DEF Closed
  <2>. QED
    BY <1>1, <2>1, <2>2 DEF WorldOK
<1>7. moved \subseteq moved' /\ moved' # {} /\ \A m \in Nodes \ moved' : node'[m] = node[m]
  BY <1>0, <1>1
<1>. QED
  BY <1>1, <1>5, <1>6, <1>7 DEF WorldOK

LEMMA WorldMoves ==
  ASSUME WorldOK, World
  PROVE  /\ WorldOK' /\ moved \subseteq moved' /\ moved' # {}
         /\ \A n \in Nodes \ moved' : node'[n] = node[n]
<1>1. PICK n \in Nodes : PlugIn(n) \/ Enumerated(n) \/ DriverReady(n) \/ Fails(n) \/ PullOut(n)
  BY DEF World
<1>2. PICK state \in {"absent", "other", "new", "ready"} : Change(n, state)
  BY <1>1 DEF PlugIn, Enumerated, DriverReady, Fails, PullOut
<1>3. Reachable(HubOf(n))
  <2>1. CASE PlugIn(n)
    BY <2>1 DEF PlugIn
  <2>2. CASE ~PlugIn(n)
    <3>1. Plugged(n)
      BY <1>1, <2>2, RootsAreNoNodes DEF Enumerated, DriverReady, Fails, PullOut, Plugged, Connected
    <3>. QED
      BY <3>1 DEF WorldOK
  <2>. QED
    BY <2>1, <2>2
<1>. QED
  BY <1>2, <1>3, WorldChange

(* Of a node that has not moved, everything stays true.                      *)
LEMMA NodesStay ==
  ASSUME WorldOK, World, NEW n \in Nodes, n \notin moved'
  PROVE  /\ n \notin moved /\ Plugged(n)' = Plugged(n)
         /\ Connected(n)' = Connected(n) /\ Ready(n)' = Ready(n)
BY WorldMoves DEF Plugged, Connected, Ready

LEMMA WalkKeepsWorld ==
  ASSUME Walk
  PROVE  UNCHANGED <<node, moved, walks>>
BY DEF Walk, EndWalk, SkipController, EnumerateHostController, OpenHub, EnumerateHubError, LeaveHub,
   SkipPort, ReadConnection, Describe, NoStrings, StartStrings, GetStringDescriptors, StringsDone,
   EnumerateExternalHub, SkipExternalHub, EnumerateDevice, NoDeviceInfo, Return, world

LEMMA WorldStep ==
  ASSUME WorldOK, Next
  PROVE  WorldOK'
<1>1. CASE GetPassUSBDesc
  BY <1>1 DEF GetPassUSBDesc, WorldOK, Plugged, Reachable, Ready
<1>2. CASE Walk
  BY <1>2, WalkKeepsWorld DEF WorldOK, Plugged, Reachable, Ready
<1>3. CASE World
  BY <1>3, WorldMoves
<1>. QED
  BY <1>1, <1>2, <1>3 DEF Next

LEMMA WorldInit == Init => WorldOK
BY DEF Init, WorldOK

-----------------------------------------------------------------------------
(* The calls under way.                                                      *)
LEMMA CallsKept ==
  ASSUME CallsOK, UNCHANGED <<node, moved>>,
         \A k \in DOMAIN frames' : /\ k \in DOMAIN frames
                                   /\ frames'[k].hub = frames[k].hub
                                   /\ frames'[k].given = frames[k].given
                                   /\ k > 1 => frames'[k - 1] = frames[k - 1]
  PROVE  CallsOK'
BY DEF CallsOK, Ready

LEMMA CallsCalled ==
  ASSUME StackOK, CallsOK, UNCHANGED <<node, moved>>, NEW hub \in Hubs, NEW given \in SUBSET Blk,
         Call(hub, given), hub \in Roots \/ Ready(hub),
         \A b \in given : b[1] = <<hub, 0>> \/ (frames # <<>> /\ b[1] = Here)
  PROVE  CallsOK'
<1>. DEFINE n == Len(frames)
<1>1. /\ frames' \in Seq(Frame) /\ Len(frames') = n + 1
      /\ \A k \in 1 .. n : frames'[k] = frames[k]
      /\ frames'[n + 1] = [hub |-> hub, index |-> 0, given |-> given]
  BY CallFrames
<1>2. n \in Nat /\ DOMAIN frames = 1 .. n /\ DOMAIN frames' = 1 .. n + 1
  BY <1>1 DEF StackOK
<1>3. ASSUME NEW k \in 1 .. n
      PROVE  /\ frames'[k].hub \in Roots \/ frames'[k].hub \in moved \/ Ready(frames'[k].hub)
             /\ \A b \in frames'[k].given :
                  b[1] = <<frames'[k].hub, 0>>
                    \/ (k > 1 /\ b[1] = <<frames'[k - 1].hub, frames'[k - 1].index>>)
  <2>1. frames'[k] = frames[k] /\ (k > 1 => frames'[k - 1] = frames[k - 1]) /\ k \in DOMAIN frames
    BY <1>1, <1>2
  <2>2. /\ frames[k].hub \in Roots \/ frames[k].hub \in moved \/ Ready(frames[k].hub)
        /\ \A b \in frames[k].given :
             b[1] = <<frames[k].hub, 0>>
               \/ (k > 1 /\ b[1] = <<frames[k - 1].hub, frames[k - 1].index>>)
    BY <2>1 DEF CallsOK
  <2>. QED
    BY <2>1, <2>2
<1>4. /\ frames'[n + 1].hub \in Roots \/ Ready(frames'[n + 1].hub)
      /\ \A b \in frames'[n + 1].given :
           b[1] = <<frames'[n + 1].hub, 0>>
             \/ (n + 1 > 1 /\ b[1] = <<frames'[n + 1 - 1].hub, frames'[n + 1 - 1].index>>)
  <2>1. frames'[n + 1].hub = hub /\ frames'[n + 1].given = given
    BY <1>1
  <2>2. frames # <<>> => n + 1 > 1 /\ n \in 1 .. n /\ Here = <<frames'[n].hub, frames'[n].index>>
    BY <1>1, TopIs DEF Here
  <2>3. n + 1 - 1 = n
    BY <1>2
  <2>. QED
    BY <2>1, <2>2, <2>3
<1>5. \A k \in 1 .. n + 1 : k = n + 1 \/ k \in 1 .. n
  BY <1>2
<1>6. \A k \in DOMAIN frames' :
        /\ frames'[k].hub \in Roots \/ frames'[k].hub \in moved \/ Ready(frames'[k].hub)
        /\ \A b \in frames'[k].given :
             b[1] = <<frames'[k].hub, 0>>
               \/ (k > 1 /\ b[1] = <<frames'[k - 1].hub, frames'[k - 1].index>>)
  BY <1>2, <1>3, <1>4, <1>5
<1>. HIDE DEF n
<1>. QED
  BY <1>6 DEF CallsOK, Ready

LEMMA CallsStep ==
  ASSUME Shape, PortOK, WorldOK, CallsOK, Next
  PROVE  CallsOK'
<1>0. StackOK
  BY DEF Shape
<1>1. CASE GetPassUSBDesc
  <2>1. frames' = <<>>
    BY <1>0, <1>1 DEF GetPassUSBDesc, StackOK
  <2>2. DOMAIN <<>> = {}
    OBVIOUS
  <2>. QED
    BY <2>1, <2>2 DEF CallsOK
<1>2. CASE World
  <2>1. frames' = frames
    BY <1>2, WorldKeeps
  <2>2. ASSUME NEW k \in DOMAIN frames
        PROVE  \/ frames[k].hub \in Roots \/ frames[k].hub \in moved'
               \/ frames[k].hub # NoNode /\ node'[frames[k].hub] = "ready"
    <3>1. frames[k].hub \in Hubs
      <4>1. frames[k] \in Frame
        BY <1>0 DEF StackOK
      <4>. QED
        BY <4>1 DEF Frame
    <3>2. frames[k].hub \in Roots \/ frames[k].hub \in Nodes
      BY <3>1 DEF Nodes, External
    <3>3. frames[k].hub \in Roots \/ frames[k].hub \in moved \/ Ready(frames[k].hub)
      BY DEF CallsOK
    <3>. QED
      BY <1>2, <3>2, <3>3, WorldMoves DEF Ready
  <2>. QED
    BY <2>1, <2>2 DEF CallsOK, Ready
<1>3. CASE Walk
  <2>0. UNCHANGED <<node, moved>>
    BY <1>3, WalkKeepsWorld
  <2>1. CASE frames' = frames
    BY <2>0, <2>1 DEF CallsOK, Ready
  <2>2. CASE frames # <<>> /\ Return
    <3>1. \A k \in DOMAIN frames' : k \in DOMAIN frames /\ frames'[k] = frames[k]
                                    /\ (k > 1 => frames'[k - 1] = frames[k - 1])
      BY <1>0, <2>2, ReturnFrames, TopIs
    <3>. QED
      BY <2>0, <3>1, CallsKept
  <2>3. CASE frames # <<>> /\ NextIndex
    <3>1. \A k \in DOMAIN frames' : k \in DOMAIN frames /\ frames'[k].hub = frames[k].hub
                                    /\ frames'[k].given = frames[k].given
                                    /\ (k > 1 => frames'[k - 1] = frames[k - 1])
      BY <1>0, <2>3, NextFrames, TopIs
    <3>. QED
      BY <2>0, <3>1, CallsKept
  <2>4. CASE EnumerateHostController
    <3>. DEFINE hub == RootHub[controller]
    <3>1. /\ Call(hub, GetRootHubName(hub)) /\ controller \in Controllers
      BY <2>4 DEF EnumerateHostController
    <3>2. hub \in Hubs /\ hub \in Roots
      BY <3>1, EnumerationAssumption DEF Roots
    <3>3. GetRootHubName(hub) \in SUBSET Blk /\ \A b \in GetRootHubName(hub) : b[1] = <<hub, 0>>
      <4>1. {"HubName"} \in SUBSET Kinds
        BY DEF Kinds
      <4>2. GetRootHubName(hub) \in SUBSET Blk
        BY <3>2, <4>1, AtIsBlk DEF GetRootHubName
      <4>. QED
        BY <4>2 DEF GetRootHubName, At
    <3>. HIDE DEF hub
    <3>. QED
      BY <1>0, <2>0, <3>1, <3>2, <3>3, CallsCalled
  <2>5. CASE EnumerateExternalHub
    <3>. DEFINE given == At(Here, port.held) \cup At(<<NodeAt, 0>>, {"HubName"})
    <3>1. Call(NodeAt, given) /\ InHand /\ port.isHub /\ Ready(NodeAt)
      BY <2>5 DEF EnumerateExternalHub, InHand, GetExternalHubName
    <3>2. NodeAt \in Hubs /\ frames # <<>> /\ given \in SUBSET Blk
      BY <3>1, HandIs
    <3>3. \A b \in given : b[1] = <<NodeAt, 0>> \/ b[1] = Here
      BY DEF At
    <3>. HIDE DEF given
    <3>. QED
      BY <1>0, <2>0, <3>1, <3>2, <3>3, CallsCalled
  <2>6. frames' = frames \/ (frames # <<>> /\ Return) \/ (frames # <<>> /\ NextIndex)
          \/ EnumerateHostController \/ EnumerateExternalHub
    BY <1>0, <1>3 DEF Walk, EndWalk, SkipController, OpenHub, EnumerateHubError, LeaveHub, SkipPort,
       ReadConnection, Describe, NoStrings, StartStrings, GetStringDescriptors, StringsDone,
       SkipExternalHub, EnumerateDevice, NoDeviceInfo, StackOK
  <2>. QED
    BY <2>1, <2>2, <2>3, <2>4, <2>5, <2>6
<1>. QED
  BY <1>1, <1>2, <1>3 DEF Next

-----------------------------------------------------------------------------
(* The list of controllers: none is put into it twice in a walk.             *)
LEMMA ListStep ==
  ASSUME Shape, ListOK, Next
  PROVE  ListOK'
<1>0. /\ WalkTypes /\ StackOK /\ Controllers \in SUBSET Nat /\ controller \in Nat /\ walks \in Nat
      /\ EnumeratedHCListHead \in [Controllers -> Nat]
  BY ControllerCount DEF Shape, WalkTypes, ListOK
<1>a. ASSUME UNCHANGED <<EnumeratedHCListHead, walks>>, \A c \in Controllers : Behind(c) => Behind(c)'
      PROVE  ListOK'
  BY <1>a DEF ListOK
<1>1. CASE GetPassUSBDesc
  BY <1>0, <1>1 DEF GetPassUSBDesc, ListOK
<1>2. CASE EndWalk
  BY <1>2, <1>a DEF EndWalk, Behind
<1>3. CASE SkipController
  <2>1. pc = "controllers" /\ frames = <<>> /\ frames' = <<>> /\ controller \in Controllers
        /\ controller' = controller + 1 /\ pc' = pc /\ walks' = walks
    BY <1>0, <1>3 DEF SkipController, StackOK
  <2>2. PICK d \in Controllers : d = controller
    BY <2>1
  <2>3. /\ \A c \in Controllers : Behind(c)' => Behind(c) \/ c = d
        /\ ~Behind(d)
    BY <1>0, <2>1, <2>2 DEF Behind
  <2>4. \/ EnumeratedHCListHead' = EnumeratedHCListHead
        \/ EnumeratedHCListHead' = [EnumeratedHCListHead EXCEPT ![d] = @ + 1]
    BY <1>3, <2>2 DEF SkipController
  <2>5. \A c \in Controllers : Behind(c) => Behind(c)'
    BY <1>0, <2>1 DEF Behind
  <2>6. Behind(d)'
    BY <1>0, <2>1, <2>2 DEF Behind
  <2>. QED
    BY <1>0, <2>1, <2>3, <2>4, <2>5, <2>6 DEF ListOK
<1>4. CASE EnumerateHostController
  <2>1. pc = "controllers" /\ frames = <<>> /\ frames' # <<>> /\ controller \in Controllers
        /\ controller' = controller /\ walks' = walks
        /\ EnumeratedHCListHead' = [EnumeratedHCListHead EXCEPT ![controller] = @ + 1]
    <3>1. pc = "controllers" /\ controller \in Controllers
      BY <1>4 DEF EnumerateHostController
    <3>2. frames = <<>> /\ RootHub[controller] \in Hubs
      BY <1>0, <3>1, EnumerationAssumption DEF StackOK
    <3>3. GetRootHubName(RootHub[controller]) \in SUBSET Blk
      BY <3>2, AtIsBlk DEF GetRootHubName, Kinds
    <3>4. frames' # <<>>
      BY <1>0, <1>4, <3>2, <3>3, CallFrames DEF EnumerateHostController
    <3>. QED
      BY <1>4, <3>1, <3>2, <3>4 DEF EnumerateHostController
  <2>2. /\ \A c \in Controllers : Behind(c) => Behind(c)'
        /\ ~Behind(controller) /\ Behind(controller)'
    BY <1>0, <2>1 DEF Behind
  <2>. QED
    BY <1>0, <2>1, <2>2 DEF ListOK
<1>5. CASE EnumerateHubError \/ LeaveHub \/ NoDeviceInfo
  <2>1. UNCHANGED <<EnumeratedHCListHead, walks>> /\ Return /\ frames # <<>>
    BY <1>0, <1>5 DEF EnumerateHubError, LeaveHub, NoDeviceInfo, Return, StackOK
  <2>2. \/ controller' = controller + 1
        \/ controller' = controller /\ frames' # <<>>
    BY <1>0, <2>1, ReturnFrames
  <2>3. pc # "idle"
    BY <1>5 DEF EnumerateHubError, LeaveHub, NoDeviceInfo
  <2>. QED
    BY <1>0, <1>a, <2>1, <2>2, <2>3 DEF Behind
<1>6. CASE SkipPort \/ ReadConnection
  <2>1. UNCHANGED <<EnumeratedHCListHead, walks, controller>> /\ NextIndex /\ frames # <<>> /\ pc # "idle"
    BY <1>0, <1>6 DEF SkipPort, ReadConnection, StackOK
  <2>2. frames' # <<>>
    BY <1>0, <2>1, NextFrames
  <2>. QED
    BY <1>a, <2>1, <2>2 DEF Behind
<1>7. CASE EnumerateExternalHub
  <2>1. UNCHANGED <<EnumeratedHCListHead, walks, controller>> /\ pc # "idle" /\ frames # <<>>
    BY <1>0, <1>7 DEF EnumerateExternalHub, StackOK
  <2>2. frames' # <<>>
    <3>1. frames' = Append(frames, [hub |-> NodeAt, index |-> 0,
                                    given |-> At(Here, port.held) \cup At(<<NodeAt, 0>>, {"HubName"})])
      BY <1>7 DEF EnumerateExternalHub, Call
    <3>2. \A e : Append(frames, e) # <<>>
      BY <1>0 DEF StackOK
    <3>. QED
      BY <3>1, <3>2
  <2>. QED
    BY <1>a, <2>1, <2>2 DEF Behind
<1>8. ASSUME UNCHANGED <<EnumeratedHCListHead, walks, controller, frames>>, pc = "idle" <=> pc' = "idle"
      PROVE  ListOK'
  BY <1>8, <1>a DEF Behind
<1>9. CASE World
  BY <1>8, <1>9, WorldKeeps
<1>10. CASE OpenHub \/ Describe \/ NoStrings \/ StartStrings \/ GetStringDescriptors \/ StringsDone
         \/ SkipExternalHub \/ EnumerateDevice
  BY <1>8, <1>10 DEF OpenHub, Describe, NoStrings, StartStrings, GetStringDescriptors, StringsDone,
     SkipExternalHub, EnumerateDevice
<1>. QED
  BY <1>1, <1>2, <1>3, <1>4, <1>5, <1>6, <1>7, <1>9, <1>10 DEF Next, Walk

-----------------------------------------------------------------------------
(* The handles: one for each hub on the stack that has been opened.          *)
LEMMA HandlesStep ==
  ASSUME Shape, PortOK, HandlesOK, Next
  PROVE  HandlesOK'
<1>. DEFINE n == Len(frames)
<1>0. StackOK /\ frames \in Seq(Frame) /\ n \in Nat
  BY DEF Shape, StackOK
<1>a. ASSUME UNCHANGED <<frames, handles>>, pc = "hub" <=> pc' = "hub" PROVE HandlesOK'
  BY <1>a DEF HandlesOK
<1>1. CASE GetPassUSBDesc \/ EndWalk \/ SkipController
  BY <1>1, <1>a DEF GetPassUSBDesc, EndWalk, SkipController, memory
<1>2. CASE EnumerateHostController \/ EnumerateExternalHub
  <2>1. PICK hub, given : Call(hub, given)
    BY <1>2 DEF EnumerateHostController, EnumerateExternalHub
  <2>2. frames' = Append(frames, [hub |-> hub, index |-> 0, given |-> given]) /\ pc' = "hub"
    BY <2>1 DEF Call
  <2>3. Len(frames') = n + 1 /\ \A i \in 1 .. n : frames'[i] = frames[i]
    BY <1>0, <2>2
  <2>4. pc # "hub" /\ handles' = handles
    BY <1>2 DEF EnumerateHostController, EnumerateExternalHub
  <2>5. handles = {frames[i].hub : i \in 1 .. n}
    BY <1>0, <2>4 DEF HandlesOK
  <2>6. handles' = {frames'[i].hub : i \in 1 .. n}
    BY <2>3, <2>4, <2>5
  <2>7. Len(frames') - 1 = n
    BY <1>0, <2>3
  <2>. QED
    BY <2>2, <2>6, <2>7 DEF HandlesOK
<1>3. CASE OpenHub
  <2>1. frames # <<>> /\ pc = "hub" /\ pc' = "port" /\ frames' = frames
        /\ handles' = handles \cup {Top.hub}
    BY <1>0, <1>3 DEF OpenHub, StackOK
  <2>2. n \in Nat \ {0} /\ Top = frames[n]
    BY <1>0, <2>1, TopIs
  <2>3. handles = {frames[i].hub : i \in 1 .. n - 1}
    BY <2>1 DEF HandlesOK
  <2>4. handles' = {frames[i].hub : i \in 1 .. n}
    BY <2>1, <2>2, <2>3
  <2>5. Len(frames') - 0 = n
    BY <1>0, <2>1
  <2>. QED
    BY <2>1, <2>4, <2>5 DEF HandlesOK
<1>4. CASE EnumerateHubError \/ LeaveHub \/ NoDeviceInfo
  <2>1. Return /\ frames # <<>>
    BY <1>0, <1>4 DEF EnumerateHubError, LeaveHub, NoDeviceInfo, Return, StackOK
  <2>2. /\ Len(frames') = n - 1 /\ \A i \in 1 .. n - 1 : frames'[i] = frames[i]
        /\ pc' # "hub"
    BY <1>0, <2>1, ReturnFrames
  <2>3. n \in Nat \ {0} /\ Top = frames[n]
    BY <1>0, <2>1, TopIs
  <2>4. handles' = {frames[i].hub : i \in 1 .. n - 1}
    <3>1. CASE EnumerateHubError
      BY <3>1 DEF EnumerateHubError, HandlesOK
    <3>2. CASE LeaveHub \/ NoDeviceInfo
      <4>1. pc # "hub" /\ handles' = handles \ {Top.hub}
        BY <3>2 DEF LeaveHub, NoDeviceInfo
      <4>2. handles = {frames[i].hub : i \in 1 .. n}
        BY <1>0, <4>1 DEF HandlesOK
      <4>3. \A i \in 1 .. n : frames[i].hub = Top.hub => i = n
        BY <1>0, <2>3 DEF StackOK
      <4>. QED
        BY <2>3, <4>1, <4>2, <4>3
    <3>. QED
      BY <1>4, <3>1, <3>2
  <2>5. handles' = {frames'[i].hub : i \in 1 .. n - 1}
    BY <2>2, <2>4
  <2>6. Len(frames') - 0 = n - 1
    BY <2>2, <2>3
  <2>. QED
    BY <2>2, <2>5, <2>6 DEF HandlesOK
<1>5. CASE SkipPort \/ ReadConnection
  <2>1. NextIndex /\ frames # <<>> /\ pc # "hub" /\ pc' # "hub" /\ handles' = handles
    BY <1>0, <1>5 DEF SkipPort, ReadConnection, StackOK, memory
  <2>2. n \in 1 .. n /\ Len(frames') = n /\ \A i \in 1 .. n : frames'[i].hub = frames[i].hub
    BY <1>0, <2>1, NextFrames, TopIs
  <2>3. handles' = {frames'[i].hub : i \in 1 .. n}
    BY <1>0, <2>1, <2>2 DEF HandlesOK
  <2>4. Len(frames') - 0 = n
    BY <1>0, <2>2
  <2>. QED
    BY <2>1, <2>3, <2>4 DEF HandlesOK
<1>6. CASE World
  BY <1>6, <1>a, WorldKeeps DEF memory
<1>7. CASE Describe \/ NoStrings \/ StartStrings \/ GetStringDescriptors \/ StringsDone
        \/ SkipExternalHub \/ EnumerateDevice
  BY <1>7, <1>a DEF Describe, NoStrings, StartStrings, GetStringDescriptors, StringsDone,
     SkipExternalHub, EnumerateDevice, memory
<1>. QED
  BY <1>1, <1>2, <1>3, <1>4, <1>5, <1>6, <1>7 DEF Next, Walk

-----------------------------------------------------------------------------
(* What the walk knows of the node at the port in hand.                      *)
LEMMA PortTrueStep ==
  ASSUME Shape, WorldOK, PortOK, Next
  PROVE  PortOK'
<1>0. StackOK /\ WalkTypes
  BY DEF Shape
<1>a. ASSUME InHand, pc # "describe", UNCHANGED <<frames, node, moved>>, faults' = 0 => faults = 0,
             port'.isHub = port.isHub, port'.status = port.status, port'.props = port.props,
             "ConfigDesc" \in port'.held => "ConfigDesc" \in port.held,
             "ConfigDesc" \in port.held => "ConfigDesc" \in port'.held
      PROVE  PortOK'
  BY <1>a DEF PortOK, NodeAt, Top, ConnectionStatus, Plugged, Connected, Ready
<1>1. CASE ~InHand'
  BY <1>1 DEF PortOK
<1>2. CASE InHand /\ World
  <2>1. UNCHANGED <<pc, frames, port, faults>> /\ moved \subseteq moved'
    BY <1>2, WorldKeeps, WorldMoves
  <2>2. NodeAt' = NodeAt /\ InHand'
    BY <1>2, <2>1 DEF NodeAt, Top, InHand
  <2>3. \A n \in Nodes \ moved' : n \notin moved /\ node'[n] = node[n]
    BY <1>2, <2>1, WorldMoves
  <2>. QED
    BY <1>2, <2>1, <2>2, <2>3 DEF PortOK, ConnectionStatus, Plugged, Connected, Ready
<1>3. CASE ReadConnection
  <2>1. frames # <<>> /\ NextIndex /\ Top.index < Len(Wiring[Top.hub]) /\ UNCHANGED <<node, moved>>
    BY <1>0, <1>3 DEF ReadConnection, StackOK, world
  <2>2. PICK n : n = Wiring[Top.hub][Top.index + 1]
    OBVIOUS
  <2>3. NodeAt' = n /\ n \in Nodes \cup {NoNode}
    BY <1>0, <2>1, <2>2, NextFrames, TopIs, Ports DEF NodeAt, Top
  <2>4. /\ port'.status = ConnectionStatus(n) /\ port'.isHub \in DeviceIsHub(n)
        /\ "ConfigDesc" \notin port'.held /\ port'.props = "none" /\ pc' = "describe"
    BY <1>3, <2>2 DEF ReadConnection, NoPort
  <2>5. /\ port'.status # "NoDeviceConnected" => n \in Nodes
        /\ port'.isHub => Plugged(n) /\ n \in External
        /\ Connected(n) /\ n \in External => port'.isHub
    BY <2>3, <2>4 DEF ConnectionStatus, DeviceIsHub, Connected, Plugged
  <2>6. /\ ConnectionStatus(n)' = ConnectionStatus(n)
        /\ Plugged(n)' = Plugged(n) /\ Connected(n)' = Connected(n)
    BY <2>1 DEF ConnectionStatus, Plugged, Connected
  <2>. QED
    BY <2>1, <2>3, <2>4, <2>5, <2>6 DEF PortOK
<1>4. CASE Describe
  <2>0. PICK n : n = NodeAt
    OBVIOUS
  <2>1. InHand /\ UNCHANGED <<frames, node, moved>> /\ pc' = "strings" /\ port \in Port /\ InHand'
    BY <1>4 DEF Describe, InHand, world, Shape, PortType
  <2>2. PICK props \in DriverNameToDeviceProperties(n), config \in BOOLEAN, bos \in BOOLEAN :
          /\ config => GetConfigDescriptor(n)
          /\ Fault(Cost(<<GetDriverKeyName(n) /\ Ready(n) /\ props # "whole",
                          GetConfigDescriptor(n) /\ ~config, config /\ GetBOSDescriptor(n) /\ ~bos>>))
          /\ port' = [port EXCEPT !.props = props,
                        !.held = @ \cup ((IF props # "none" THEN {"DevProps"} ELSE {})
                                          \cup (IF config THEN {"ConfigDesc"} ELSE {})
                                          \cup (IF bos THEN {"BosDesc"} ELSE {}))]
    BY <1>4, <2>0 DEF Describe
  <2>3. /\ port'.props = props /\ port'.isHub = port.isHub /\ port'.status = port.status
        /\ "ConfigDesc" \in port'.held <=> "ConfigDesc" \in port.held \/ config
    BY <2>1, <2>2 DEF Port
  <2>4. faults' = 0 => /\ faults = 0 /\ ~(GetConfigDescriptor(n) /\ ~config)
                       /\ ~(GetDriverKeyName(n) /\ Ready(n) /\ props # "whole")
    <3>. DEFINE a == GetDriverKeyName(n) /\ Ready(n) /\ props # "whole"
                b == GetConfigDescriptor(n) /\ ~config
                c == config /\ GetBOSDescriptor(n) /\ ~bos
    <3>1. a \in BOOLEAN /\ b \in BOOLEAN /\ c \in BOOLEAN
      BY DEF GetDriverKeyName, GetConfigDescriptor, GetBOSDescriptor
    <3>2. Fault(Cost(<<a, b, c>>))
      BY <2>2
    <3>3. Cost(<<a, b, c>>) \in Nat /\ (Cost(<<a, b, c>>) = 0 => ~a /\ ~b)
      <4>. HIDE DEF a, b, c
      <4>. QED
        BY <3>1, CostOfThree
    <3>4. faults' = 0 => faults = 0 /\ ~a /\ ~b
      <4>. HIDE DEF a, b, c
      <4>. QED
        BY <1>0, <3>2, <3>3, FaultCosts
    <3>. QED
      BY <3>4
  <2>5. props = "whole" => node[n] # "new"
    BY <2>2 DEF DriverNameToDeviceProperties, GetDriverKeyName
  <2>6. config => Connected(n)
    BY <2>2 DEF GetConfigDescriptor
  <2>7. /\ port.isHub => n \in External
        /\ port.status # "NoDeviceConnected" => n \in Nodes
        /\ n \in Nodes \ moved =>
             /\ port.status = ConnectionStatus(n)
             /\ port.isHub => Plugged(n)
             /\ Connected(n) /\ n \in External => port.isHub
             /\ "ConfigDesc" \in port.held => Connected(n)
    BY <2>0, <2>1 DEF PortOK
  <2>8. n \in Nodes \ moved /\ faults' = 0 =>
          (Connected(n) => config) /\ (Ready(n) => props = "whole")
    <3>. SUFFICES ASSUME n \in Nodes \ moved, faults' = 0
                  PROVE  (Connected(n) => config) /\ (Ready(n) => props = "whole")
      OBVIOUS
    <3>1. Connected(n) => GetConfigDescriptor(n)
      BY <2>7 DEF GetConfigDescriptor, ConnectionStatus
    <3>2. Ready(n) => GetDriverKeyName(n)
      BY <2>7 DEF GetDriverKeyName, ConnectionStatus, Connected, Ready, Plugged
    <3>. QED
      BY <2>4, <3>1, <3>2
  <2>9. /\ NodeAt' = n /\ Plugged(n)' = Plugged(n) /\ Connected(n)' = Connected(n)
        /\ Ready(n)' = Ready(n) /\ ConnectionStatus(n)' = ConnectionStatus(n)
    BY <2>0, <2>1 DEF NodeAt, Top, Plugged, Connected, Ready, ConnectionStatus
  <2>. QED
    BY <2>1, <2>3, <2>5, <2>6, <2>7, <2>8, <2>9 DEF PortOK
<1>5. CASE NoStrings \/ StartStrings \/ GetStringDescriptors \/ StringsDone
  <2>1. /\ InHand /\ pc # "describe" /\ UNCHANGED <<frames, node, moved>> /\ port \in Port
        /\ faults' = 0 => faults = 0
    <3>1. Walk
      BY <1>5 DEF Walk
    <3>2. faults' = 0 => faults = 0
      BY <1>0, <3>1, FaultsGrow
    <3>3. InHand /\ pc # "describe" /\ UNCHANGED frames
      BY <1>5 DEF NoStrings, StartStrings, GetStringDescriptors, StringsDone, InHand
    <3>. QED
      BY <3>1, <3>2, <3>3, WalkKeepsWorld DEF Shape, PortType
  <2>2. /\ port'.isHub = port.isHub /\ port'.status = port.status /\ port'.props = port.props
        /\ "ConfigDesc" \in port'.held <=> "ConfigDesc" \in port.held
    <3>1. CASE port' = port
      BY <3>1
    <3>2. CASE StartStrings
      BY <2>1, <3>2 DEF StartStrings, Port
    <3>3. CASE GetStringDescriptors
      BY <2>1, <3>3 DEF GetStringDescriptors, Port
    <3>. QED
      BY <1>5, <3>1, <3>2, <3>3 DEF NoStrings, StringsDone
  <2>. QED
    BY <1>a, <2>1, <2>2
<1>6. ~InHand' \/ (InHand /\ World) \/ ReadConnection \/ Describe \/ NoStrings \/ StartStrings
        \/ GetStringDescriptors \/ StringsDone
  <2>1. CASE GetPassUSBDesc
    BY <2>1 DEF GetPassUSBDesc, InHand
  <2>2. CASE World
    BY <2>2, WorldKeeps DEF InHand
  <2>3. CASE Walk
    BY <2>3 DEF Walk, EndWalk, SkipController, EnumerateHostController, OpenHub, EnumerateHubError,
       LeaveHub, SkipPort, EnumerateExternalHub, SkipExternalHub, EnumerateDevice, NoDeviceInfo,
       Return, Call, InHand
  <2>. QED
    BY <2>1, <2>2, <2>3 DEF Next
<1>. QED
  BY <1>1, <1>2, <1>3, <1>4, <1>5, <1>6

(* What the walk passes on.                                                  *)
LEMMA ResultStep ==
  ASSUME Shape, WorldOK, PortOK, ResultOK, Next
  PROVE  ResultOK'
<1>1. CASE GetPassUSBDesc
  BY <1>1 DEF GetPassUSBDesc, ResultOK
<1>2. CASE World
  <2>1. UNCHANGED <<result, pc, faults>>
    BY <1>2, WorldKeeps
  <2>2. \A n \in Serial3 : Ready(n) \/ n \in moved => Ready(n)' \/ n \in moved'
    BY <1>2, NodesStay, WorldMoves, RootsAreNoNodes
  <2>3. \A n \in Serial3 : n \in moved \cup LongNames \/ node[n] = "new" =>
                             n \in moved' \cup LongNames \/ node'[n] = "new"
    BY <1>2, WorldMoves, RootsAreNoNodes
  <2>. QED
    BY <2>1, <2>2, <2>3 DEF ResultOK, result
<1>3. CASE EnumerateDevice
  <2>1. UNCHANGED <<node, moved>> /\ pc = "enumerate" /\ InHand
    BY <1>3 DEF EnumerateDevice, world, InHand
  <2>2. CASE "ConfigDesc" \in port.held /\ NodeAt \in Serial3
    <3>1. GetPassUSBDescSuc' = TRUE /\ sendToDeviceDescData' = NodeAt
          /\ (pc' # "crashed" => port.props = "whole")
          /\ (pc' = "crashed" => port.props # "whole" \/ NodeAt \in LongNames)
          /\ UNCHANGED faults
      BY <1>3, <2>2 DEF EnumerateDevice, failures
    <3>2. NodeAt \in Nodes
      BY <2>2, RootsAreNoNodes
    <3>3. NodeAt \notin moved => node[NodeAt] \in {"new", "ready"}
      BY <2>1, <2>2, <3>2 DEF PortOK, Connected
    <3>4. pc' # "crashed" => Ready(NodeAt) \/ NodeAt \in moved
      BY <2>1, <3>1, <3>2, <3>3, RootsAreNoNodes DEF PortOK, Ready
    <3>5. faults > 0 \/ faults = 0
      BY DEF Shape, WalkTypes
    <3>6. pc' = "crashed" => faults > 0 \/ NodeAt \in moved \cup LongNames \/ node[NodeAt] = "new"
      BY <2>1, <3>1, <3>2, <3>3, <3>5, RootsAreNoNodes DEF PortOK, Ready
    <3>. QED
      BY <2>1, <2>2, <3>1, <3>4, <3>6 DEF ResultOK, Ready
  <2>3. CASE ~("ConfigDesc" \in port.held /\ NodeAt \in Serial3)
    BY <1>3, <2>1, <2>3 DEF EnumerateDevice, ResultOK, Ready, result
  <2>. QED
    BY <2>2, <2>3
<1>4. CASE UNCHANGED <<result, node, moved>> /\ pc # "crashed" /\ pc' # "crashed"
  BY <1>4 DEF ResultOK, Ready, result
<1>5. CASE Walk /\ ~EnumerateDevice
  <2>1. UNCHANGED <<node, moved>>
    BY <1>5, WalkKeepsWorld
  <2>2. UNCHANGED result /\ pc # "crashed" /\ pc' # "crashed"
    BY <1>5 DEF Walk, EndWalk, SkipController, EnumerateHostController, OpenHub, EnumerateHubError,
       LeaveHub, SkipPort, ReadConnection, Describe, NoStrings, StartStrings, GetStringDescriptors,
       StringsDone, EnumerateExternalHub, SkipExternalHub, NoDeviceInfo, Return, Call
  <2>. QED
    BY <1>4, <2>1, <2>2
<1>. QED
  BY <1>1, <1>2, <1>3, <1>5 DEF Next

-----------------------------------------------------------------------------
(* The hub just called.                                                      *)
LEMMA CallTop ==
  ASSUME StackOK, NEW hub \in Hubs, NEW given \in SUBSET Blk, Call(hub, given)
  PROVE  Top'.hub = hub /\ Top'.index = 0 /\ Top'.given = given /\ pc' = "hub"
<1>1. /\ Len(frames') = Len(frames) + 1 /\ pc' = "hub"
      /\ frames'[Len(frames) + 1] = [hub |-> hub, index |-> 0, given |-> given]
  BY CallFrames
<1>2. Top' = [hub |-> hub, index |-> 0, given |-> given]
  BY <1>1 DEF Top
<1>. QED
  BY <1>1, <1>2

(* What is held for the port in hand grows with the blocks.                  *)
LEMMA HeldGrows ==
  ASSUME Shape, Describe \/ StartStrings \/ NoStrings \/ GetStringDescriptors \/ StringsDone
  PROVE  \E got : /\ port'.held = port.held \cup got
                  /\ live' = live \cup At(Here, got)
<1>1. port \in Port
  BY DEF Shape, PortType
<1>2. CASE Describe
  <2>1. PICK props, config, bos, got :
          /\ got = (IF props # "none" THEN {"DevProps"} ELSE {})
                     \cup (IF config THEN {"ConfigDesc"} ELSE {})
                     \cup (IF bos THEN {"BosDesc"} ELSE {})
          /\ port' = [port EXCEPT !.props = props, !.held = @ \cup got]
          /\ live' = live \cup At(Here, got)
    BY <1>2 DEF Describe
  <2>2. port'.held = port.held \cup got
    BY <1>1, <2>1 DEF Port
  <2>. QED
    BY <2>1, <2>2
<1>3. CASE StartStrings
  <2>1. live' = live \cup At(Here, {"StringDescs"}) /\ port'.held = port.held \cup {"StringDescs"}
    BY <1>1, <1>3 DEF StartStrings, Port
  <2>. QED
    BY <2>1
<1>4. CASE NoStrings \/ GetStringDescriptors \/ StringsDone
  <2>1. live' = live /\ port'.held = port.held
    BY <1>1, <1>4 DEF NoStrings, GetStringDescriptors, StringsDone, Port, memory
  <2>2. At(Here, {}) = {}
    BY DEF At
  <2>. QED
    BY <2>1, <2>2
<1>. QED
  BY <1>2, <1>3, <1>4


(* The blocks: while nothing fails and nothing moves, each has an owner.     *)
LEMMA OwnedStep ==
  ASSUME Shape, WorldOK, PortOK, CallsOK, Owned, Next
  PROVE  Owned'
<1>. SUFFICES ASSUME Smooth', NEW b \in live' PROVE Settled(b)' \/ OnTheWay(b)'
  BY DEF Owned
<1>0. StackOK /\ WalkTypes
  BY DEF Shape
<1>1. CASE GetPassUSBDesc
  BY <1>1 DEF GetPassUSBDesc
<1>2. CASE World
  <2>1. moved' # {}
    BY <1>2, WorldMoves
  <2>2. moved' = {}
    BY DEF Smooth
  <2>. QED
    BY <2>1, <2>2
<1>3. CASE Walk
  <2>1. faults = 0 /\ faults' = 0 /\ UNCHANGED <<node, moved>> /\ Smooth /\ moved = {}
    <3>1. (faults' = 0 => faults = 0) /\ UNCHANGED <<node, moved>>
      BY <1>0, <1>3, FaultsGrow, WalkKeepsWorld
    <3>2. \A h : Plugged(h)' = Plugged(h) /\ Ready(h)' = Ready(h)
      BY <3>1 DEF Plugged, Ready
    <3>. QED
      BY <3>1, <3>2 DEF Smooth
  <2>2. \A x \in live : Settled(x) \/ OnTheWay(x)
    BY <2>1 DEF Owned
  <2>3. ASSUME Fault(1) PROVE FALSE
    BY <1>0, <2>1, <2>3, FaultCosts
  <2>4. keeps \subseteq keeps' /\ \A x : Settled(x) => Settled(x)'
    BY <1>3 DEF Settled, Walk, EndWalk, SkipController, EnumerateHostController, OpenHub,
       EnumerateHubError, LeaveHub, SkipPort, ReadConnection, Describe, NoStrings, StartStrings,
       GetStringDescriptors, StringsDone, EnumerateExternalHub, SkipExternalHub, EnumerateDevice,
       NoDeviceInfo, memory
  <2>5. CASE EndWalk \/ LeaveHub
    <3>1. live' = live /\ pc # "hub" /\ ~InHand
      BY <2>5 DEF EndWalk, LeaveHub, memory, InHand
    <3>. QED
      BY <2>2, <2>4, <3>1 DEF OnTheWay
  <2>6. CASE SkipController \/ SkipPort \/ NoDeviceInfo
    BY <2>3, <2>6 DEF SkipController, SkipPort, NoDeviceInfo
  <2>7. CASE EnumerateHostController
    <3>. DEFINE given == GetRootHubName(RootHub[controller])
    <3>1. /\ live' = live \cup given /\ Call(RootHub[controller], given)
          /\ pc = "controllers" /\ controller \in Controllers
      BY <2>7 DEF EnumerateHostController
    <3>2. RootHub[controller] \in Hubs /\ given \in SUBSET Blk
      BY <3>1, EnumerationAssumption, AtIsBlk DEF GetRootHubName, Kinds
    <3>. HIDE DEF given
    <3>3. Top'.given = given /\ pc' = "hub" /\ pc # "hub" /\ ~InHand
      BY <1>0, <3>1, <3>2, CallTop DEF InHand
    <3>. QED
      BY <2>2, <2>4, <3>1, <3>3 DEF OnTheWay
  <2>8. CASE OpenHub
    <3>1. PICK answered \in SUBSET ({"HubInfoEx", "HubCapabilityEx"} \cap Supported) :
            /\ live' = live \cup At(<<Top.hub, 0>>, {"info", "HubInfo"} \cup answered)
            /\ keeps' = keeps \cup At(<<Top.hub, 0>>, {"info"})
                 \X (Top.given \cup At(<<Top.hub, 0>>, {"HubInfo"} \cup answered))
      BY <2>8 DEF OpenHub
    <3>2. \A x \in Top.given \cup At(<<Top.hub, 0>>, {"HubInfo"} \cup answered) : Settled(x)'
      <4>1. <<<<Top.hub, 0>>, "info">> \in At(<<Top.hub, 0>>, {"info"})
        BY DEF At
      <4>2. ASSUME NEW x \in Top.given \cup At(<<Top.hub, 0>>, {"HubInfo"} \cup answered)
            PROVE  \E p \in keeps' : p[2] = x
        <5>1. << <<<<Top.hub, 0>>, "info">>, x>> \in keeps'
          BY <3>1, <4>1, <4>2
        <5>2. << <<<<Top.hub, 0>>, "info">>, x>>[2] = x
          OBVIOUS
        <5>. QED
          BY <5>1, <5>2
      <4>. QED
        BY <4>2 DEF Settled
    <3>3. \A x \in live' : x \in live \/ x[2] = "info"
                             \/ x \in At(<<Top.hub, 0>>, {"HubInfo"} \cup answered)
      BY <3>1 DEF At
    <3>4. pc = "hub"
      BY <2>8 DEF OpenHub
    <3>. QED
      BY <2>2, <2>4, <3>2, <3>3, <3>4 DEF OnTheWay, InHand, Settled
  <2>9. CASE EnumerateHubError
    <3>1. frames # <<>> /\ \E n \in {0, 1} : Fault(n) /\ (n = 0 => ~Reachable(Top.hub))
      BY <1>0, <2>9 DEF EnumerateHubError, StackOK
    <3>2. ~Reachable(Top.hub)
      BY <2>3, <3>1
    <3>3. Top.hub \in Roots \/ Ready(Top.hub)
      BY <1>0, <2>1, <3>1, TopIs DEF CallsOK
    <3>. QED
      BY <3>2, <3>3 DEF Reachable
  <2>10. CASE ReadConnection
    <3>1. PICK answered \in SUBSET ({"PortConnectorProps", "ConnectionInfoV2"} \cap Supported) :
            /\ port'.held = {"ConnectionInfo"} \cup answered
            /\ live' = live \cup At(<<Top.hub, Top.index + 1>>, {"ConnectionInfo"} \cup answered)
      BY <2>10 DEF ReadConnection, NoPort
    <3>2. frames # <<>> /\ NextIndex /\ pc # "hub" /\ ~InHand /\ InHand'
      BY <1>0, <2>10 DEF ReadConnection, StackOK, InHand
    <3>3. Here' = <<Top.hub, Top.index + 1>>
      BY <1>0, <3>2, NextFrames DEF Here, Top
    <3>. QED
      BY <2>2, <2>4, <3>1, <3>2, <3>3 DEF OnTheWay
  <2>11. CASE Describe \/ StartStrings \/ NoStrings \/ GetStringDescriptors \/ StringsDone
    <3>1. /\ UNCHANGED frames /\ InHand /\ pc # "hub" /\ port \in Port /\ Here' = Here
          /\ InHand'
      BY <2>11 DEF Describe, StartStrings, NoStrings, GetStringDescriptors, StringsDone, InHand,
         Shape, PortType, Here, Top
    <3>3. PICK got : /\ port'.held = port.held \cup got
                     /\ live' = live \cup At(Here, got)
      BY <2>11, HeldGrows
    <3>4. At(Here, port.held \cup got) = At(Here, port.held) \cup At(Here, got)
      BY DEF At
    <3>. QED
      BY <2>2, <2>4, <3>1, <3>3, <3>4 DEF OnTheWay
  <2>12. CASE EnumerateExternalHub
    <3>. DEFINE name  == At(<<NodeAt, 0>>, {"HubName"})
                given == At(Here, port.held) \cup name
    <3>1. /\ live' = live \cup name /\ Call(NodeAt, given)
          /\ InHand /\ pc # "hub" /\ port.isHub
      BY <2>12 DEF EnumerateExternalHub, InHand
    <3>2. NodeAt \in Hubs /\ given \in SUBSET Blk
      BY <3>1, HandIs
    <3>3. At(Here, port.held) \subseteq given /\ name \subseteq given
      OBVIOUS
    <3>. HIDE DEF given, name
    <3>4. Top'.given = given /\ pc' = "hub"
      BY <1>0, <3>1, <3>2, CallTop
    <3>. QED
      BY <2>2, <2>4, <3>1, <3>3, <3>4 DEF OnTheWay
  <2>13. CASE SkipExternalHub
    <3>1. InHand /\ port.isHub
      BY <2>13 DEF SkipExternalHub, InHand
    <3>2. NodeAt \in External /\ NodeAt \in Nodes
      BY <3>1, HandIs
    <3>3. Plugged(NodeAt)
      BY <2>1, <3>1, <3>2 DEF PortOK
    <3>4. Ready(NodeAt)
      BY <2>1, <3>2, <3>3 DEF Smooth
    <3>5. Fault(1)
      BY <2>13, <3>4 DEF SkipExternalHub, GetExternalHubName
    <3>. QED
      BY <2>3, <3>5
  <2>14. CASE EnumerateDevice
    <3>1. /\ live' = live \cup At(Here, {"info"})
          /\ keeps' = keeps \cup At(Here, {"info"}) \X At(Here, port.held)
          /\ pc = "enumerate"
      BY <2>14 DEF EnumerateDevice
    <3>2. ASSUME NEW x \in At(Here, port.held) PROVE \E p \in keeps' : p[2] = x
      <4>1. <<Here, "info">> \in At(Here, {"info"})
        BY DEF At
      <4>2. << <<Here, "info">>, x>> \in keeps' /\ << <<Here, "info">>, x>>[2] = x
        BY <3>1, <3>2, <4>1
      <4>. QED
        BY <4>2
    <3>3. \A x \in live' : x \in live \/ x[2] = "info"
      BY <3>1 DEF At
    <3>. QED
      BY <2>2, <2>4, <3>1, <3>2, <3>3 DEF OnTheWay, Settled
  <2>. QED
    BY <1>3, <2>5, <2>6, <2>7, <2>8, <2>9, <2>10, <2>11, <2>12, <2>13, <2>14 DEF Walk
<1>. QED
  BY <1>1, <1>2, <1>3 DEF Next

-----------------------------------------------------------------------------
(* How far the hubs under way have come, step by step.                       *)
LEMMA PlacesStay ==
  ASSUME UNCHANGED frames, InHand' <=> InHand, pc' = "hub" <=> pc = "hub", NEW h, NEW i
  PROVE  (Read(h, i)' <=> Read(h, i)) /\ (Left(h, i)' <=> Left(h, i)) /\ (Kept(h, i)' <=> Kept(h, i))
<1>1. \A k : /\ Opened(k)' <=> Opened(k)
             /\ Through(k)' = Through(k) /\ Entered(k)' = Entered(k) /\ Pointed(k)' = Pointed(k)
  BY DEF Opened, Through, Entered, Pointed
<1>. QED
  BY <1>1 DEF Read, Left, Kept

LEMMA StackTop ==
  ASSUME StackOK, frames # <<>>
  PROVE  /\ Len(frames) \in Nat \ {0} /\ DOMAIN frames = (1 .. Len(frames) - 1) \cup {Len(frames)}
         /\ DOMAIN frames = 1 .. Len(frames) /\ Top = frames[Len(frames)]
         /\ \A k \in 1 .. Len(frames) : frames[k].index \in Nat
         /\ frames[Len(frames)].index \in Nat
         /\ \A k \in 1 .. Len(frames) - 1 : k \in Nat /\ k < Len(frames) /\ frames[k].hub # Top.hub
<1>1. \A k \in DOMAIN frames : frames[k] \in Frame
  BY DEF StackOK
<1>2. Len(frames) \in Nat \ {0} /\ DOMAIN frames = 1 .. Len(frames) /\ Top = frames[Len(frames)]
  BY TopIs
<1>3. 1 .. Len(frames) = (1 .. Len(frames) - 1) \cup {Len(frames)}
  BY <1>2
<1>4. \A k \in 1 .. Len(frames) - 1 : k \in Nat /\ k < Len(frames) /\ frames[k].hub # Top.hub
  BY <1>2 DEF StackOK
<1>5. \A k \in DOMAIN frames : frames[k].index \in Nat
  BY <1>1 DEF Frame
<1>. QED
  BY <1>2, <1>3, <1>4, <1>5

LEMMA PlacesOpen ==
  ASSUME StackOK, UNCHANGED frames, pc = "hub", pc' = "port", NEW h, NEW i \in Nat
  PROVE  /\ (Read(h, i)' <=> Read(h, i)) /\ (Left(h, i)' <=> Left(h, i)) /\ (Kept(h, i) => Kept(h, i)')
         /\ h = Top.hub /\ i = 0 => Kept(h, i)'
         /\ \A k \in DOMAIN frames : k + 1 = Len(frames) /\ h = frames[k].hub /\ i = frames[k].index
              => Kept(h, i)'
<1>. DEFINE n == Len(frames)
<1>0. ~InHand /\ ~InHand' /\ frames # <<>>
  BY DEF InHand, StackOK
<1>1. /\ n \in Nat \ {0} /\ DOMAIN frames = 1 .. n /\ Top = frames[n] /\ Top.index = 0
      /\ n \in DOMAIN frames /\ \A k \in 1 .. n : frames[k].index \in Nat
  <2>1. \A k \in DOMAIN frames : frames[k] \in Frame
    BY DEF StackOK
  <2>. QED
    BY <1>0, <2>1, TopIs DEF StackOK, Frame
<1>2. ASSUME NEW k \in 1 .. n
      PROVE  Entered(k)' = Entered(k) /\ Opened(k)' /\ Pointed(k)' = frames[k].index
  BY <1>0, <1>1, <1>2 DEF Opened, Through, Entered, Pointed
<1>3. ASSUME NEW k \in 1 .. n PROVE Pointed(k) <= frames[k].index
  BY <1>0, <1>1, <1>3 DEF Opened, Through, Pointed
<1>4. \A k \in 1 .. n : Pointed(k) \in Int
  BY <1>0, <1>1 DEF Through, Pointed
<1>5. (Read(h, i)' <=> Read(h, i)) /\ (Left(h, i)' <=> Left(h, i))
  BY <1>1, <1>2 DEF Read, Left
<1>6. Kept(h, i)' <=> \A k \in 1 .. n : frames[k].hub = h => i <= frames[k].index
  BY <1>1, <1>2 DEF Kept
<1>7. Kept(h, i) => \A k \in 1 .. n : frames[k].hub = h => i <= Pointed(k)
  BY <1>1 DEF Kept
<1>8. \A j, k \in 1 .. n : frames[j].hub = frames[k].hub => j = k
  BY <1>1 DEF StackOK
<1>. HIDE DEF n
<1>9. Kept(h, i) => Kept(h, i)'
  BY <1>1, <1>3, <1>4, <1>6, <1>7
<1>. QED
  BY <1>1, <1>5, <1>6, <1>8, <1>9

LEMMA PlacesReturn ==
  ASSUME StackOK, frames # <<>>, Return, NEW h, NEW i \in Nat
  PROVE  /\ Read(h, i)' <=> Read(h, i) \/ h = Top.hub
         /\ Left(h, i)' <=> Left(h, i) \/ h = Top.hub
         /\ Kept(h, i) => Kept(h, i)'
<1>a. PICK n : n = Len(frames)
  OBVIOUS
<1>1. /\ frames' \in Seq(Frame) /\ Len(frames') = n - 1
      /\ \A k \in 1 .. n - 1 : frames'[k] = frames[k]
      /\ n # 1 => pc' = "port"
  BY <1>a, ReturnFrames
<1>2. /\ n = Len(frames) /\ n \in Nat \ {0} /\ DOMAIN frames = (1 .. n - 1) \cup {n} /\ Top = frames[n]
      /\ \A k \in (1 .. n - 1) \cup {n} : frames[k].index \in Nat
      /\ \A k \in 1 .. n - 1 : k \in Nat /\ k < n /\ frames[k].hub # Top.hub
      /\ frames[n].index \in Nat
      /\ DOMAIN frames' = 1 .. n - 1
  BY <1>a, <1>1, StackTop
<1>b. DOMAIN frames' = 1 .. n - 1
  BY <1>2
<1>3. ASSUME NEW k \in 1 .. n - 1
      PROVE  /\ Entered(k)' = frames[k].index /\ Entered(k) = frames[k].index
             /\ Opened(k)' /\ Pointed(k)' = frames[k].index
             /\ Pointed(k) \in Int /\ Pointed(k) <= frames[k].index
  <2>1. pc' = "port" /\ ~InHand' /\ frames'[k] = frames[k] /\ k < n /\ k \in Nat
    BY <1>1, <1>2 DEF InHand
  <2>2. Entered(k)' = frames[k].index /\ Opened(k)' /\ Pointed(k)' = frames[k].index
    <3>1. Opened(k)' /\ Opened(k + 1)' /\ Through(k)' \in {frames[k].index, frames[k].index - 1}
      BY <2>1 DEF Opened, Through
    <3>2. ~(k < Len(frames')) => Through(k)' = frames[k].index
      BY <2>1 DEF Through
    <3>. QED
      BY <2>1, <3>1, <3>2 DEF Entered, Pointed
  <2>3. Entered(k) = frames[k].index /\ Pointed(k) \in {frames[k].index, frames[k].index - 1}
    BY <1>2, <2>1 DEF Through, Entered, Pointed
  <2>4. frames[k].index \in Nat
    BY <1>2
  <2>. QED
    BY <2>2, <2>3, <2>4
<1>5. Read(h, i)' <=> \A k \in 1 .. n - 1 : frames[k].hub = h => i <= frames[k].index
  BY <1>1, <1>2 DEF Read
<1>6. Left(h, i)' <=> \A k \in 1 .. n - 1 : frames[k].hub = h => i <= frames[k].index
  <2>1. \A k \in 1 .. n - 1 : frames'[k] = frames[k] /\ Entered(k)' = frames[k].index
    BY <1>1, <1>3
  <2>. QED
    BY <1>b, <2>1 DEF Left
<1>7. Kept(h, i)' <=> \A k \in 1 .. n - 1 : frames[k].hub = h => i <= frames[k].index
  <2>1. \A k \in 1 .. n - 1 : frames'[k] = frames[k] /\ Opened(k)' /\ Pointed(k)' = frames[k].index
    BY <1>1, <1>3
  <2>. QED
    BY <1>b, <2>1 DEF Kept
<1>8. Read(h, i) <=> /\ \A k \in 1 .. n - 1 : frames[k].hub = h => i <= frames[k].index
                     /\ frames[n].hub = h => i <= frames[n].index
  BY <1>2 DEF Read
<1>9. Left(h, i) <=> /\ \A k \in 1 .. n - 1 : frames[k].hub = h => i <= frames[k].index
                     /\ frames[n].hub = h => i <= Entered(n)
  BY <1>2, <1>3 DEF Left
<1>10. Kept(h, i) => \A k \in 1 .. n - 1 : frames[k].hub = h => i <= Pointed(k)
  BY <1>2 DEF Kept
<1>11. h = Top.hub => ~ \E k \in 1 .. n - 1 : frames[k].hub = h
  BY <1>2
<1>12. Kept(h, i) => Kept(h, i)'
  BY <1>2, <1>3, <1>7, <1>10
<1>. QED
  BY <1>2, <1>5, <1>6, <1>8, <1>9, <1>11, <1>12

LEMMA PlacesNext ==
  ASSUME StackOK, frames # <<>>, NextIndex, pc = "port", pc' \in {"port", "describe"}, NEW h, NEW i \in Nat
  PROVE  /\ Read(h, i)' <=> Read(h, i) \/ (h = Top.hub /\ i = Top.index + 1)
         /\ Left(h, i) => Left(h, i)'
         /\ pc' = "describe" => (Left(h, i)' <=> Left(h, i))
         /\ Kept(h, i) => Kept(h, i)'
<1>a. PICK n : n = Len(frames)
  OBVIOUS
<1>1. /\ frames' \in Seq(Frame) /\ Len(frames') = n
      /\ \A k \in 1 .. n - 1 : frames'[k] = frames[k]
      /\ frames'[n].hub = Top.hub /\ frames'[n].index = Top.index + 1
  BY <1>a, NextFrames
<1>2. /\ n = Len(frames) /\ n \in Nat \ {0} /\ DOMAIN frames = (1 .. n - 1) \cup {n} /\ Top = frames[n]
      /\ \A k \in (1 .. n - 1) \cup {n} : frames[k].index \in Nat
      /\ \A k \in 1 .. n - 1 : k \in Nat /\ k < n /\ frames[k].hub # Top.hub
      /\ frames[n].index \in Nat
      /\ DOMAIN frames' = (1 .. n - 1) \cup {n}
  <2>1. DOMAIN frames' = DOMAIN frames
    BY <1>a, <1>1 DEF StackOK
  <2>. QED
    BY <1>a, <2>1, StackTop
<1>3. ~InHand /\ (InHand' <=> pc' = "describe")
  BY DEF InHand
<1>4. ASSUME NEW k \in 1 .. n - 1
      PROVE  /\ Entered(k)' = frames[k].index /\ Entered(k) = frames[k].index
             /\ Opened(k)' /\ Pointed(k)' = frames[k].index /\ Pointed(k) = frames[k].index
  <2>1. frames'[k] = frames[k] /\ k < n /\ k \in Nat
    BY <1>1, <1>2
  <2>2. Entered(k)' = frames[k].index /\ Opened(k)' /\ Pointed(k)' = frames[k].index
    BY <1>1, <1>2, <2>1 DEF Opened, Through, Entered, Pointed
  <2>3. Entered(k) = frames[k].index /\ Pointed(k) = frames[k].index
    BY <1>2, <2>1 DEF Opened, Through, Entered, Pointed
  <2>. QED
    BY <2>2, <2>3
<1>5. /\ Entered(n) = frames[n].index /\ Pointed(n) = frames[n].index
      /\ Entered(n)' = (IF pc' = "describe" THEN frames[n].index ELSE frames[n].index + 1)
      /\ Pointed(n)' = (IF pc' = "describe" THEN frames[n].index ELSE frames[n].index + 1)
      /\ Opened(n)'
  <2>1. /\ frames'[n].index = frames[n].index + 1 /\ frames[n].index + 1 - 1 = frames[n].index
    BY <1>1, <1>2
  <2>2. Entered(n) = frames[n].index /\ Pointed(n) = frames[n].index
    BY <1>2, <1>3 DEF Through, Entered, Pointed
  <2>3. /\ Through(n)' = (IF pc' = "describe" THEN frames[n].index ELSE frames[n].index + 1)
        /\ Opened(n)'
    BY <1>1, <1>2, <1>3, <2>1 DEF Through, Opened
  <2>4. Entered(n)' = Through(n)' /\ Pointed(n)' = Through(n)'
    BY <1>1, <1>2 DEF Entered, Pointed
  <2>. QED
    BY <2>2, <2>3, <2>4
<1>6. /\ Read(h, i)' <=> /\ \A k \in 1 .. n - 1 : frames[k].hub = h => i <= frames[k].index
                         /\ frames[n].hub = h => i <= frames[n].index + 1
      /\ Read(h, i) <=> /\ \A k \in 1 .. n - 1 : frames[k].hub = h => i <= frames[k].index
                        /\ frames[n].hub = h => i <= frames[n].index
  BY <1>1, <1>2 DEF Read
<1>7. /\ Left(h, i)' <=> /\ \A k \in 1 .. n - 1 : frames[k].hub = h => i <= frames[k].index
                         /\ frames[n].hub = h => i <= Entered(n)'
      /\ Left(h, i) <=> /\ \A k \in 1 .. n - 1 : frames[k].hub = h => i <= frames[k].index
                        /\ frames[n].hub = h => i <= Entered(n)
  BY <1>1, <1>2, <1>4 DEF Left
<1>8. /\ Kept(h, i)' <=> /\ \A k \in 1 .. n - 1 : frames[k].hub = h => i <= frames[k].index
                         /\ frames[n].hub = h => i <= Pointed(n)'
      /\ Kept(h, i) => /\ \A k \in 1 .. n - 1 : frames[k].hub = h => i <= frames[k].index
                       /\ frames[n].hub = h => i <= Pointed(n)
  BY <1>1, <1>2, <1>4, <1>5 DEF Kept
<1>9. h = Top.hub => \A k \in 1 .. n - 1 : frames[k].hub # h
  BY <1>2
<1>10. frames[n].index \in Nat
  BY <1>2
<1>. QED
  BY <1>2, <1>5, <1>6, <1>7, <1>8, <1>9, <1>10

LEMMA PlacesDone ==
  ASSUME StackOK, UNCHANGED frames, InHand, pc' \in {"port", "crashed"}, NEW h, NEW i \in Nat
  PROVE  /\ Read(h, i)' <=> Read(h, i)
         /\ Left(h, i)' <=> Left(h, i) \/ <<h, i>> = Here
         /\ Kept(h, i) => Kept(h, i)'
         /\ <<h, i>> = Here => Kept(h, i)'
<1>a. PICK n : n = Len(frames)
  OBVIOUS
<1>0. ~InHand' /\ pc # "hub" /\ pc' # "hub" /\ frames # <<>>
  BY DEF InHand, StackOK
<1>2. /\ n = Len(frames) /\ n \in Nat \ {0} /\ DOMAIN frames = (1 .. n - 1) \cup {n} /\ Top = frames[n]
      /\ \A k \in (1 .. n - 1) \cup {n} : frames[k].index \in Nat
      /\ \A k \in 1 .. n - 1 : k \in Nat /\ k < n /\ frames[k].hub # Top.hub
      /\ frames[n].index \in Nat
  BY <1>a, <1>0, StackTop
<1>4. ASSUME NEW k \in 1 .. n - 1
      PROVE  /\ Entered(k)' = frames[k].index /\ Entered(k) = frames[k].index
             /\ Opened(k)' /\ Pointed(k)' = frames[k].index /\ Pointed(k) = frames[k].index
  <2>1. k < n /\ k \in Nat
    BY <1>2
  <2>. QED
    BY <1>0, <1>2, <2>1 DEF Opened, Through, Entered, Pointed
<1>5. /\ Entered(n) = frames[n].index - 1 /\ Pointed(n) = frames[n].index - 1
      /\ Entered(n)' = frames[n].index /\ Pointed(n)' = frames[n].index
      /\ Opened(n)'
  BY <1>0, <1>2 DEF Through, Entered, Pointed, Opened
<1>6. Read(h, i)' <=> Read(h, i)
  BY DEF Read
<1>b. DOMAIN frames = (1 .. n - 1) \cup {n} /\ frames' = frames
  BY <1>2
<1>7. /\ Left(h, i)' <=> /\ \A k \in 1 .. n - 1 : frames[k].hub = h => i <= frames[k].index
                         /\ frames[n].hub = h => i <= frames[n].index
      /\ Left(h, i) <=> /\ \A k \in 1 .. n - 1 : frames[k].hub = h => i <= frames[k].index
                        /\ frames[n].hub = h => i <= frames[n].index - 1
  <2>1. Left(h, i)' <=> \A k \in (1 .. n - 1) \cup {n} : frames[k].hub = h => i <= Entered(k)'
    BY <1>b DEF Left
  <2>2. Left(h, i) <=> \A k \in (1 .. n - 1) \cup {n} : frames[k].hub = h => i <= Entered(k)
    BY <1>b DEF Left
  <2>. QED
    BY <1>4, <1>5, <2>1, <2>2
<1>8. /\ Kept(h, i)' <=> /\ \A k \in 1 .. n - 1 : frames[k].hub = h => i <= frames[k].index
                         /\ frames[n].hub = h => i <= frames[n].index
      /\ Kept(h, i) => /\ \A k \in 1 .. n - 1 : frames[k].hub = h => i <= frames[k].index
                       /\ frames[n].hub = h => i <= frames[n].index - 1
  <2>1. Kept(h, i)' <=> \A k \in (1 .. n - 1) \cup {n} : frames[k].hub = h => Opened(k)' /\ i <= Pointed(k)'
    BY <1>b DEF Kept
  <2>2. Kept(h, i) => \A k \in (1 .. n - 1) \cup {n} : frames[k].hub = h => i <= Pointed(k)
    BY <1>b DEF Kept
  <2>. QED
    BY <1>4, <1>5, <2>1, <2>2
<1>9. h = frames[n].hub => \A k \in 1 .. n - 1 : frames[k].hub # h
  BY <1>2
<1>10. /\ <<h, i>> = Here <=> h = frames[n].hub /\ i = frames[n].index
       /\ frames[n].index \in Nat
  BY <1>2 DEF Here
<1>. QED
  BY <1>2, <1>6, <1>7, <1>8, <1>9, <1>10

LEMMA PlacesCall ==
  ASSUME StackOK, NEW hub \in Hubs, NEW given \in SUBSET Blk, Call(hub, given),
         frames = <<>> \/ InHand, NEW h, h # hub, NEW i \in Nat
  PROVE  /\ Read(h, i)' <=> Read(h, i)
         /\ Left(h, i) => Left(h, i)'
         /\ Left(h, i)' => Left(h, i) \/ (frames # <<>> /\ <<h, i>> = Here)
         /\ frames # <<>> /\ <<h, i>> = Here => Left(h, i)'
         /\ Kept(h, i) => Kept(h, i)'
<1>a. PICK n : n = Len(frames)
  OBVIOUS
<1>1. /\ frames' \in Seq(Frame) /\ Len(frames') = n + 1 /\ pc' = "hub"
      /\ \A k \in 1 .. n : frames'[k] = frames[k]
      /\ frames'[n + 1] = [hub |-> hub, index |-> 0, given |-> given]
  BY <1>a, CallFrames
<1>2. /\ n = Len(frames) /\ n \in Nat /\ DOMAIN frames = 1 .. n /\ DOMAIN frames' = (1 .. n) \cup {n + 1}
      /\ \A k \in 1 .. n : frames[k].index \in Nat
      /\ frames'[n + 1].hub # h
  <2>1. \A k \in DOMAIN frames : frames[k].index \in Nat
    <3>1. \A k \in DOMAIN frames : frames[k] \in Frame
      BY DEF StackOK
    <3>. QED
      BY <3>1 DEF Frame
  <2>2. n \in Nat /\ DOMAIN frames = 1 .. n /\ DOMAIN frames' = 1 .. n + 1
    BY <1>a, <1>1 DEF StackOK
  <2>3. 1 .. n + 1 = (1 .. n) \cup {n + 1}
    BY <2>2
  <2>4. frames'[n + 1].hub = hub
    BY <1>1
  <2>. QED
    BY <1>a, <2>1, <2>2, <2>3, <2>4
<1>3. ASSUME NEW k \in 1 .. n
      PROVE  /\ Entered(k)' = frames[k].index
             /\ Entered(k) = (IF k < n THEN frames[k].index ELSE frames[k].index - 1)
             /\ Opened(k)' /\ Pointed(k)' = (IF k < n THEN frames[k].index ELSE frames[k].index - 1)
             /\ Pointed(k) = (IF k < n THEN frames[k].index ELSE frames[k].index - 1)
  <2>1. frames'[k] = frames[k] /\ k \in Nat /\ k < n + 1 /\ frames # <<>> /\ InHand /\ pc # "hub"
    BY <1>1, <1>2, EmptySeq DEF InHand
  <2>2. Entered(k)' = frames[k].index /\ Opened(k)'
    BY <1>1, <1>2, <2>1 DEF Entered, Opened
  <2>3. Opened(k + 1)' <=> k < n
    BY <1>1, <1>2, <2>1 DEF Opened
  <2>4. Through(k)' = frames[k].index - 1
    BY <1>1, <1>2, <2>1 DEF Through
  <2>5. Pointed(k)' = (IF k < n THEN frames[k].index ELSE frames[k].index - 1)
    BY <1>1, <1>2, <2>1, <2>3, <2>4 DEF Pointed
  <2>6. /\ Entered(k) = (IF k < n THEN frames[k].index ELSE frames[k].index - 1)
        /\ Pointed(k) = (IF k < n THEN frames[k].index ELSE frames[k].index - 1)
    BY <1>2, <2>1 DEF Opened, Through, Entered, Pointed
  <2>. QED
    BY <2>2, <2>5, <2>6
<1>4. Read(h, i)' <=> Read(h, i)
  BY <1>1, <1>2 DEF Read
<1>5. /\ Left(h, i)' <=> \A k \in 1 .. n : frames[k].hub = h => i <= frames[k].index
      /\ Left(h, i) <=> \A k \in 1 .. n : frames[k].hub = h =>
                          i <= (IF k < n THEN frames[k].index ELSE frames[k].index - 1)
  <2>1. Left(h, i)' <=> \A k \in (1 .. n) \cup {n + 1} : frames'[k].hub = h => i <= Entered(k)'
    BY <1>2 DEF Left
  <2>2. Left(h, i)' <=> \A k \in 1 .. n : frames'[k].hub = h => i <= Entered(k)'
    BY <1>2, <2>1
  <2>. QED
    BY <1>1, <1>2, <1>3, <2>2 DEF Left
<1>6. Kept(h, i) => Kept(h, i)'
  <2>1. ASSUME NEW k \in 1 .. n + 1, frames'[k].hub = h
        PROVE  k \in 1 .. n /\ frames[k].hub = h /\ Opened(k)' /\ Pointed(k)' = Pointed(k)
    BY <1>1, <1>2, <1>3, <2>1
  <2>. QED
    BY <1>2, <2>1 DEF Kept
<1>7. frames # <<>> => /\ n \in 1 .. n
                       /\ <<h, i>> = Here <=> h = frames[n].hub /\ i = frames[n].index
  BY <1>2, TopIs DEF Here
<1>8. \A j, k \in 1 .. n : frames[j].hub = frames[k].hub => j = k
  BY <1>2 DEF StackOK
<1>9. frames = <<>> => n = 0
  BY <1>2, EmptySeq
<1>10. Left(h, i) => Left(h, i)'
  BY <1>2, <1>5
<1>11. frames # <<>> /\ <<h, i>> = Here => Left(h, i)'
  BY <1>2, <1>5, <1>7, <1>8
<1>12. ASSUME Left(h, i)', ~Left(h, i) PROVE frames # <<>> /\ <<h, i>> = Here
  <2>1. PICK k \in 1 .. n : /\ frames[k].hub = h /\ i <= frames[k].index
                            /\ ~(i <= (IF k < n THEN frames[k].index ELSE frames[k].index - 1))
    BY <1>5, <1>12
  <2>2. k = n /\ i = frames[k].index
    BY <1>2, <2>1
  <2>. QED
    BY <1>2, <1>7, <1>9, <2>1, <2>2
<1>. QED
  BY <1>4, <1>6, <1>10, <1>11, <1>12

-----------------------------------------------------------------------------
(* What the walk has met.  Where no hub is called and no node counted, the   *)
(* same hubs and nodes will do.                                              *)
LEMMA HubsKeep ==
  ASSUME Shape, NEW S \in SUBSET Hubs, HubsMet(S), BlocksMet(S),
         \A k \in DOMAIN frames' : frames'[k].hub \in S,
         \A c \in Controllers : Behind(c) => Behind(c)',
         \A h \in Hubs, i \in Nat : (Left(h, i) => Left(h, i)') /\ (Kept(h, i) => Kept(h, i)'),
         \A p \in keeps' : p \in keeps \/ (p[2][1][1] \in S /\ Kept(p[2][1][1], p[2][1][2])')
  PROVE  HubsMet(S)' /\ BlocksMet(S)'
<1>1. \A h \in Hubs : \A i \in DOMAIN Wiring[h] : i \in Nat
  BY Ports
<1>2. HubsMet(S)'
  BY <1>1 DEF HubsMet
<1>3. BlocksMet(S)'
  <2>1. ASSUME NEW p \in keeps PROVE p[2][1][1] \in Hubs /\ p[2][1][2] \in Nat
    BY DEF Shape, MemoryType, Blk
  <2>2. ASSUME NEW p \in keeps' PROVE p[2][1][1] \in S /\ Kept(p[2][1][1], p[2][1][2])'
    <3>1. CASE p \in keeps
      <4>1. p[2][1][1] \in S /\ Kept(p[2][1][1], p[2][1][2])
        BY <3>1 DEF BlocksMet
      <4>. QED
        BY <2>1, <3>1, <4>1
    <3>. QED
      BY <2>2, <3>1
  <2>. QED
    BY <2>2 DEF BlocksMet
<1>. QED
  BY <1>2, <1>3

LEMMA MetKeeps ==
  ASSUME Shape, NEW S \in SUBSET Hubs, NEW C \in SUBSET Nodes, NEW H \in SUBSET External,
         HubsMet(S), BlocksMet(S), NodesMet(S, C, H), UNCHANGED counters,
         \A k \in DOMAIN frames' : frames'[k].hub \in S,
         \A c \in Controllers : Behind(c) => Behind(c)',
         \A h \in Hubs, i \in Nat :
           (Read(h, i) => Read(h, i)') /\ (Left(h, i) => Left(h, i)') /\ (Kept(h, i) => Kept(h, i)'),
         \A p \in keeps' : p \in keeps \/ (p[2][1][1] \in S /\ Kept(p[2][1][1], p[2][1][2])')
  PROVE  HubsMet(S)' /\ BlocksMet(S)' /\ NodesMet(S, C, H)'
<1>1. \A h \in Hubs : \A i \in DOMAIN Wiring[h] : i \in Nat
  BY Ports
<1>2. HubsMet(S)' /\ BlocksMet(S)'
  BY HubsKeep
<1>3. NodesMet(S, C, H)'
  BY <1>1 DEF NodesMet, counters
<1>. QED
  BY <1>2, <1>3

LEMMA MissesNothing ==
  ASSUME NEW S \in SUBSET Hubs, NEW C \in SUBSET Nodes, NEW H \in SUBSET External,
         NothingMissed(S, C, H),
         faults' = 0 => faults = 0, walks' = walks,
         moved \subseteq moved', \A n \in Nodes \ moved' : node'[n] = node[n],
         \A c \in Controllers : faults' = 0 /\ Behind(c)' => Behind(c),
         GetPassUSBDescSuc => GetPassUSBDescSuc', pc = "crashed" => pc' = "crashed",
         \A h \in S : \A i \in DOMAIN Wiring[h] : faults' = 0 /\ Wiring[h][i] \in Nodes \ moved' =>
           /\ Read(h, i)' => Read(h, i) \/ (~Plugged(Wiring[h][i]) /\ Wiring[h][i] \notin C \cup H)
           /\ Left(h, i)' => \/ Left(h, i)
                             \/ ~Ready(Wiring[h][i])
                             \/ /\ Wiring[h][i] \notin External
                                /\ Wiring[h][i] \in Serial3 => GetPassUSBDescSuc'
  PROVE  NothingMissed(S, C, H)'
<1>. SUFFICES ASSUME faults' = 0, walks' > 0 PROVE
    /\ \A c \in Controllers : Behind(c)' => RootHub[c] \in S
    /\ \A h \in S : \A i \in DOMAIN Wiring[h] : Wiring[h][i] \in Nodes \ moved' =>
         /\ Read(h, i)' => Counted(Wiring[h][i], C, H)'
         /\ Left(h, i)' /\ Ready(Wiring[h][i])' =>
              /\ Wiring[h][i] \in External => Wiring[h][i] \in S
              /\ Wiring[h][i] \in Serial3 => GetPassUSBDescSuc' \/ pc' = "crashed"
  BY DEF NothingMissed
<1>1. \A n \in Nodes \ moved' : /\ n \notin moved /\ Plugged(n)' = Plugged(n)
                                 /\ Connected(n)' = Connected(n) /\ Ready(n)' = Ready(n)
  BY DEF Plugged, Connected, Ready
<1>2. \A c \in Controllers : Behind(c)' => RootHub[c] \in S
  BY DEF NothingMissed
<1>3. ASSUME NEW h \in S, NEW i \in DOMAIN Wiring[h], NEW n \in Nodes \ moved', n = Wiring[h][i]
      PROVE  /\ Read(h, i)' => Counted(n, C, H)'
             /\ Left(h, i)' /\ Ready(n)' =>
                  /\ n \in External => n \in S
                  /\ n \in Serial3 => GetPassUSBDescSuc' \/ pc' = "crashed"
  <2>1. /\ Read(h, i) => Counted(n, C, H)
        /\ Left(h, i) /\ Ready(n) =>
             /\ n \in External => n \in S
             /\ n \in Serial3 => GetPassUSBDescSuc \/ pc = "crashed"
    BY <1>1, <1>3 DEF NothingMissed
  <2>2. /\ Read(h, i)' => Read(h, i) \/ (~Plugged(n) /\ n \notin C \cup H)
        /\ Left(h, i)' => Left(h, i) \/ ~Ready(n)
                            \/ (n \notin External /\ (n \in Serial3 => GetPassUSBDescSuc'))
    BY <1>3
  <2>3. /\ ~Plugged(n) /\ n \notin C \cup H => Counted(n, C, H)
        /\ Counted(n, C, H)' <=> Counted(n, C, H)
    BY <1>1 DEF Counted, Connected, Plugged
  <2>. QED
    BY <1>1, <2>1, <2>2, <2>3
<1>. QED
  BY <1>2, <1>3

LEMMA MetStays ==
  ASSUME Shape, NEW S \in SUBSET Hubs, NEW C \in SUBSET Nodes, NEW H \in SUBSET External,
         Met(S, C, H),
         UNCHANGED <<frames, keeps, counters, result, controller, walks>>,
         InHand' <=> InHand, pc' = "hub" <=> pc = "hub", pc' = "idle" <=> pc = "idle",
         pc = "crashed" => pc' = "crashed",
         faults' = 0 => faults = 0,
         moved \subseteq moved', \A n \in Nodes \ moved' : node'[n] = node[n]
  PROVE  Met(S, C, H)'
<1>1. \A h, i : (Read(h, i)' <=> Read(h, i)) /\ (Left(h, i)' <=> Left(h, i)) /\ (Kept(h, i)' <=> Kept(h, i))
  BY PlacesStay
<1>2. \A c \in Controllers : Behind(c)' <=> Behind(c)
  BY DEF Behind
<1>3. \A k \in DOMAIN frames' : frames'[k].hub \in S
  BY DEF Met, HubsMet
<1>4. HubsMet(S)' /\ BlocksMet(S)' /\ NodesMet(S, C, H)'
  BY <1>1, <1>2, <1>3, MetKeeps DEF Met
<1>5. NothingMissed(S, C, H)'
  BY <1>1, <1>2, MissesNothing DEF Met, result
<1>. QED
  BY <1>4, <1>5 DEF Met

(* A hub is called.                                                          *)
LEMMA MetCalls ==
  ASSUME Shape, NEW S \in SUBSET Hubs, NEW C \in SUBSET Nodes, NEW H \in SUBSET External,
         Met(S, C, H),
         NEW hub \in Hubs \ S, NEW given \in SUBSET Blk, Call(hub, given),
         UNCHANGED <<keeps, counters, result, walks, faults, node, moved>>,
         pc # "crashed",
         \/ frames = <<>> /\ hub \notin Nodes
         \/ InHand /\ hub = NodeAt,
         \A c \in Controllers : RootHub[c] = hub => Behind(c)',
         \A c \in Controllers : Behind(c) => Behind(c)',
         \A c \in Controllers : Behind(c)' => Behind(c) \/ RootHub[c] = hub
  PROVE  Met(S \cup {hub}, C, H)'
<1>. DEFINE T == S \cup {hub}
<1>0. /\ StackOK /\ (frames = <<>> \/ InHand) /\ (InHand => frames # <<>>)
      /\ HubsMet(S) /\ BlocksMet(S) /\ NodesMet(S, C, H) /\ NothingMissed(S, C, H)
      /\ \A h \in Hubs : \A i \in DOMAIN Wiring[h] : i \in Nat /\ i # 0
  BY Ports DEF Shape, StackOK, InHand, Met
<1>1. /\ frames' \in Seq(Frame) /\ Len(frames') = Len(frames) + 1
      /\ \A k \in 1 .. Len(frames) : frames'[k] = frames[k]
      /\ frames'[Len(frames) + 1] = [hub |-> hub, index |-> 0, given |-> given]
      /\ frames' # <<>> /\ pc' = "hub" /\ Len(frames) \in Nat
  BY <1>0, CallFrames DEF StackOK
<1>2. ASSUME NEW h \in Hubs, h # hub, NEW i \in Nat
      PROVE  /\ Read(h, i)' <=> Read(h, i)
             /\ Left(h, i) => Left(h, i)'
             /\ Left(h, i)' => Left(h, i) \/ (frames # <<>> /\ <<h, i>> = Here)
             /\ frames # <<>> /\ <<h, i>> = Here => Left(h, i)'
             /\ Kept(h, i) => Kept(h, i)'
  BY <1>0, <1>2, PlacesCall
<1>3. ASSUME NEW i \in Nat, i # 0 PROVE ~Read(hub, i)' /\ ~Left(hub, i)'
  <2>1. PICK k : k = Len(frames')
    OBVIOUS
  <2>2. k \in DOMAIN frames' /\ frames'[k].hub = hub /\ frames'[k].index = 0
    BY <1>1, <2>1
  <2>3. Entered(k)' = 0
    BY <1>1, <2>1, <2>2 DEF Entered, Through, InHand
  <2>. QED
    BY <1>3, <2>2, <2>3 DEF Read, Left
<1>4. ASSUME NEW h \in Hubs, NEW i \in DOMAIN Wiring[h], Wiring[h][i] = hub
      PROVE  frames # <<>> /\ h \in S /\ h # hub /\ <<h, i>> = Here
  <2>1. Wiring[h][i] \in Nodes
    BY <1>4, Ports, RootsAreNoNodes
  <2>2. InHand /\ hub = NodeAt /\ frames # <<>>
    BY <1>0, <1>4, <2>1
  <2>3. /\ Top.hub \in Hubs /\ Top.index \in DOMAIN Wiring[Top.hub]
        /\ NodeAt = Wiring[Top.hub][Top.index] /\ Top = frames[Len(frames)] /\ Len(frames) \in DOMAIN frames
    BY <1>0, <2>2, TopIs
  <2>4. Top.hub = h /\ Top.index = i
    BY <1>4, <2>1, <2>2, <2>3, HangsOnce
  <2>5. h \in S
    BY <1>0, <2>3, <2>4 DEF HubsMet
  <2>. QED
    BY <2>2, <2>4, <2>5 DEF Here
<1>5. HubsMet(T)'
  <2>1. \A k \in DOMAIN frames' : frames'[k].hub \in T
    <3>1. ASSUME NEW k \in 1 .. Len(frames) PROVE frames'[k].hub \in S
      <4>1. k \in DOMAIN frames /\ frames'[k] = frames[k]
        BY <1>0, <1>1 DEF StackOK
      <4>. QED
        BY <1>0, <4>1 DEF HubsMet
    <3>2. frames'[Len(frames) + 1].hub = hub
      BY <1>1
    <3>3. \A k \in DOMAIN frames' : k \in 1 .. Len(frames) \/ k = Len(frames) + 1
      BY <1>1
    <3>. QED
      BY <3>1, <3>2, <3>3
  <2>2. \A c \in Controllers : RootHub[c] \in T => Behind(c)'
    BY <1>0 DEF HubsMet
  <2>3. ASSUME NEW h \in Hubs, NEW i \in DOMAIN Wiring[h], Wiring[h][i] \in T
        PROVE  h \in T /\ Left(h, i)'
    <3>1. CASE Wiring[h][i] \in S
      <4>1. h \in S /\ Left(h, i)
        BY <1>0, <3>1 DEF HubsMet
      <4>. QED
        BY <1>0, <1>2, <4>1
    <3>2. CASE Wiring[h][i] = hub
      BY <1>0, <1>2, <1>4, <3>2
    <3>. QED
      BY <2>3, <3>1, <3>2
  <2>. QED
    BY <2>1, <2>2, <2>3 DEF HubsMet
<1>6. BlocksMet(T)'
  <2>1. ASSUME NEW p \in keeps PROVE p[2][1][1] \in T /\ Kept(p[2][1][1], p[2][1][2])'
    <3>1. p[2][1][1] \in Hubs /\ p[2][1][2] \in Nat
      BY DEF Shape, MemoryType, Blk
    <3>2. p[2][1][1] \in S /\ Kept(p[2][1][1], p[2][1][2])
      BY <1>0 DEF BlocksMet
    <3>. QED
      BY <1>2, <3>1, <3>2
  <2>. QED
    BY <2>1 DEF BlocksMet
<1>7. NodesMet(T, C, H)'
  <2>1. ASSUME NEW h \in Hubs, NEW i \in DOMAIN Wiring[h], Wiring[h][i] \in C \cup H
        PROVE  h \in T /\ Read(h, i)'
    <3>1. h \in S /\ Read(h, i)
      BY <1>0, <2>1 DEF NodesMet
    <3>. QED
      BY <1>0, <1>2, <3>1
  <2>. QED
    BY <1>0, <2>1 DEF NodesMet, counters
<1>8. NothingMissed(T, C, H)'
  <2>. SUFFICES ASSUME faults = 0, walks > 0 PROVE
      /\ \A c \in Controllers : Behind(c)' => RootHub[c] \in T
      /\ \A h \in T : \A i \in DOMAIN Wiring[h] : Wiring[h][i] \in Nodes \ moved =>
           /\ Read(h, i)' => Counted(Wiring[h][i], C, H)
           /\ Left(h, i)' /\ Ready(Wiring[h][i]) =>
                /\ Wiring[h][i] \in External => Wiring[h][i] \in T
                /\ Wiring[h][i] \in Serial3 => GetPassUSBDescSuc' \/ pc' = "crashed"
    BY DEF NothingMissed, Counted, Plugged, Connected, Ready
  <2>1. \A c \in Controllers : Behind(c)' => RootHub[c] \in T
    BY <1>0 DEF NothingMissed
  <2>2. ASSUME NEW h \in S, NEW i \in DOMAIN Wiring[h], Wiring[h][i] \in Nodes \ moved
        PROVE  /\ Read(h, i)' => Counted(Wiring[h][i], C, H)
               /\ Left(h, i)' /\ Ready(Wiring[h][i]) =>
                    /\ Wiring[h][i] \in External => Wiring[h][i] \in T
                    /\ Wiring[h][i] \in Serial3 => GetPassUSBDescSuc' \/ pc' = "crashed"
    <3>1. /\ Read(h, i) => Counted(Wiring[h][i], C, H)
          /\ Left(h, i) /\ Ready(Wiring[h][i]) =>
               /\ Wiring[h][i] \in External => Wiring[h][i] \in T
               /\ Wiring[h][i] \in Serial3 => GetPassUSBDescSuc'
      BY <1>0, <2>2 DEF NothingMissed, result
    <3>2. h # hub /\ h \in Hubs /\ i \in Nat
      BY <1>0
    <3>3. frames # <<>> /\ <<h, i>> = Here => Wiring[h][i] = hub
      <4>1. ASSUME frames # <<>>, <<h, i>> = Here PROVE Wiring[h][i] = hub
        <5>1. InHand /\ hub = NodeAt /\ NodeAt = Wiring[Top.hub][Top.index]
          BY <1>0, <4>1, TopIs
        <5>. QED
          BY <4>1, <5>1 DEF Here
      <4>. QED
        BY <4>1
    <3>4. Wiring[h][i] = hub => Wiring[h][i] \notin Serial3
      BY RootsAreNoNodes
    <3>. QED
      BY <1>2, <3>1, <3>2, <3>3, <3>4
  <2>3. \A i \in DOMAIN Wiring[hub] : ~Read(hub, i)' /\ ~Left(hub, i)'
    BY <1>0, <1>3
  <2>. QED
    BY <2>1, <2>2, <2>3
<1>. QED
  BY <1>5, <1>6, <1>7, <1>8 DEF Met

(* A hub is left: without a failure, when its last port is through, or when  *)
(* it could not be opened, so that nothing can be plugged in below it.       *)
LEMMA MetReturns ==
  ASSUME Shape, WorldOK, NEW S \in SUBSET Hubs, NEW C \in SUBSET Nodes, NEW H \in SUBSET External,
         Met(S, C, H),
         frames # <<>>, Return, UNCHANGED keeps, pc # "crashed",
         faults' = 0 => /\ faults = 0
                        /\ \/ pc = "port" /\ Top.index = Len(Wiring[Top.hub])
                           \/ pc = "hub" /\ ~Reachable(Top.hub)
  PROVE  Met(S, C, H)'
<1>0. /\ StackOK /\ HubsMet(S) /\ BlocksMet(S) /\ NodesMet(S, C, H) /\ NothingMissed(S, C, H)
      /\ controller \in Nat /\ Controllers \in SUBSET Nat /\ pc # "idle"
      /\ UNCHANGED <<node, moved, walks, counters, result>>
  BY ControllerCount DEF Shape, WalkTypes, StackOK, Met, Return, world
<1>1. /\ frames' \in Seq(Frame) /\ Len(frames') = Len(frames) - 1
      /\ \A k \in 1 .. Len(frames) - 1 : frames'[k] = frames[k]
      /\ frames' = <<>> <=> Len(frames) = 1
      /\ Len(frames) = 1 => pc' = "controllers" /\ controller' = controller + 1
      /\ Len(frames) # 1 => pc' = "port" /\ controller' = controller
  BY <1>0, ReturnFrames
<1>2. \A h, i : i \in Nat =>
         /\ Read(h, i)' <=> Read(h, i) \/ h = Top.hub
         /\ Left(h, i)' <=> Left(h, i) \/ h = Top.hub
         /\ Kept(h, i) => Kept(h, i)'
  BY <1>0, PlacesReturn
<1>3. \A c \in Controllers : Behind(c)' <=> Behind(c)
  BY <1>0, <1>1 DEF Behind
<1>4. \A k \in DOMAIN frames' : frames'[k].hub \in S
  <2>1. \A k \in DOMAIN frames' : k \in DOMAIN frames /\ frames'[k] = frames[k]
    BY SMTT(20), <1>0, <1>1, TopIs
  <2>. QED
    BY <1>0, <2>1 DEF HubsMet
<1>5. HubsMet(S)' /\ BlocksMet(S)' /\ NodesMet(S, C, H)'
  BY <1>0, <1>2, <1>3, <1>4, MetKeeps
<1>6. NothingMissed(S, C, H)'
  <2>1. ASSUME NEW i \in DOMAIN Wiring[Top.hub], faults' = 0, Wiring[Top.hub][i] \in Nodes \ moved
        PROVE  \/ Read(Top.hub, i) /\ Left(Top.hub, i)
               \/ ~Plugged(Wiring[Top.hub][i]) /\ Wiring[Top.hub][i] \notin C \cup H
    <3>1. /\ Len(frames) \in DOMAIN frames /\ Top = frames[Len(frames)]
          /\ Top.hub \in Hubs /\ Top.index \in Nat
          /\ \A k \in DOMAIN frames : frames[k].hub = Top.hub => k = Len(frames)
      BY <1>0, TopIs DEF StackOK
    <3>2. Len(Wiring[Top.hub]) \in Nat /\ i \in 1 .. Len(Wiring[Top.hub])
      BY <3>1, Ports
    <3>3. CASE pc = "port" /\ Top.index = Len(Wiring[Top.hub])
      <4>1. Entered(Len(frames)) = Top.index
        BY <3>1, <3>3 DEF Entered, Through, InHand
      <4>2. i <= Top.index
        BY <3>2, <3>3
      <4>. QED
        BY <3>1, <4>1, <4>2 DEF Read, Left
    <3>4. CASE pc = "hub" /\ ~Reachable(Top.hub)
      <4>1. HubOf(Wiring[Top.hub][i]) = Top.hub
        BY <2>1, <3>1, HangsOnce
      <4>2. ~Plugged(Wiring[Top.hub][i])
        BY <2>1, <3>4, <4>1 DEF WorldOK
      <4>3. Top.index = 0
        BY <1>0, <3>4 DEF StackOK
      <4>4. ~Read(Top.hub, i)
        BY <3>1, <3>2, <4>3 DEF Read
      <4>5. Wiring[Top.hub][i] \notin C \cup H
        BY <1>0, <3>1, <4>4 DEF NodesMet
      <4>. QED
        BY <4>2, <4>5
    <3>. QED
      BY <2>1, <3>3, <3>4
  <2>2. \A h \in S : \A i \in DOMAIN Wiring[h] : faults' = 0 /\ Wiring[h][i] \in Nodes \ moved =>
          /\ Read(h, i)' => Read(h, i) \/ (~Plugged(Wiring[h][i]) /\ Wiring[h][i] \notin C \cup H)
          /\ Left(h, i)' => Left(h, i) \/ ~Ready(Wiring[h][i])
    <3>1. ASSUME NEW h \in S, NEW i \in DOMAIN Wiring[h], faults' = 0, Wiring[h][i] \in Nodes \ moved
          PROVE  /\ Read(h, i)' => Read(h, i) \/ (~Plugged(Wiring[h][i]) /\ Wiring[h][i] \notin C \cup H)
                 /\ Left(h, i)' => Left(h, i) \/ ~Ready(Wiring[h][i])
      <4>1. i \in Nat
        BY <3>1, Ports
      <4>2. ~Plugged(Wiring[h][i]) => ~Ready(Wiring[h][i])
        BY DEF Plugged, Ready
      <4>3. h = Top.hub => \/ Read(h, i) /\ Left(h, i)
                           \/ ~Plugged(Wiring[h][i]) /\ Wiring[h][i] \notin C \cup H
        BY <2>1, <3>1
      <4>. QED
        BY <1>2, <4>1, <4>2, <4>3
    <3>. QED
      BY <3>1
  <2>3. moved' = moved /\ node' = node /\ walks' = walks /\ GetPassUSBDescSuc' = GetPassUSBDescSuc
    BY <1>0 DEF result
  <2>. QED
    BY <1>0, <1>3, <2>2, <2>3, MissesNothing
<1>. QED
  BY <1>5, <1>6 DEF Met

(* A hub is opened.                                                          *)
LEMMA MetOpens ==
  ASSUME Shape, CallsOK, NEW S \in SUBSET Hubs, NEW C \in SUBSET Nodes, NEW H \in SUBSET External,
         Met(S, C, H), OpenHub
  PROVE  Met(S, C, H)'
<1>0. /\ StackOK /\ HubsMet(S) /\ BlocksMet(S) /\ NodesMet(S, C, H)
      /\ NothingMissed(S, C, H) /\ WalkTypes
      /\ UNCHANGED <<frames, controller, node, moved, walks, counters, result>>
      /\ pc = "hub" /\ pc' = "port" /\ frames # <<>>
  BY DEF Shape, OpenHub, StackOK, Met, world
<1>1. \A h, i : i \in Nat =>
        /\ (Read(h, i)' <=> Read(h, i)) /\ (Left(h, i)' <=> Left(h, i)) /\ (Kept(h, i) => Kept(h, i)')
        /\ h = Top.hub /\ i = 0 => Kept(h, i)'
        /\ \A k \in DOMAIN frames : k + 1 = Len(frames) /\ h = frames[k].hub /\ i = frames[k].index
             => Kept(h, i)'
  BY <1>0, PlacesOpen
<1>2. \A c \in Controllers : Behind(c)' <=> Behind(c)
  BY <1>0 DEF Behind
<1>3. \A k \in DOMAIN frames' : frames'[k].hub \in S
  BY <1>0 DEF HubsMet
<1>4. /\ Len(frames) \in DOMAIN frames /\ DOMAIN frames = 1 .. Len(frames) /\ Len(frames) \in Nat
      /\ Top = frames[Len(frames)] /\ Top.hub \in S
      /\ \A k \in DOMAIN frames : frames[k].index \in Nat /\ frames[k].hub \in S
  BY <1>0, <1>3, TopIs, StackTop
<1>5. ASSUME NEW b, b \in Top.given \/ \E kinds : b \in At(<<Top.hub, 0>>, kinds)
      PROVE  b[1][1] \in S /\ Kept(b[1][1], b[1][2])'
  <2>1. \/ b[1] = <<Top.hub, 0>>
        \/ Len(frames) > 1 /\ b[1] = <<frames[Len(frames) - 1].hub, frames[Len(frames) - 1].index>>
    BY <1>4, <1>5 DEF CallsOK, At
  <2>2. CASE b[1] = <<Top.hub, 0>>
    <3>1. b[1][1] = Top.hub /\ b[1][2] = 0
      BY <2>2
    <3>. QED
      BY <1>1, <1>4, <3>1
  <2>3. CASE Len(frames) > 1 /\ b[1] = <<frames[Len(frames) - 1].hub, frames[Len(frames) - 1].index>>
    <3>1. PICK k : k = Len(frames) - 1
      OBVIOUS
    <3>2. k \in DOMAIN frames /\ k + 1 = Len(frames)
      BY <1>4, <2>3, <3>1
    <3>3. b[1][1] = frames[k].hub /\ b[1][2] = frames[k].index
      BY <2>3, <3>1
    <3>. QED
      BY <1>1, <1>4, <3>2, <3>3
  <2>. QED
    BY <2>1, <2>2, <2>3
<1>6. \A p \in keeps' : p \in keeps \/ (p[2][1][1] \in S /\ Kept(p[2][1][1], p[2][1][2])')
  <2>1. PICK answered :
          keeps' = keeps \cup At(<<Top.hub, 0>>, {"info"})
                     \X (Top.given \cup At(<<Top.hub, 0>>, {"HubInfo"} \cup answered))
    BY DEF OpenHub
  <2>2. ASSUME NEW p \in keeps', p \notin keeps
        PROVE  p[2] \in Top.given \/ p[2] \in At(<<Top.hub, 0>>, {"HubInfo"} \cup answered)
    BY <2>1, <2>2
  <2>. QED
    BY <1>5, <2>2
<1>7. HubsMet(S)' /\ BlocksMet(S)' /\ NodesMet(S, C, H)'
  BY <1>0, <1>1, <1>2, <1>3, <1>6, MetKeeps
<1>8. faults' = 0 => faults = 0
  BY <1>0, FaultsGrow DEF Walk
<1>9. NothingMissed(S, C, H)'
  <2>1. \A h \in S : \A i \in DOMAIN Wiring[h] : (Read(h, i)' => Read(h, i)) /\ (Left(h, i)' => Left(h, i))
    BY <1>1, Ports
  <2>. QED
    BY <1>0, <1>2, <1>8, <2>1, MissesNothing DEF result
<1>. QED
  BY <1>7, <1>9 DEF Met

(* A port is passed over.                                                    *)
LEMMA MetSkips ==
  ASSUME Shape, NEW S \in SUBSET Hubs, NEW C \in SUBSET Nodes, NEW H \in SUBSET External,
         Met(S, C, H), SkipPort
  PROVE  Met(S, C, H)'
<1>0. /\ StackOK /\ HubsMet(S) /\ BlocksMet(S) /\ NodesMet(S, C, H) /\ WalkTypes
      /\ UNCHANGED <<controller, counters, keeps>> /\ NextIndex /\ Fault(1)
      /\ pc = "port" /\ pc' = "port" /\ frames # <<>>
  BY DEF Shape, SkipPort, StackOK, Met, memory
<1>1. \A h, i : i \in Nat =>
        (Read(h, i) => Read(h, i)') /\ (Left(h, i) => Left(h, i)') /\ (Kept(h, i) => Kept(h, i)')
  BY <1>0, PlacesNext
<1>2. \A c \in Controllers : Behind(c) => Behind(c)'
  BY <1>0, NextFrames DEF Behind
<1>3. \A k \in DOMAIN frames' : frames'[k].hub \in S
  <2>1. \A k \in DOMAIN frames' : k \in DOMAIN frames /\ frames'[k].hub = frames[k].hub
    BY <1>0, NextFrames, TopIs
  <2>. QED
    BY <1>0, <2>1 DEF HubsMet
<1>4. HubsMet(S)' /\ BlocksMet(S)' /\ NodesMet(S, C, H)'
  BY <1>0, <1>1, <1>2, <1>3, MetKeeps
<1>5. faults' # 0
  BY <1>0, FaultCosts
<1>. QED
  BY <1>4, <1>5 DEF Met, NothingMissed

(* The connection of a port is read: what is plugged in there is counted.    *)
LEMMA MetReads ==
  ASSUME Shape, NEW S \in SUBSET Hubs, NEW C \in SUBSET Nodes, NEW H \in SUBSET External,
         Met(S, C, H), ReadConnection
  PROVE  \E D \in SUBSET Nodes, G \in SUBSET External : Met(S, D, G)'
<1>0. /\ StackOK /\ HubsMet(S) /\ BlocksMet(S) /\ NodesMet(S, C, H)
      /\ NothingMissed(S, C, H) /\ WalkTypes
      /\ UNCHANGED <<controller, keeps, node, moved, walks, result>> /\ NextIndex
      /\ Top.index < Len(Wiring[Top.hub])
      /\ pc = "port" /\ pc' = "describe" /\ frames # <<>>
  BY DEF Shape, ReadConnection, StackOK, Met, world
<1>1. \A h, i : i \in Nat =>
        /\ Read(h, i)' <=> Read(h, i) \/ (h = Top.hub /\ i = Top.index + 1)
        /\ (Left(h, i)' <=> Left(h, i)) /\ (Kept(h, i) => Kept(h, i)')
  BY <1>0, PlacesNext
<1>2. \A c \in Controllers : Behind(c)' <=> Behind(c)
  BY <1>0, NextFrames DEF Behind
<1>3. \A k \in DOMAIN frames' : frames'[k].hub \in S
  <2>1. \A k \in DOMAIN frames' : k \in DOMAIN frames /\ frames'[k].hub = frames[k].hub
    BY <1>0, NextFrames, TopIs
  <2>. QED
    BY <1>0, <2>1 DEF HubsMet
<1>4. PICK g, j, n : g = Top.hub /\ j = Top.index + 1 /\ n = Wiring[g][j]
  OBVIOUS
<1>5. /\ g \in S /\ g \in Hubs /\ j \in DOMAIN Wiring[g] /\ j \in Nat
      /\ n \in Nodes \cup {NoNode} /\ Top.index \in Nat
  BY <1>0, <1>4, TopIs, Ports DEF HubsMet
<1>6. \A h \in Hubs : \A i \in DOMAIN Wiring[h] :
        i \in Nat /\ (n \in Nodes /\ Wiring[h][i] = n => h = g /\ i = j)
  BY <1>4, <1>5, HangsOnce, Ports
<1>7. ~Read(g, j)
  BY <1>0, <1>4, <1>5, TopIs DEF Read
<1>8. n \notin C \cup H
  BY <1>0, <1>4, <1>5, <1>7 DEF NodesMet
<1>9. PICK isHub \in DeviceIsHub(n) :
        /\ TotalDevicesConnected' = TotalDevicesConnected + (IF Connected(n) THEN 1 ELSE 0)
        /\ TotalHubs' = TotalHubs + (IF isHub THEN 1 ELSE 0)
  <2>1. /\ port'.status = ConnectionStatus(n) /\ port'.isHub \in DeviceIsHub(n)
        /\ TotalDevicesConnected'
             = TotalDevicesConnected + (IF port'.status = "DeviceConnected" THEN 1 ELSE 0)
        /\ TotalHubs' = TotalHubs + (IF port'.isHub THEN 1 ELSE 0)
    BY <1>4 DEF ReadConnection, NoPort
  <2>. QED
    BY <2>1 DEF ConnectionStatus
<1>10. PICK D, G : /\ D = IF Connected(n) THEN C \cup {n} ELSE C
                   /\ G = IF isHub THEN H \cup {n} ELSE H
  OBVIOUS
<1>11. /\ D \in SUBSET Nodes /\ G \in SUBSET External
       /\ \A m \in Nodes : m # n => (m \in D <=> m \in C) /\ (m \in G <=> m \in H)
       /\ n \in D \cup G => n \in Nodes
       /\ Counted(n, D, G)
  BY <1>5, <1>8, <1>10, RootsAreNoNodes DEF Plugged, Connected, Counted, DeviceIsHub
<1>12. HubsMet(S)' /\ BlocksMet(S)'
  BY <1>0, <1>1, <1>2, <1>3, HubsKeep
<1>13. NodesMet(S, D, G)'
  <2>1. /\ Cardinality(D) = Cardinality(C) + (IF Connected(n) THEN 1 ELSE 0)
        /\ Cardinality(G) = Cardinality(H) + (IF isHub THEN 1 ELSE 0)
    <3>1. IsFiniteSet(C) /\ IsFiniteSet(H)
      BY TreeAssumption, RootsAreNoNodes, FS_Subset
    <3>2. Cardinality(C) \in Nat /\ Cardinality(H) \in Nat
      BY <3>1, FS_CardinalityType
    <3>3. Cardinality(C \cup {n}) = Cardinality(C) + 1 /\ Cardinality(H \cup {n}) = Cardinality(H) + 1
      BY <1>8, <3>1, FS_AddElement
    <3>4. Cardinality(D) = Cardinality(C) + (IF Connected(n) THEN 1 ELSE 0)
      <4>1. CASE Connected(n)
        BY <1>10, <3>3, <4>1
      <4>2. CASE ~Connected(n)
        BY <1>10, <3>2, <4>2
      <4>. QED
        BY <4>1, <4>2
    <3>5. Cardinality(G) = Cardinality(H) + (IF isHub THEN 1 ELSE 0)
      <4>1. CASE isHub
        BY <1>10, <3>3, <4>1
      <4>2. CASE ~isHub
        BY <1>10, <3>2, <4>2
      <4>. QED
        BY <4>1, <4>2
    <3>. QED
      BY <3>4, <3>5
  <2>2. ASSUME NEW h \in Hubs, NEW i \in DOMAIN Wiring[h], Wiring[h][i] \in D \cup G
        PROVE  h \in S /\ Read(h, i)'
    <3>1. CASE Wiring[h][i] = n
      <4>1. h = g /\ i = j
        BY <1>6, <1>11, <2>2, <3>1
      <4>. QED
        BY <1>1, <1>4, <1>5, <4>1
    <3>2. CASE Wiring[h][i] # n
      <4>1. Wiring[h][i] \in C \cup H
        BY <1>11, <2>2, <3>2, RootsAreNoNodes
      <4>2. h \in S /\ Read(h, i)
        BY <1>0, <4>1 DEF NodesMet
      <4>. QED
        BY <1>1, <1>6, <4>2
    <3>. QED
      BY <3>1, <3>2
  <2>3. TotalDevicesConnected = Cardinality(C) /\ TotalHubs = Cardinality(H)
    BY <1>0 DEF NodesMet
  <2>. QED
    BY <1>9, <2>1, <2>2, <2>3 DEF NodesMet
<1>14. faults' = 0 => faults = 0
  BY <1>0, FaultsGrow DEF Walk
<1>15. NothingMissed(S, D, G)'
  <2>. SUFFICES ASSUME faults' = 0, walks > 0 PROVE
      /\ \A c \in Controllers : Behind(c)' => RootHub[c] \in S
      /\ \A h \in S : \A i \in DOMAIN Wiring[h] : Wiring[h][i] \in Nodes \ moved =>
           /\ Read(h, i)' => Counted(Wiring[h][i], D, G)
           /\ Left(h, i)' /\ Ready(Wiring[h][i]) =>
                /\ Wiring[h][i] \in External => Wiring[h][i] \in S
                /\ Wiring[h][i] \in Serial3 => GetPassUSBDescSuc' \/ pc' = "crashed"
    BY <1>0 DEF NothingMissed, Counted, Plugged, Connected, Ready
  <2>1. \A c \in Controllers : Behind(c)' => RootHub[c] \in S
    BY <1>0, <1>2, <1>14 DEF NothingMissed
  <2>2. ASSUME NEW h \in S, NEW i \in DOMAIN Wiring[h], Wiring[h][i] \in Nodes \ moved
        PROVE  /\ Read(h, i)' => Counted(Wiring[h][i], D, G)
               /\ Left(h, i)' /\ Ready(Wiring[h][i]) =>
                    /\ Wiring[h][i] \in External => Wiring[h][i] \in S
                    /\ Wiring[h][i] \in Serial3 => GetPassUSBDescSuc' \/ pc' = "crashed"
    <3>1. /\ Read(h, i) => Counted(Wiring[h][i], C, H)
          /\ Left(h, i) /\ Ready(Wiring[h][i]) =>
               /\ Wiring[h][i] \in External => Wiring[h][i] \in S
               /\ Wiring[h][i] \in Serial3 => GetPassUSBDescSuc'
      BY <1>0, <1>14, <2>2 DEF NothingMissed, result
    <3>2. i \in Nat /\ h \in Hubs
      BY <1>6
    <3>3. Wiring[h][i] = n => Counted(Wiring[h][i], D, G)
      BY <1>11
    <3>4. Wiring[h][i] # n => /\ Counted(Wiring[h][i], D, G) <=> Counted(Wiring[h][i], C, H)
                              /\ ~(h = g /\ i = j)
      BY <1>4, <1>11, <2>2 DEF Counted
    <3>. QED
      BY <1>1, <1>4, <3>1, <3>2, <3>3, <3>4
  <2>. QED
    BY <2>1, <2>2
<1>. QED
  BY <1>11, <1>12, <1>13, <1>15 DEF Met

(* A port is done with: a hub was passed over, or a device put in the list.  *)
LEMMA MetDone ==
  ASSUME Shape, PortOK, NEW S \in SUBSET Hubs, NEW C \in SUBSET Nodes, NEW H \in SUBSET External,
         Met(S, C, H),
         SkipExternalHub \/ EnumerateDevice
  PROVE  Met(S, C, H)'
<1>0. /\ StackOK /\ HubsMet(S) /\ BlocksMet(S) /\ NodesMet(S, C, H)
      /\ NothingMissed(S, C, H) /\ WalkTypes
      /\ UNCHANGED <<frames, controller, node, moved, walks, counters>>
      /\ InHand /\ pc = "enumerate" /\ pc' \in {"port", "crashed"} /\ frames # <<>>
  BY DEF Shape, SkipExternalHub, EnumerateDevice, StackOK, Met, world, InHand
<1>1. \A h, i : i \in Nat =>
        /\ Read(h, i)' <=> Read(h, i)
        /\ Left(h, i)' <=> Left(h, i) \/ <<h, i>> = Here
        /\ Kept(h, i) => Kept(h, i)'
        /\ <<h, i>> = Here => Kept(h, i)'
  BY <1>0, PlacesDone
<1>2. \A c \in Controllers : Behind(c)' <=> Behind(c)
  BY <1>0 DEF Behind
<1>3. \A k \in DOMAIN frames' : frames'[k].hub \in S
  BY <1>0 DEF HubsMet
<1>4. /\ Top.hub \in S /\ Top.hub \in Hubs /\ Top.index \in Nat /\ Here = <<Top.hub, Top.index>>
      /\ NodeAt = Wiring[Top.hub][Top.index]
  BY <1>0, TopIs DEF HubsMet, Here
<1>5. \A p \in keeps' : p \in keeps \/ (p[2][1][1] \in S /\ Kept(p[2][1][1], p[2][1][2])')
  <2>1. ASSUME NEW p \in keeps', p \notin keeps PROVE p[2][1] = Here
    <3>1. keeps' = keeps \cup At(Here, {"info"}) \X At(Here, port.held)
      BY <2>1 DEF SkipExternalHub, EnumerateDevice
    <3>. QED
      BY <2>1, <3>1 DEF At
  <2>2. ASSUME NEW p \in keeps', p[2][1] = Here PROVE p[2][1][1] \in S /\ Kept(p[2][1][1], p[2][1][2])'
    <3>1. p[2][1][1] = Top.hub /\ p[2][1][2] = Top.index
      BY <1>4, <2>2
    <3>. QED
      BY <1>1, <1>4, <3>1
  <2>. QED
    BY <2>1, <2>2
<1>6. HubsMet(S)' /\ BlocksMet(S)' /\ NodesMet(S, C, H)'
  BY <1>0, <1>1, <1>2, <1>3, <1>5, MetKeeps
<1>7. faults' = 0 => faults = 0
  BY <1>0, FaultsGrow DEF Walk
<1>8. faults' = 0 /\ NodeAt \in Nodes \ moved =>
        ~Ready(NodeAt) \/ (NodeAt \notin External /\ (NodeAt \in Serial3 => GetPassUSBDescSuc'))
  <2>1. CASE SkipExternalHub
    <3>1. Fault(IF Ready(NodeAt) THEN 1 ELSE 0)
      BY <2>1 DEF SkipExternalHub, GetExternalHubName
    <3>2. Ready(NodeAt) => faults' # 0
      BY <1>0, <3>1, FaultCosts
    <3>. QED
      BY <3>2
  <2>2. CASE EnumerateDevice
    <3>1. ASSUME faults' = 0, NodeAt \in Nodes \ moved, Ready(NodeAt)
          PROVE  NodeAt \notin External /\ "ConfigDesc" \in port.held
      <4>1. Connected(NodeAt) /\ faults = 0 /\ ~port.isHub
        BY <1>7, <2>2, <3>1 DEF Connected, Ready, EnumerateDevice
      <4>. QED
        BY <1>0, <3>1, <4>1 DEF PortOK
    <3>. QED
      BY <2>2, <3>1 DEF EnumerateDevice
  <2>. QED
    BY <2>1, <2>2
<1>9. GetPassUSBDescSuc => GetPassUSBDescSuc'
  BY DEF SkipExternalHub, EnumerateDevice, result
<1>10. NothingMissed(S, C, H)'
  <2>1. \A h \in S : \A i \in DOMAIN Wiring[h] : faults' = 0 /\ Wiring[h][i] \in Nodes \ moved =>
          /\ Read(h, i)' => Read(h, i)
          /\ Left(h, i)' => \/ Left(h, i)
                            \/ ~Ready(Wiring[h][i])
                            \/ /\ Wiring[h][i] \notin External
                               /\ Wiring[h][i] \in Serial3 => GetPassUSBDescSuc'
    <3>1. ASSUME NEW h \in S, NEW i \in DOMAIN Wiring[h], faults' = 0, Wiring[h][i] \in Nodes \ moved
          PROVE  /\ Read(h, i)' => Read(h, i)
                 /\ Left(h, i)' => \/ Left(h, i)
                                   \/ ~Ready(Wiring[h][i])
                                   \/ /\ Wiring[h][i] \notin External
                                      /\ Wiring[h][i] \in Serial3 => GetPassUSBDescSuc'
      <4>1. i \in Nat
        BY Ports
      <4>2. <<h, i>> = Here => Wiring[h][i] = NodeAt
        BY <1>4
      <4>. QED
        BY <1>1, <1>8, <3>1, <4>1, <4>2
    <3>. QED
      BY <3>1
  <2>2. moved' = moved /\ node' = node /\ walks' = walks /\ pc # "crashed"
    BY <1>0
  <2>. QED
    BY <1>0, <1>2, <1>7, <1>9, <2>1, <2>2, MissesNothing
<1>. QED
  BY <1>6, <1>10 DEF Met

LEMMA MetStep ==
  ASSUME Shape, CallsOK, WorldOK, PortOK, NEW S \in SUBSET Hubs, NEW C \in SUBSET Nodes, NEW H \in SUBSET External,
         Met(S, C, H), Next
  PROVE  Visited'
<1>0. /\ StackOK /\ WalkTypes /\ HubsMet(S) /\ BlocksMet(S) /\ NodesMet(S, C, H) /\ NothingMissed(S, C, H)
      /\ controller \in Nat
  BY DEF Shape, WalkTypes, Met
<1>a. ASSUME NEW T \in SUBSET Hubs, NEW D \in SUBSET Nodes, NEW G \in SUBSET External, Met(T, D, G)'
      PROVE  Visited'
  BY <1>a DEF Visited
<1>b. Walk => (faults' = 0 => faults = 0) /\ UNCHANGED <<node, moved, walks>>
  BY <1>0, FaultsGrow, WalkKeepsWorld
<1>1. CASE GetPassUSBDesc
  <2>1. /\ frames' = <<>> /\ keeps' = {} /\ TotalDevicesConnected' = 0 /\ TotalHubs' = 0
        /\ pc' = "controllers" /\ controller' = 1
    BY <1>0, <1>1 DEF GetPassUSBDesc, StackOK
  <2>2. DOMAIN <<>> = {} /\ Cardinality({}) = 0
    BY FS_EmptySet
  <2>3. \A c \in Controllers : ~Behind(c)'
    BY <2>1, ControllerCount DEF Behind
  <2>4. HubsMet({})' /\ BlocksMet({})'
    BY <2>1, <2>2 DEF HubsMet, BlocksMet
  <2>5. NodesMet({}, {}, {})'
    BY <2>1, <2>2 DEF NodesMet
  <2>6. NothingMissed({}, {}, {})'
    BY <2>3 DEF NothingMissed
  <2>. QED
    BY <1>a, <2>4, <2>5, <2>6 DEF Met
<1>2. CASE EndWalk \/ SkipController
  <2>1. /\ UNCHANGED <<frames, keeps, counters, result, node, moved, walks>> /\ pc = "controllers"
        /\ frames = <<>> /\ ~InHand /\ ~InHand' /\ pc' \in {"idle", "controllers"}
    BY <1>0, <1>2 DEF EndWalk, SkipController, StackOK, InHand, memory, world
  <2>2. \A h, i : (Read(h, i)' <=> Read(h, i)) /\ (Left(h, i)' <=> Left(h, i)) /\ (Kept(h, i)' <=> Kept(h, i))
    BY <2>1, PlacesStay
  <2>3. \A c \in Controllers : Behind(c) => Behind(c)'
    BY <1>0, <1>2, <2>1, ControllerCount DEF Behind, EndWalk, SkipController
  <2>4. \A k \in DOMAIN frames' : frames'[k].hub \in S
    BY <1>0, <2>1 DEF HubsMet
  <2>5. HubsMet(S)' /\ BlocksMet(S)' /\ NodesMet(S, C, H)'
    BY <1>0, <2>1, <2>2, <2>3, <2>4, MetKeeps
  <2>6. ASSUME faults' = 0 PROVE \A c \in Controllers : Behind(c)
    <3>1. ~Fault(1)
      BY <1>0, <2>6, FaultCosts
    <3>2. controller \notin Controllers /\ controller # 0 /\ controller <= Cardinality(Controllers) + 1
      BY <1>0, <1>2, <2>1, <3>1 DEF EndWalk, SkipController, WalkTypes
    <3>. QED
      BY <1>0, <3>2, ControllerCount DEF Behind
  <2>7. faults' = 0 => faults = 0
    BY <1>2, <1>b DEF Walk
  <2>8. pc # "crashed" /\ GetPassUSBDescSuc' = GetPassUSBDescSuc /\ moved' = moved /\ node' = node /\ walks' = walks
    BY <2>1 DEF result
  <2>9. \A c \in Controllers : faults' = 0 /\ Behind(c)' => Behind(c)
    BY <2>6
  <2>10. NothingMissed(S, C, H)'
    BY <1>0, <2>2, <2>7, <2>8, <2>9, MissesNothing
  <2>. QED
    BY <1>a, <2>5, <2>10 DEF Met
<1>3. CASE EnumerateHostController
  <2>1. PICK hub, given : hub = RootHub[controller] /\ given = GetRootHubName(hub)
    OBVIOUS
  <2>2. /\ pc = "controllers" /\ controller \in Controllers /\ controller' = controller
        /\ Call(hub, given) /\ UNCHANGED <<keeps, counters, result, walks, faults, node, moved>>
    BY <1>3, <2>1 DEF EnumerateHostController, failures, world
  <2>3. hub \in Hubs \ S /\ frames = <<>> /\ hub \in Roots
    BY <1>0, <2>1, <2>2, RootIsNew DEF StackOK, Roots
  <2>4. given \in SUBSET Blk
    BY <2>1, <2>3, AtIsBlk DEF GetRootHubName, Kinds
  <2>5. frames' # <<>> /\ pc' = "hub"
    BY <1>0, <2>2, <2>3, <2>4, CallFrames
  <2>6. hub \notin Nodes
    BY <2>3, RootsAreNoNodes
  <2>7. \A c \in Controllers : RootHub[c] = hub => c = controller
    BY <2>1, <2>2, TreeAssumption
  <2>8. \A c \in Controllers : /\ RootHub[c] = hub => Behind(c)'
                               /\ Behind(c) => Behind(c)'
                               /\ Behind(c)' => Behind(c) \/ RootHub[c] = hub
    BY <2>1, <2>2, <2>3, <2>5, <2>7 DEF Behind
  <2>9. Met(S \cup {hub}, C, H)'
    BY <2>2, <2>3, <2>4, <2>6, <2>8, MetCalls
  <2>. QED
    BY <1>a, <2>3, <2>9
<1>4. CASE EnumerateExternalHub
  <2>1. PICK hub, given : hub = NodeAt /\ given = At(Here, port.held) \cup At(<<NodeAt, 0>>, {"HubName"})
    OBVIOUS
  <2>2. /\ InHand /\ pc = "enumerate" /\ controller' = controller /\ port.isHub
        /\ Call(hub, given) /\ UNCHANGED <<keeps, counters, result, walks, faults, node, moved>>
    BY <1>4, <2>1 DEF EnumerateExternalHub, failures, world, InHand
  <2>3. hub \in Hubs \ S /\ frames # <<>> /\ given \in SUBSET Blk /\ hub \in External
    <3>1. NodeAt \notin S /\ NodeAt \in Hubs /\ NodeAt \in External /\ frames # <<>>
      BY <1>0, <2>2, NodeIsNew, HandIs
    <3>2. At(Here, port.held) \in SUBSET Blk /\ At(<<NodeAt, 0>>, {"HubName"}) \in SUBSET Blk
      BY <2>2, HandIs
    <3>. QED
      BY <2>1, <3>1, <3>2
  <2>4. frames' # <<>> /\ pc' = "hub"
    BY <1>0, <2>2, <2>3, CallFrames
  <2>5. \A c \in Controllers : RootHub[c] # hub
    BY <2>3 DEF External, Roots
  <2>6. \A c \in Controllers : Behind(c)' <=> Behind(c)
    BY <2>2, <2>3, <2>4 DEF Behind
  <2>7. Met(S \cup {hub}, C, H)'
    BY <2>1, <2>2, <2>3, <2>5, <2>6, MetCalls
  <2>. QED
    BY <1>a, <2>3, <2>7
<1>5. CASE OpenHub
  BY <1>5, <1>a, MetOpens
<1>6. CASE EnumerateHubError \/ LeaveHub \/ NoDeviceInfo
  <2>1. frames # <<>> /\ Return /\ UNCHANGED keeps /\ pc # "crashed"
    BY <1>0, <1>6 DEF EnumerateHubError, LeaveHub, NoDeviceInfo, StackOK, Return
  <2>2. \/ Fault(1)
        \/ pc = "port" /\ Top.index = Len(Wiring[Top.hub])
        \/ pc = "hub" /\ ~Reachable(Top.hub)
    BY <1>6 DEF EnumerateHubError, LeaveHub, NoDeviceInfo
  <2>3. Fault(1) => faults' # 0
    BY <1>0, FaultCosts
  <2>4. Met(S, C, H)'
    BY <1>6, <1>b, <2>1, <2>2, <2>3, MetReturns DEF Walk
  <2>. QED
    BY <1>a, <2>4
<1>7. CASE SkipPort
  BY <1>7, <1>a, MetSkips
<1>8. CASE ReadConnection
  BY <1>8, <1>a, MetReads
<1>9. CASE SkipExternalHub \/ EnumerateDevice
  BY <1>9, <1>a, MetDone
<1>10. CASE Describe \/ NoStrings \/ StartStrings \/ GetStringDescriptors \/ StringsDone
  <2>1. /\ UNCHANGED <<frames, keeps, counters, result, controller>>
        /\ InHand' /\ InHand /\ pc \notin {"hub", "idle", "crashed"} /\ pc' \notin {"hub", "idle"}
    BY <1>10 DEF Describe, NoStrings, StartStrings, GetStringDescriptors, StringsDone, InHand, memory
  <2>2. (faults' = 0 => faults = 0) /\ UNCHANGED <<node, moved, walks>>
    BY <1>10, <1>b DEF Walk
  <2>3. Met(S, C, H)'
    BY <2>1, <2>2, MetStays
  <2>. QED
    BY <1>a, <2>3
<1>11. CASE World
  <2>1. /\ UNCHANGED <<pc, frames, keeps, counters, result, controller, walks, faults>>
        /\ InHand' <=> InHand
    BY <1>11, WorldKeeps DEF InHand, memory
  <2>2. Met(S, C, H)'
    BY <1>11, <2>1, WorldMoves, MetStays
  <2>. QED
    BY <1>a, <2>2
<1>. QED
  BY <1>1, <1>2, <1>3, <1>4, <1>5, <1>6, <1>7, <1>8, <1>9, <1>10, <1>11 DEF Next, Walk

-----------------------------------------------------------------------------
(* The pointers.  What is freed is of a place no information block points    *)
(* to, and no other hub was given anything of it.                            *)
LEMMA OthersOfTop ==
  ASSUME StackOK, CallsOK, NEW k \in 1 .. Len(frames) - 1, NEW b \in frames[k].given
  PROVE  /\ b[1] # <<Top.hub, 0>> /\ b[1] # Here
         /\ Len(frames) > 1 => b[1] # <<frames[Len(frames) - 1].hub, frames[Len(frames) - 1].index>>
<1>1. Len(frames) \in Nat /\ DOMAIN frames = 1 .. Len(frames) /\ frames # <<>>
  BY EmptySeq DEF StackOK
<1>2. PICK n \in Nat : n = Len(frames)
  BY <1>1
<1>3. n > 1 /\ k \in 1 .. n - 1 /\ k \in DOMAIN frames /\ n \in DOMAIN frames /\ n - 1 \in DOMAIN frames /\ k # n
      /\ Top = frames[n]
  <2>1. k \in 1 .. n - 1
    BY <1>2
  <2>2. n > 1 /\ k \in 1 .. n /\ n \in 1 .. n /\ n - 1 \in 1 .. n /\ k # n
    BY <2>1
  <2>. QED
    BY <1>1, <1>2, <2>1, <2>2 DEF Top
<1>4. \/ b[1] = <<frames[k].hub, 0>>
      \/ k > 1 /\ b[1] = <<frames[k - 1].hub, frames[k - 1].index>>
  BY <1>3 DEF CallsOK
<1>5. \A i, j \in DOMAIN frames : frames[i].hub = frames[j].hub => i = j
  BY DEF StackOK
<1>6. frames[n - 1].index > 0
  BY <1>1, <1>2, <1>3 DEF StackOK
<1>7. CASE b[1] = <<frames[k].hub, 0>>
  <2>1. frames[k].hub # Top.hub
    BY <1>3, <1>5
  <2>2. frames[n - 1].index # 0
    BY <1>6
  <2>3. b[1][1] # Top.hub /\ b[1][2] # frames[n - 1].index
    BY <1>7, <2>1, <2>2
  <2>. QED
    BY <1>2, <2>3 DEF Here
<1>8. CASE k > 1 /\ b[1] = <<frames[k - 1].hub, frames[k - 1].index>>
  <2>1. k - 1 \in DOMAIN frames /\ k - 1 # n /\ k - 1 # n - 1
    <3>1. k - 1 \in 1 .. n /\ k - 1 # n /\ k - 1 # n - 1
      BY <1>3, <1>8
    <3>. QED
      BY <1>1, <1>2, <3>1
  <2>2. frames[k - 1].hub # Top.hub /\ frames[k - 1].hub # frames[n - 1].hub
    BY <1>3, <1>5, <2>1
  <2>3. b[1][1] # Top.hub /\ b[1][1] # frames[n - 1].hub
    BY <1>8, <2>2
  <2>. QED
    BY <1>2, <2>3 DEF Here
<1>. QED
  BY <1>4, <1>7, <1>8

(* The places no information block points to yet.                            *)
LEMMA NotKept ==
  ASSUME StackOK, frames # <<>>
  PROVE  /\ pc = "hub" => /\ ~Kept(Top.hub, 0)
                          /\ Len(frames) > 1 => ~Kept(frames[Len(frames) - 1].hub, frames[Len(frames) - 1].index)
         /\ InHand => ~Kept(Top.hub, Top.index)
<1>1. /\ Len(frames) \in Nat \ {0} /\ DOMAIN frames = 1 .. Len(frames) /\ Top = frames[Len(frames)]
      /\ \A k \in 1 .. Len(frames) : frames[k].index \in Nat
  BY StackTop
<1>2. PICK n \in Nat \ {0} : n = Len(frames)
  BY <1>1
<1>3. n \in DOMAIN frames /\ Top = frames[n]
  BY <1>1, <1>2
<1>4. pc = "hub" => ~Opened(n)
  BY <1>2 DEF Opened
<1>5. pc = "hub" => ~Kept(Top.hub, 0)
  BY <1>3, <1>4 DEF Kept
<1>6. ASSUME pc = "hub", n > 1 PROVE ~Kept(frames[n - 1].hub, frames[n - 1].index)
  <2>1. PICK m : m = n - 1
    OBVIOUS
  <2>2. m \in DOMAIN frames /\ m < Len(frames) /\ m + 1 = n /\ frames[m].index \in Nat
    BY <1>1, <1>2, <1>6, <2>1
  <2>3. Pointed(m) = frames[m].index - 1
    BY <1>4, <1>6, <2>2 DEF Pointed, Through
  <2>4. ~(frames[m].index <= Pointed(m))
    BY <2>2, <2>3
  <2>5. ~Kept(frames[m].hub, frames[m].index)
    BY <2>2, <2>4 DEF Kept
  <2>. QED
    BY <2>1, <2>5
<1>7. ASSUME InHand PROVE ~Kept(Top.hub, Top.index)
  <2>1. Pointed(n) = Top.index - 1 /\ Top.index \in Nat
    BY <1>1, <1>2, <1>7 DEF Pointed, Through
  <2>2. ~(Top.index <= Pointed(n))
    BY <2>1
  <2>. QED
    BY <1>3, <2>2 DEF Kept
<1>. QED
  BY <1>2, <1>5, <1>6, <1>7

LEMMA PointersStep ==
  ASSUME Shape, CallsOK, PortOK, NoDanglingPointer, NEW S, BlocksMet(S), Next
  PROVE  NoDanglingPointer'
<1>0. StackOK
  BY DEF Shape
<1>. DEFINE Holds == pc \in {"describe", "strings", "fetch", "enumerate"}
<1>a. ASSUME live \subseteq live', \A p \in keeps' : p \in keeps \/ p[2] \in live',
             \A i \in DOMAIN frames' : (i \in DOMAIN frames /\ frames'[i].given = frames[i].given)
                                         \/ frames'[i].given \subseteq live',
             Holds' => At(Here, port.held)' \subseteq live'
      PROVE  NoDanglingPointer'
  <2>1. \A p \in keeps' : p[2] \in live'
    BY <1>a DEF NoDanglingPointer
  <2>2. \A i \in DOMAIN frames' : frames'[i].given \subseteq live'
    BY <1>a DEF NoDanglingPointer
  <2>. QED
    BY <1>a, <2>1, <2>2 DEF NoDanglingPointer
<1>1. CASE GetPassUSBDesc
  <2>1. frames' = <<>> /\ keeps' = {} /\ pc' = "controllers"
    BY <1>0, <1>1 DEF GetPassUSBDesc, StackOK
  <2>2. DOMAIN <<>> = {}
    OBVIOUS
  <2>. QED
    BY <2>1, <2>2 DEF NoDanglingPointer
<1>2. CASE EndWalk \/ SkipController
  BY <1>2, <1>a DEF EndWalk, SkipController, memory
<1>3. CASE EnumerateHostController \/ EnumerateExternalHub
  <2>1. PICK hub, given :
          /\ Call(hub, given) /\ given \subseteq live' /\ live \subseteq live' /\ keeps' = keeps
    <3>1. CASE EnumerateHostController
      BY <3>1 DEF EnumerateHostController
    <3>2. CASE EnumerateExternalHub
      <4>1. At(Here, port.held) \subseteq live
        BY <3>2 DEF EnumerateExternalHub, NoDanglingPointer
      <4>. QED
        BY <3>2, <4>1 DEF EnumerateExternalHub
    <3>. QED
      BY <1>3, <3>1, <3>2
  <2>2. frames' = Append(frames, [hub |-> hub, index |-> 0, given |-> given]) /\ pc' = "hub"
    BY <2>1 DEF Call
  <2>3. \A i \in DOMAIN frames' : (i \in DOMAIN frames /\ frames'[i] = frames[i])
                                    \/ frames'[i] = [hub |-> hub, index |-> 0, given |-> given]
    BY <1>0, <2>2 DEF StackOK
  <2>. QED
    BY <1>a, <2>1, <2>2, <2>3
<1>4. CASE OpenHub
  <2>1. PICK answered :
          /\ live' = live \cup At(<<Top.hub, 0>>, {"info", "HubInfo"} \cup answered)
          /\ keeps' = keeps \cup At(<<Top.hub, 0>>, {"info"})
               \X (Top.given \cup At(<<Top.hub, 0>>, {"HubInfo"} \cup answered))
    BY <1>4 DEF OpenHub
  <2>2. frames' = frames /\ pc' = "port" /\ frames # <<>>
    BY <1>0, <1>4 DEF OpenHub, StackOK
  <2>3. Top.given \subseteq live
    BY <1>0, <2>2, TopIs DEF NoDanglingPointer
  <2>4. \A p \in keeps' : p \in keeps \/ p[2] \in live'
    <3>1. At(<<Top.hub, 0>>, {"HubInfo"} \cup answered) \subseteq live'
      BY <2>1 DEF At
    <3>2. \A p \in keeps' : p \in keeps \/ p[2] \in Top.given \/ p[2] \in At(<<Top.hub, 0>>, {"HubInfo"} \cup answered)
      BY <2>1
    <3>. QED
      BY <2>1, <2>3, <3>1, <3>2
  <2>5. live \subseteq live'
    BY <2>1
  <2>. QED
    BY <1>a, <2>2, <2>4, <2>5
<1>b. ASSUME frames # <<>>, Return, keeps' = keeps,
             \A b \in live : b \in live' \/ \/ /\ pc = "hub" /\ b \in Top.given
                                            \/ InHand /\ b[1] = Here
      PROVE  NoDanglingPointer'
  <2>1. /\ \A k \in DOMAIN frames' : k \in 1 .. Len(frames) - 1 /\ k \in DOMAIN frames /\ frames'[k] = frames[k]
        /\ ~Holds'
    BY <1>0, <1>b, ReturnFrames, TopIs
  <2>2. pc = "hub" => \A b \in Top.given :
          \/ b[1] = <<Top.hub, 0>>
          \/ Len(frames) > 1 /\ b[1] = <<frames[Len(frames) - 1].hub, frames[Len(frames) - 1].index>>
    BY <1>0, <1>b, TopIs DEF CallsOK
  <2>3. ASSUME NEW k \in DOMAIN frames', NEW b \in frames'[k].given PROVE b \in live'
    <3>1. b \in live /\ k \in 1 .. Len(frames) - 1 /\ b \in frames[k].given
      BY <2>1, <2>3 DEF NoDanglingPointer
    <3>2. /\ b[1] # <<Top.hub, 0>> /\ b[1] # Here
          /\ Len(frames) > 1 => b[1] # <<frames[Len(frames) - 1].hub, frames[Len(frames) - 1].index>>
      BY <1>0, <3>1, OthersOfTop
    <3>. QED
      BY <1>b, <2>2, <3>1, <3>2
  <2>4. ASSUME NEW p \in keeps PROVE p[2] \in live'
    <3>1. p[2] \in live /\ Kept(p[2][1][1], p[2][1][2])
      BY DEF NoDanglingPointer, BlocksMet
    <3>2. /\ p[2][1] = <<Top.hub, 0>> => Kept(Top.hub, 0)
          /\ Len(frames) > 1 /\ p[2][1] = <<frames[Len(frames) - 1].hub, frames[Len(frames) - 1].index>>
               => Kept(frames[Len(frames) - 1].hub, frames[Len(frames) - 1].index)
          /\ p[2][1] = Here => Kept(Top.hub, Top.index)
      BY <3>1 DEF Here
    <3>. QED
      BY <1>0, <1>b, <2>2, <3>1, <3>2, NotKept
  <2>. QED
    BY <1>b, <2>1, <2>3, <2>4 DEF NoDanglingPointer
<1>5. CASE EnumerateHubError
  <2>1. frames # <<>> /\ Return /\ keeps' = keeps /\ pc = "hub"
    BY <1>0, <1>5 DEF EnumerateHubError, StackOK
  <2>2. \A b \in live : b \in live' \/ b \in Top.given
    BY <1>5 DEF EnumerateHubError
  <2>. QED
    BY <1>b, <2>1, <2>2
<1>6. CASE LeaveHub
  <2>1. frames # <<>> /\ Return /\ keeps' = keeps /\ live' = live
    BY <1>0, <1>6 DEF LeaveHub, StackOK
  <2>. QED
    BY <1>b, <2>1
<1>7. CASE NoDeviceInfo
  <2>1. frames # <<>> /\ Return /\ keeps' = keeps /\ InHand
    BY <1>0, <1>7 DEF NoDeviceInfo, StackOK, InHand
  <2>2. \A b \in live : b \in live' \/ b[1] = Here
    BY <1>7 DEF NoDeviceInfo, At
  <2>. QED
    BY <1>b, <2>1, <2>2
<1>8. CASE SkipPort \/ ReadConnection
  <2>1. frames # <<>> /\ NextIndex /\ keeps' = keeps /\ live \subseteq live'
    BY <1>0, <1>8 DEF SkipPort, ReadConnection, StackOK, memory
  <2>2. \A i \in DOMAIN frames' : i \in DOMAIN frames /\ frames'[i].given = frames[i].given
    BY <1>0, <2>1, NextFrames, TopIs
  <2>3. Here' = <<Top.hub, Top.index + 1>>
    BY <1>0, <2>1, NextFrames DEF Here, Top
  <2>4. Holds' => At(Here, port.held)' \subseteq live'
    <3>1. CASE SkipPort
      BY <3>1 DEF SkipPort
    <3>2. CASE ReadConnection
      <4>1. PICK held : port'.held = held /\ At(<<Top.hub, Top.index + 1>>, held) \subseteq live'
        BY <3>2 DEF ReadConnection, NoPort
      <4>. QED
        BY <2>3, <4>1
    <3>. QED
      BY <1>8, <3>1, <3>2
  <2>. QED
    BY <1>a, <2>1, <2>2, <2>4
<1>9. CASE Describe \/ StartStrings \/ NoStrings \/ GetStringDescriptors \/ StringsDone
  <2>1. /\ UNCHANGED <<frames, keeps>> /\ Holds /\ port \in Port /\ Here' = Here
    BY <1>9 DEF Describe, StartStrings, NoStrings, GetStringDescriptors, StringsDone, Shape, PortType,
       Here, Top, memory
  <2>2. At(Here, port.held) \subseteq live
    BY <2>1 DEF NoDanglingPointer
  <2>3. PICK got : port'.held = port.held \cup got /\ live' = live \cup At(Here, got)
    BY <1>9, HeldGrows
  <2>4. At(Here, port.held \cup got) \subseteq At(Here, port.held) \cup At(Here, got)
    BY DEF At
  <2>5. At(Here, port.held)' \subseteq live'
    BY <2>1, <2>2, <2>3, <2>4
  <2>6. live \subseteq live'
    BY <2>3
  <2>. QED
    BY <1>a, <2>1, <2>5, <2>6
<1>10. CASE SkipExternalHub
  BY <1>10, <1>a DEF SkipExternalHub
<1>11. CASE EnumerateDevice
  <2>1. /\ live' = live \cup At(Here, {"info"}) /\ frames' = frames
        /\ keeps' = keeps \cup At(Here, {"info"}) \X At(Here, port.held)
        /\ pc = "enumerate" /\ ~Holds'
    BY <1>11 DEF EnumerateDevice
  <2>2. At(Here, port.held) \subseteq live
    BY <2>1 DEF NoDanglingPointer
  <2>3. \A p \in keeps' : p \in keeps \/ p[2] \in live'
    BY <2>1, <2>2
  <2>4. live \subseteq live'
    BY <2>1
  <2>. QED
    BY <1>a, <2>1, <2>3, <2>4
<1>12. CASE World
  BY <1>12, WorldKeeps DEF NoDanglingPointer, Here, Top, memory, At
<1>. QED
  BY <1>1, <1>2, <1>3, <1>4, <1>5, <1>6, <1>7, <1>8, <1>9, <1>10, <1>11, <1>12 DEF Next, Walk

-----------------------------------------------------------------------------
(* The list of strings.  The answers to a request are put at its end, one in *)
(* each language up to the first that fails.                                 *)
LEMMA Answers ==
  ASSUME NEW n \in Nodes, NEW list \in Seq([index : 0 .. NumStrings, language : Nat]),
         NEW s \in 0 .. NumStrings, NEW k \in 0 .. Len(Languages[n])
  PROVE  /\ Len(list) \in Nat /\ DOMAIN list = 1 .. Len(list)
         /\ DOMAIN (list \o Answer(n, s, k)) = 1 .. Len(list) + k /\ Len(list \o Answer(n, s, k)) = Len(list) + k
         /\ \A i \in 1 .. Len(list) : (list \o Answer(n, s, k))[i] = list[i]
         /\ \A l \in 1 .. k : (list \o Answer(n, s, k))[Len(list) + l] = GetStringDescriptor(s, Languages[n][l])
         /\ \A i \in 1 .. Len(list) + k : i \in 1 .. Len(list) \/ \E l \in 1 .. k : i = Len(list) + l
         /\ Languages[n] \in Seq(Nat) /\ DOMAIN Languages[n] = 1 .. Len(Languages[n])
         /\ k \in Nat /\ Len(Languages[n]) \in Nat
<1>. DEFINE E == [index : 0 .. NumStrings, language : Nat]
            c == Len(list)
<1>1. /\ Languages[n] \in Seq(Nat) /\ Len(Languages[n]) \in Nat /\ k \in Nat
      /\ DOMAIN Languages[n] = 1 .. Len(Languages[n])
  BY EnumerationAssumption
<1>2. ASSUME NEW l \in 1 .. k PROVE GetStringDescriptor(s, Languages[n][l]) \in E
  <2>1. l \in 1 .. Len(Languages[n])
    BY <1>1
  <2>2. Languages[n][l] \in Nat
    BY <1>1, <2>1, ElementOfSeq
  <2>. QED
    BY <2>2 DEF GetStringDescriptor
<1>. HIDE DEF E
<1>3. /\ Answer(n, s, k) \in Seq(E) /\ Len(Answer(n, s, k)) = k
      /\ \A l \in 1 .. k : Answer(n, s, k)[l] = GetStringDescriptor(s, Languages[n][l])
  <2>1. Answer(n, s, k) = [l \in 1 .. k |-> GetStringDescriptor(s, Languages[n][l])]
    BY DEF Answer
  <2>2. [l \in 1 .. k |-> GetStringDescriptor(s, Languages[n][l])] \in Seq(E)
    BY <1>1, <1>2
  <2>3. Len([l \in 1 .. k |-> GetStringDescriptor(s, Languages[n][l])]) = k
    BY <1>1
  <2>. QED
    BY <2>1, <2>2, <2>3
<1>4. list \in Seq(E) /\ c \in Nat /\ DOMAIN list = 1 .. c
  BY DEF E
<1>. HIDE DEF c
<1>5. /\ list \o Answer(n, s, k) \in Seq(E) /\ Len(list \o Answer(n, s, k)) = c + k
      /\ \A i \in 1 .. c + k : (list \o Answer(n, s, k))[i] = IF i <= c THEN list[i] ELSE Answer(n, s, k)[i - c]
  <2>. DEFINE all == list \o Answer(n, s, k)
              m   == Len(Answer(n, s, k))
  <2>1. /\ all \in Seq(E) /\ Len(all) = Len(list) + m
        /\ \A i \in 1 .. Len(list) + m : all[i] = IF i <= Len(list) THEN list[i] ELSE Answer(n, s, k)[i - Len(list)]
    BY <1>3, <1>4, ConcatProperties
  <2>. HIDE DEF all
  <2>2. m = k /\ c = Len(list)
    BY <1>3 DEF c
  <2>3. /\ all \in Seq(E) /\ Len(all) = c + k
        /\ \A i \in 1 .. c + k : all[i] = IF i <= c THEN list[i] ELSE Answer(n, s, k)[i - c]
    BY <2>1, <2>2
  <2>. QED
    BY <2>3 DEF all
<1>6. DOMAIN (list \o Answer(n, s, k)) = 1 .. c + k
  BY <1>5
<1>7. \A i \in 1 .. c : (list \o Answer(n, s, k))[i] = list[i]
  BY <1>1, <1>4, <1>5
<1>8. ASSUME NEW l \in 1 .. k PROVE (list \o Answer(n, s, k))[c + l] = GetStringDescriptor(s, Languages[n][l])
  <2>1. c + l \in 1 .. c + k /\ ~(c + l <= c) /\ (c + l) - c = l
    BY <1>1, <1>4
  <2>2. (list \o Answer(n, s, k))[c + l] = Answer(n, s, k)[l]
    BY <1>5, <2>1
  <2>. QED
    BY <1>3, <2>2
<1>9. ASSUME NEW i \in 1 .. c + k PROVE i \in 1 .. c \/ \E l \in 1 .. k : i = c + l
  <2>1. CASE i <= c
    BY <1>4, <2>1
  <2>2. CASE i > c
    <3>1. i - c \in 1 .. k /\ i = c + (i - c)
      BY <1>1, <1>4, <2>2
    <3>. QED
      BY <3>1
  <2>. QED
    BY <1>1, <1>4, <2>1, <2>2
<1>. QED
  BY <1>1, <1>4, <1>5, <1>6, <1>7, <1>8, <1>9 DEF c

(* The entries stay together: those of a string that was not listed follow   *)
(* all others.                                                               *)
LEMMA StayTogether ==
  ASSUME NEW n \in Nodes, NEW list \in Seq([index : 0 .. NumStrings, language : Nat]),
         NEW s \in 0 .. NumStrings, NEW k \in 0 .. Len(Languages[n]),
         Together(n, list), k = 0 \/ \A i \in DOMAIN list : list[i].index # s
  PROVE  Together(n, list \o Answer(n, s, k))
<1>. DEFINE all == list \o Answer(n, s, k)
            c   == Len(list)
<1>0. /\ Len(list) \in Nat /\ DOMAIN list = 1 .. Len(list)
      /\ DOMAIN (list \o Answer(n, s, k)) = 1 .. Len(list) + k /\ Len(list \o Answer(n, s, k)) = Len(list) + k
      /\ \A i \in 1 .. Len(list) : (list \o Answer(n, s, k))[i] = list[i]
      /\ \A l \in 1 .. k : (list \o Answer(n, s, k))[Len(list) + l] = GetStringDescriptor(s, Languages[n][l])
      /\ \A i \in 1 .. Len(list) + k : i \in 1 .. Len(list) \/ \E l \in 1 .. k : i = Len(list) + l
      /\ Languages[n] \in Seq(Nat) /\ DOMAIN Languages[n] = 1 .. Len(Languages[n])
      /\ k \in Nat /\ Len(Languages[n]) \in Nat
  BY Answers
<1>1. /\ c \in Nat /\ DOMAIN list = 1 .. c /\ DOMAIN all = 1 .. c + k /\ k \in Nat
      /\ \A i \in 1 .. c : all[i] = list[i]
      /\ \A l \in 1 .. k : all[c + l] = GetStringDescriptor(s, Languages[n][l])
      /\ \A i \in 1 .. c + k : i \in 1 .. c \/ \E l \in 1 .. k : i = c + l
      /\ DOMAIN Languages[n] = 1 .. Len(Languages[n]) /\ Len(Languages[n]) \in Nat
  BY <1>0
<1>. HIDE DEF all, c
<1>2. ASSUME NEW l \in 1 .. k PROVE all[c + l].index = s /\ all[c + l].language = Languages[n][l]
  <2>1. all[c + l] = GetStringDescriptor(s, Languages[n][l])
    BY <1>1
  <2>. QED
    BY <2>1 DEF GetStringDescriptor
<1>3. ASSUME NEW i \in 1 .. c, all[i].index # 0
      PROVE  \E before \in 0 .. i - 1 : \A j \in DOMAIN all :
               all[j].index = all[i].index =>
                 /\ j - before \in DOMAIN Languages[n]
                 /\ all[j].language = Languages[n][j - before]
  <2>1. PICK before \in 0 .. i - 1 : \A j \in DOMAIN list :
               list[j].index = list[i].index =>
                 /\ j - before \in DOMAIN Languages[n]
                 /\ list[j].language = Languages[n][j - before]
    BY <1>1, <1>3 DEF Together
  <2>2. ASSUME NEW j \in 1 .. c + k, all[j].index = all[i].index PROVE j \in 1 .. c
    <3>1. ASSUME NEW l \in 1 .. k, j = c + l PROVE FALSE
      <4>1. all[j].index = s
        BY <1>2, <3>1
      <4>2. all[i].index = list[i].index /\ i \in DOMAIN list
        BY <1>1
      <4>3. k # 0
        BY <1>1, <3>1
      <4>. QED
        BY <2>2, <4>1, <4>2, <4>3
    <3>. QED
      BY <1>1, <3>1
  <2>3. ASSUME NEW j \in 1 .. c + k, all[j].index = all[i].index
        PROVE  j - before \in DOMAIN Languages[n] /\ all[j].language = Languages[n][j - before]
    <3>1. j \in 1 .. c
      BY <2>2, <2>3
    <3>2. all[j] = list[j] /\ all[i] = list[i]
      BY <1>1, <3>1
    <3>. QED
      BY <1>1, <2>1, <2>3, <3>1, <3>2
  <2>. QED
    BY <1>1, <2>3
<1>4. ASSUME NEW m \in 1 .. k
      PROVE  \E before \in 0 .. (c + m) - 1 : \A j \in DOMAIN all :
               all[j].index = all[c + m].index =>
                 /\ j - before \in DOMAIN Languages[n]
                 /\ all[j].language = Languages[n][j - before]
  <2>1. c \in 0 .. (c + m) - 1 /\ k # 0
    BY <1>1
  <2>2. ASSUME NEW j \in 1 .. c + k, all[j].index = s
        PROVE  j - c \in DOMAIN Languages[n] /\ all[j].language = Languages[n][j - c]
    <3>1. j \notin 1 .. c
      BY <1>1, <2>1, <2>2
    <3>2. PICK l \in 1 .. k : j = c + l
      BY <1>1, <3>1
    <3>3. j - c = l /\ l \in DOMAIN Languages[n]
      BY <1>1, <3>2
    <3>. QED
      BY <1>2, <3>2, <3>3
  <2>. QED
    BY <1>1, <1>2, <2>1, <2>2
<1>5. ASSUME NEW i \in DOMAIN all, all[i].index # 0
      PROVE  \E before \in 0 .. i - 1 : \A j \in DOMAIN all :
               all[j].index = all[i].index =>
                 /\ j - before \in DOMAIN Languages[n]
                 /\ all[j].language = Languages[n][j - before]
  <2>1. i \in 1 .. c \/ \E l \in 1 .. k : i = c + l
    BY <1>1
  <2>2. CASE i \in 1 .. c
    BY <1>3, <1>5, <2>2
  <2>3. ASSUME NEW m \in 1 .. k, i = c + m
        PROVE  \E before \in 0 .. i - 1 : \A j \in DOMAIN all :
                 all[j].index = all[i].index =>
                   /\ j - before \in DOMAIN Languages[n]
                   /\ all[j].language = Languages[n][j - before]
    BY <1>4, <2>3
  <2>. QED
    BY <2>1, <2>2, <2>3
<1>6. Together(n, all)
  BY <1>5 DEF Together
<1>. QED
  BY <1>6 DEF all

(* What was whole stays whole, and what is asked for in all languages        *)
(* becomes whole.                                                            *)
LEMMA BecomesWhole ==
  ASSUME NEW n \in Nodes, NEW list \in Seq([index : 0 .. NumStrings, language : Nat]),
         NEW s \in 0 .. NumStrings, NEW k \in 0 .. Len(Languages[n])
  PROVE  /\ \A t : Whole(n, t, list) => Whole(n, t, list \o Answer(n, s, k))
         /\ k = Len(Languages[n]) => Whole(n, s, list \o Answer(n, s, k))
         /\ NonePartly(n, list) /\ (k = 0 \/ Whole(n, s, list \o Answer(n, s, k))) => NonePartly(n, list \o Answer(n, s, k))
<1>. DEFINE all == list \o Answer(n, s, k)
            c   == Len(list)
<1>0. /\ Len(list) \in Nat /\ DOMAIN list = 1 .. Len(list)
      /\ DOMAIN (list \o Answer(n, s, k)) = 1 .. Len(list) + k /\ Len(list \o Answer(n, s, k)) = Len(list) + k
      /\ \A i \in 1 .. Len(list) : (list \o Answer(n, s, k))[i] = list[i]
      /\ \A l \in 1 .. k : (list \o Answer(n, s, k))[Len(list) + l] = GetStringDescriptor(s, Languages[n][l])
      /\ \A i \in 1 .. Len(list) + k : i \in 1 .. Len(list) \/ \E l \in 1 .. k : i = Len(list) + l
      /\ Languages[n] \in Seq(Nat) /\ DOMAIN Languages[n] = 1 .. Len(Languages[n])
      /\ k \in Nat /\ Len(Languages[n]) \in Nat
  BY Answers
<1>1. /\ c \in Nat /\ DOMAIN list = 1 .. c /\ DOMAIN all = 1 .. c + k /\ k \in Nat
      /\ \A i \in 1 .. c : all[i] = list[i]
      /\ \A l \in 1 .. k : all[c + l] = GetStringDescriptor(s, Languages[n][l])
      /\ \A i \in 1 .. c + k : i \in 1 .. c \/ \E l \in 1 .. k : i = c + l
      /\ DOMAIN Languages[n] = 1 .. Len(Languages[n]) /\ Len(Languages[n]) \in Nat
  BY <1>0
<1>. HIDE DEF all, c
<1>b. 1 .. c \subseteq 1 .. c + k /\ \A l \in 1 .. k : c + l \in 1 .. c + k
  BY <1>1
<1>2. ASSUME NEW t, Whole(n, t, list) PROVE Whole(n, t, all)
  <2>1. ASSUME NEW l \in DOMAIN Languages[n]
        PROVE  \E i \in DOMAIN all : all[i] = GetStringDescriptor(t, Languages[n][l])
    <3>1. PICK i \in DOMAIN list : list[i] = GetStringDescriptor(t, Languages[n][l])
      BY <1>2 DEF Whole
    <3>. QED
      BY <1>1, <1>b, <3>1
  <2>. QED
    BY <2>1 DEF Whole
<1>3. ASSUME k = Len(Languages[n]) PROVE Whole(n, s, all)
  <2>1. ASSUME NEW l \in DOMAIN Languages[n]
        PROVE  \E i \in DOMAIN all : all[i] = GetStringDescriptor(s, Languages[n][l])
    BY <1>1, <1>3, <1>b
  <2>. QED
    BY <2>1 DEF Whole
<1>4. ASSUME NonePartly(n, list), k = 0 \/ Whole(n, s, all) PROVE NonePartly(n, all)
  <2>1. ASSUME NEW i \in DOMAIN all, all[i].index \in Existing[n] PROVE Whole(n, all[i].index, all)
    <3>1. CASE i \in 1 .. c
      <4>1. all[i].index = list[i].index /\ i \in DOMAIN list
        BY <1>1, <3>1
      <4>2. Whole(n, list[i].index, list)
        BY <1>4, <2>1, <4>1 DEF NonePartly
      <4>. QED
        BY <1>2, <4>1, <4>2
    <3>2. ASSUME NEW l \in 1 .. k, i = c + l PROVE Whole(n, all[i].index, all)
      <4>1. all[i] = GetStringDescriptor(s, Languages[n][l])
        BY <1>1, <3>2
      <4>2. all[i].index = s
        BY <4>1 DEF GetStringDescriptor
      <4>3. k # 0
        BY <1>1, <3>2
      <4>. QED
        BY <1>4, <4>2, <4>3
    <3>. QED
      BY <1>1, <3>1, <3>2
  <2>. QED
    BY <2>1 DEF NonePartly
<1>. QED
  BY <1>2, <1>3, <1>4 DEF all

(* The requests a node's strings begin with leave none out.                  *)
LEMMA AllRequested ==
  ASSUME NEW n \in Nodes, NEW list
  PROVE  /\ GetAllStringDescriptors(n) \in Seq(ToDo)
         /\ ProbesLast(GetAllStringDescriptors(n))
         /\ NoneLeftOut(n, GetAllStringDescriptors(n), list)
<1>1. PICK a, b, c \in Seq(ToDo) :
           /\ GetAllStringDescriptors(n) = (a \o b) \o c
           /\ a = [i \in DOMAIN DeviceStrings[n] |-> Request(DeviceStrings[n][i])]
           /\ DOMAIN b = Seen(n, Checked)
           /\ \A i \in DOMAIN b :
                b[i] = Request(IF Blocks[n][i].type \in Checked THEN Blocks[n][i].string ELSE 0)
           /\ \A i \in DOMAIN c : c[i].probe
  BY RequestsInOrder
<1>. DEFINE all == GetAllStringDescriptors(n)
<1>2. PICK p, q, r : p = Len(a) /\ q = Len(b) /\ r = Len(c)
  OBVIOUS
<1>3. /\ p \in Nat /\ q \in Nat /\ r \in Nat
      /\ DOMAIN a = 1 .. p /\ DOMAIN b = 1 .. q /\ DOMAIN c = 1 .. r
  BY <1>2
<1>4. /\ a \o b \in Seq(ToDo) /\ Len(a \o b) = p + q
      /\ \A i \in 1 .. p + q : (a \o b)[i] = IF i <= p THEN a[i] ELSE b[i - p]
  BY <1>2, ConcatProperties
<1>5. /\ all \in Seq(ToDo) /\ Len(all) = (p + q) + r
      /\ \A i \in 1 .. (p + q) + r : all[i] = IF i <= p + q THEN (a \o b)[i] ELSE c[i - (p + q)]
  BY <1>1, <1>2, <1>4, ConcatProperties
<1>. HIDE DEF all
<1>6. DOMAIN all = 1 .. (p + q) + r
  BY <1>5
<1>7. ASSUME NEW i \in 1 .. p PROVE i \in DOMAIN all /\ all[i] = a[i] /\ ~all[i].probe
  <2>1. i \in 1 .. p + q /\ i \in 1 .. (p + q) + r /\ i <= p /\ i <= p + q
    BY <1>3
  <2>2. all[i] = a[i]
    BY <1>4, <1>5, <2>1
  <2>3. a[i] = Request(DeviceStrings[n][i])
    BY <1>1, <1>3
  <2>. QED
    BY <1>6, <2>1, <2>2, <2>3 DEF Request
<1>8. ASSUME NEW i \in 1 .. q PROVE p + i \in DOMAIN all /\ all[p + i] = b[i] /\ ~all[p + i].probe
  <2>1. /\ p + i \in 1 .. p + q /\ p + i \in 1 .. (p + q) + r /\ ~(p + i <= p) /\ p + i <= p + q
        /\ (p + i) - p = i
    BY <1>3
  <2>2. all[p + i] = b[i]
    BY <1>4, <1>5, <2>1
  <2>3. b[i] = Request(IF Blocks[n][i].type \in Checked THEN Blocks[n][i].string ELSE 0)
    BY <1>1, <1>3
  <2>4. ~b[i].probe
    BY <2>3 DEF Request
  <2>. QED
    BY <1>6, <2>1, <2>2, <2>4
<1>9. ASSUME NEW i \in 1 .. (p + q) + r, ~(i <= p + q) PROVE all[i].probe
  <2>1. i - (p + q) \in 1 .. r
    BY <1>3, <1>9
  <2>. QED
    BY <1>1, <1>3, <1>5, <1>9, <2>1
<1>10. ASSUME NEW i \in 1 .. (p + q) + r, i <= p + q PROVE ~all[i].probe
  <2>1. CASE i <= p
    BY <1>3, <1>7, <2>1
  <2>2. CASE i > p
    <3>1. i - p \in 1 .. q /\ i = p + (i - p)
      BY <1>3, <1>10, <2>2
    <3>. QED
      BY <1>8, <3>1
  <2>. QED
    BY <1>3, <2>1, <2>2
<1>11. ProbesLast(all)
  <2>1. ASSUME NEW i \in DOMAIN all, NEW j \in DOMAIN all, i < j, all[i].probe PROVE all[j].probe
    <3>1. ~(i <= p + q)
      BY <1>6, <1>10, <2>1
    <3>2. ~(j <= p + q)
      BY <1>3, <1>6, <2>1, <3>1
    <3>. QED
      BY <1>6, <1>9, <3>2
  <2>. QED
    BY <2>1 DEF ProbesLast
<1>12. NoneLeftOut(n, all, list)
  <2>1. ASSUME NEW s \in Referred(n) PROVE \E i \in DOMAIN all : all[i] = Request(s)
    <3>1. ASSUME NEW i \in DOMAIN DeviceStrings[n], s = DeviceStrings[n][i] PROVE \E j \in DOMAIN all : all[j] = Request(s)
      BY <1>1, <1>3, <1>7, <3>1
    <3>2. ASSUME NEW i \in Seen(n, Checked), Blocks[n][i].type \in Checked, s = Blocks[n][i].string
          PROVE  \E j \in DOMAIN all : all[j] = Request(s)
      BY <1>1, <1>3, <1>8, <3>2
    <3>. QED
      BY <3>1, <3>2 DEF Referred
  <2>. QED
    BY <2>1 DEF NoneLeftOut
<1>. QED
  BY <1>5, <1>11, <1>12 DEF all

(* The request r for a string of node n, answered in k languages.            *)
Asked(n, r, k) ==
  /\ Listed(r.string) => k = 0
  /\ Fault(IF Listed(r.string) \/ k = Answered(n, r.string) THEN 0 ELSE 1)
  /\ port' = [port EXCEPT
       !.strings = @ \o [l \in 1 .. k |-> GetStringDescriptor(r.string, Languages[n][l])],
       !.todo    = IF r.probe /\ ~Listed(r.string) /\ k < Len(Languages[n]) THEN <<>> ELSE Tail(@)]

LEMMA FirstAsked ==
  ASSUME GetStringDescriptors, NEW n, NEW r, n = NodeAt, r = Head(port.todo)
  PROVE  \E k \in 0 .. Answered(n, r.string) : Asked(n, r, k)
BY ZenonT(30) DEF GetStringDescriptors, Asked

(* A request is made: the first to be asked for is whole then, or something  *)
(* failed.                                                                   *)
LEMMA StringsAsked ==
  ASSUME Shape, PortOK, NEW n \in Nodes, n = NodeAt, StringsAt(n), GetStringDescriptors
  PROVE  StringsAt(n)' /\ port'.strings # <<>> /\ NodeAt' = n
<1>. DEFINE E == [index : 0 .. NumStrings, language : Nat]
<1>0. /\ port.todo \in Seq(ToDo) /\ port.todo # <<>> /\ port.strings \in Seq(E) /\ port \in Port
      /\ UNCHANGED <<frames, node, moved>> /\ WalkTypes
  BY DEF GetStringDescriptors, Shape, PortType, Port, world
<1>b. PICK r : r = Head(port.todo)
  OBVIOUS
<1>. DEFINE s == r.string
<1>c. PICK list, rest : list = port.strings /\ rest = Tail(port.todo)
  OBVIOUS
<1>a. r = Head(port.todo) /\ list = port.strings /\ rest = Tail(port.todo)
  BY <1>b, <1>c
<1>d. PICK k \in 0 .. Answered(n, r.string) : Asked(n, r, k)
  BY <1>b, FirstAsked
<1>1. /\ k \in 0 .. Answered(n, s)
      /\ Listed(s) => k = 0
      /\ Fault(IF Listed(s) \/ k = Answered(n, s) THEN 0 ELSE 1)
      /\ port' = [port EXCEPT
           !.strings = @ \o [l \in 1 .. k |-> GetStringDescriptor(s, Languages[n][l])],
           !.todo    = IF r.probe /\ ~Listed(s) /\ k < Len(Languages[n]) THEN <<>> ELSE Tail(@)]
  BY <1>d DEF Asked
<1>. HIDE DEF s
<1>2. PICK new : new = Answer(n, s, k)
  OBVIOUS
<1>3. /\ port'.strings = list \o new
      /\ port'.todo = IF r.probe /\ ~Listed(s) /\ k < Len(Languages[n]) THEN <<>> ELSE rest
  BY <1>0, <1>1, <1>2, <1>a DEF Port, Answer
<1>4. PICK c : c = Len(port.todo)
  OBVIOUS
<1>5. /\ r \in ToDo /\ c \in Nat \ {0} /\ DOMAIN port.todo = 1 .. c /\ r = port.todo[1]
      /\ DOMAIN rest = 1 .. c - 1 /\ \A i \in 1 .. c - 1 : rest[i] = port.todo[i + 1]
  <2>1. c \in Nat /\ DOMAIN port.todo = 1 .. c /\ c # 0
    BY <1>0, <1>4, EmptySeq
  <2>2. r \in ToDo /\ rest \in Seq(ToDo) /\ Len(rest) = c - 1 /\ \A i \in 1 .. Len(rest) : rest[i] = port.todo[i + 1]
    BY <1>0, <1>a, <1>4, HeadTailProperties
  <2>3. r = port.todo[1]
    BY <1>0, <1>a
  <2>. QED
    BY <2>1, <2>2, <2>3
<1>6. s \in 0 .. NumStrings /\ (r.probe \/ r = Request(s)) /\ r.probe \in BOOLEAN
  BY <1>a, <1>5 DEF ToDo, Request, s
<1>7. /\ k \in 0 .. Len(Languages[n]) /\ Len(Languages[n]) \in Nat
      /\ Answered(n, s) \in {0, Len(Languages[n])}
      /\ Connected(n) /\ s \in Existing[n] => Answered(n, s) = Len(Languages[n])
  <2>1. Languages[n] \in Seq(Nat)
    BY EnumerationAssumption
  <2>. QED
    BY <1>1, <2>1 DEF Answered
<1>8. Listed(s) <=> \E i \in DOMAIN list : list[i].index = s
  BY <1>a DEF Listed
<1>9. /\ Together(n, list \o new)
      /\ \A t : Whole(n, t, list) => Whole(n, t, list \o new)
      /\ k = Len(Languages[n]) => Whole(n, s, list \o new)
      /\ NonePartly(n, list) /\ (k = 0 \/ Whole(n, s, list \o new)) => NonePartly(n, list \o new)
      /\ Len(list \o new) > 0 /\ (list \o new)[1].index = 0
  <2>1. list \in Seq([index : 0 .. NumStrings, language : Nat]) /\ Together(n, list) /\ Len(list) > 0 /\ list[1].index = 0
    BY <1>0, <1>a DEF StringsAt
  <2>2. k = 0 \/ \A i \in DOMAIN list : list[i].index # s
    BY <1>1, <1>8
  <2>3. Together(n, list \o new)
    BY <1>2, <1>6, <1>7, <2>1, <2>2, StayTogether
  <2>4. Len(list \o new) > 0 /\ (list \o new)[1] = list[1]
    <3>1. /\ Len(list) \in Nat /\ Len(list \o new) = Len(list) + k /\ k \in Nat
          /\ \A i \in 1 .. Len(list) : (list \o new)[i] = list[i]
      BY <1>2, <1>6, <1>7, <2>1, Answers
    <3>. QED
      BY <2>1, <3>1
  <2>. QED
    BY <1>2, <1>6, <1>7, <2>1, <2>3, <2>4, BecomesWhole
<1>10. ProbesLast(port'.todo)
  <2>1. ASSUME NEW i \in 1 .. c - 1, NEW j \in 1 .. c - 1, i < j, rest[i].probe PROVE rest[j].probe
    <3>1. i + 1 \in 1 .. c /\ j + 1 \in 1 .. c /\ i + 1 < j + 1
      BY <1>5, <2>1
    <3>. QED
      BY <1>5, <2>1, <3>1 DEF StringsAt, ProbesLast
  <2>2. ProbesLast(rest)
    BY <1>5, <2>1 DEF ProbesLast
  <2>3. ProbesLast(<<>>)
    BY EmptySeq DEF ProbesLast
  <2>. QED
    BY <1>3, <2>2, <2>3
<1>11. n \notin moved => Connected(n) /\ Connected(n)'
  BY <1>0 DEF StringsAt, Connected
<1>12. ASSUME faults' = 0, n \notin moved'
       PROVE  NonePartly(n, list \o new) /\ NoneLeftOut(n, port'.todo, list \o new)
  <2>1. faults = 0 /\ n \notin moved /\ (Listed(s) \/ k = Answered(n, s))
    <3>1. PICK cost \in {0, 1} : Fault(cost) /\ (cost = 0 => Listed(s) \/ k = Answered(n, s))
      BY <1>1
    <3>2. faults = 0 /\ cost = 0
      BY <1>0, <1>12, <3>1, FaultCosts
    <3>. QED
      BY <1>0, <1>12, <3>1, <3>2
  <2>2. NonePartly(n, list) /\ NoneLeftOut(n, port.todo, list) /\ Connected(n)
    BY <1>a, <2>1 DEF StringsAt
  <2>3. s \in Existing[n] => Whole(n, s, list \o new)
    <3>1. CASE Listed(s)
      BY <1>8, <1>9, <2>2, <3>1 DEF NonePartly
    <3>2. CASE k = Answered(n, s)
      BY <1>7, <1>9, <2>2, <3>2
    <3>. QED
      BY <2>1, <3>1, <3>2
  <2>4. k = 0 \/ Whole(n, s, list \o new)
    <3>1. CASE Listed(s)
      BY <1>1, <3>1
    <3>2. CASE k = Answered(n, s)
      BY <1>7, <1>9, <3>2
    <3>. QED
      BY <2>1, <3>1, <3>2
  <2>5. ASSUME NEW t \in Referred(n) \cap Existing[n], ~Whole(n, t, list \o new)
        PROVE  \E i \in DOMAIN port'.todo : port'.todo[i] = Request(t)
    <3>1. ~Whole(n, t, list)
      BY <1>9, <2>5
    <3>2. PICK i \in 1 .. c : port.todo[i] = Request(t)
      BY <1>5, <2>2, <2>5, <3>1 DEF NoneLeftOut
    <3>3. i # 1
      <4>1. i = 1 => t = s
        BY <1>a, <1>5, <3>2 DEF Request, s
      <4>. QED
        BY <2>3, <2>5, <4>1
    <3>4. i - 1 \in 1 .. c - 1 /\ (i - 1) + 1 = i /\ 1 < i /\ 1 \in 1 .. c
      BY <1>5, <3>3
    <3>5. rest[i - 1] = Request(t)
      BY <1>5, <3>2, <3>4
    <3>6. ~r.probe
      <4>1. ~port.todo[i].probe
        BY <3>2 DEF Request
      <4>. QED
        BY <1>5, <3>4, <4>1 DEF StringsAt, ProbesLast
    <3>7. port'.todo = rest
      BY <1>3, <3>6
    <3>. QED
      BY <1>5, <3>4, <3>5, <3>7
  <2>. QED
    BY <1>9, <2>2, <2>4, <2>5 DEF NoneLeftOut
<1>13. StringsAt(n)'
  <2>1. /\ Together(n, port'.strings) /\ Len(port'.strings) > 0 /\ port'.strings[1].index = 0
        /\ faults' = 0 /\ n \notin moved' =>
             NonePartly(n, port'.strings) /\ NoneLeftOut(n, port'.todo, port'.strings)
    BY <1>3, <1>9, <1>12
  <2>2. n \notin moved' => Connected(n)'
    BY <1>0, <1>11
  <2>. QED
    BY <1>10, <2>1, <2>2 DEF StringsAt
<1>14. list \o new # <<>>
  BY <1>9, EmptySeq
<1>. QED
  BY <1>0, <1>3, <1>13, <1>14 DEF NodeAt, Top

LEMMA StringsStep ==
  ASSUME Shape, WorldOK, PortOK, StringsOK, Next
  PROVE  StringsOK'
<1>0. StackOK /\ WalkTypes
  BY DEF Shape
<1>a. ASSUME UNCHANGED <<frames, node, moved, port>>, faults' = 0 => faults = 0, InHand,
             pc' \notin {"describe", "strings", "fetch"}
      PROVE  StringsOK'
  <2>1. CASE port.strings = <<>>
    BY <1>a, <2>1 DEF StringsOK
  <2>2. CASE port.strings # <<>>
    <3>1. PICK n \in Nodes : n = NodeAt /\ StringsAt(n)
      BY <1>a, <2>2 DEF StringsOK
    <3>2. NodeAt' = n /\ Connected(n)' = Connected(n)
      BY <1>a, <3>1 DEF NodeAt, Top, Connected
    <3>3. StringsAt(n)'
      BY <1>a, <3>1, <3>2 DEF StringsAt
    <3>. QED
      BY <1>a, <3>2, <3>3 DEF StringsOK
  <2>. QED
    BY <2>1, <2>2
<1>1. CASE ~InHand'
  <2>1. pc' \notin {"describe", "strings", "fetch"}
    BY <1>1 DEF InHand
  <2>. QED
    BY <1>1, <2>1 DEF StringsOK
<1>2. CASE InHand /\ World
  <2>1. UNCHANGED <<pc, frames, port, faults>> /\ moved \subseteq moved'
    BY <1>2, WorldKeeps, WorldMoves
  <2>2. CASE port.strings = <<>>
    BY <2>1, <2>2 DEF StringsOK
  <2>3. CASE port.strings # <<>>
    <3>1. PICK n \in Nodes : n = NodeAt /\ StringsAt(n)
      BY <1>2, <2>3 DEF StringsOK
    <3>2. NodeAt' = n
      BY <2>1, <3>1 DEF NodeAt, Top
    <3>3. n \notin moved' => n \notin moved /\ Connected(n)' = Connected(n)
      BY <1>2, NodesStay
    <3>4. StringsAt(n)'
      BY <2>1, <3>1, <3>3 DEF StringsAt
    <3>5. pc \in {"describe", "strings"} => port.strings = <<>>
      BY DEF StringsOK
    <3>. QED
      BY <2>1, <3>2, <3>4, <3>5 DEF StringsOK
  <2>. QED
    BY <2>2, <2>3
<1>3. CASE ReadConnection
  <2>1. port'.strings = <<>> /\ pc' = "describe"
    BY <1>3 DEF ReadConnection, NoPort
  <2>. QED
    BY <2>1 DEF StringsOK
<1>4. CASE Describe
  <2>1. port'.strings = port.strings /\ pc' = "strings"
    BY <1>4 DEF Describe, Shape, PortType, Port
  <2>2. port.strings = <<>>
    BY <1>4 DEF Describe, StringsOK
  <2>. QED
    BY <2>1, <2>2 DEF StringsOK
<1>5. CASE NoStrings
  <2>1. port' = port /\ port.strings = <<>> /\ pc' \in {"endless", "enumerate"}
    BY <1>5 DEF NoStrings, StringsOK
  <2>. QED
    BY <2>1 DEF StringsOK
<1>6. CASE StartStrings
  <2>1. PICK n : n = NodeAt
    OBVIOUS
  <2>2. /\ InHand /\ Connected(n) /\ UNCHANGED <<frames, node, moved>> /\ pc' = "fetch"
        /\ port \in Port
    BY <1>6, <2>1 DEF StartStrings, InHand, world, Shape, PortType
  <2>3. n \in Nodes
    <3>1. n \in Nodes \cup {NoNode}
      BY <2>1, <2>2, HandIs, TopIs
    <3>. QED
      BY <2>2, <3>1 DEF Connected
  <2>4. PICK list, all : list = <<[index |-> 0, language |-> 0]>> /\ all = GetAllStringDescriptors(n)
    OBVIOUS
  <2>5. port'.strings = list /\ port'.todo = all
    BY <1>6, <2>1, <2>2, <2>4 DEF StartStrings, Port
  <2>6. ProbesLast(all) /\ NoneLeftOut(n, all, list)
    BY <2>3, <2>4, AllRequested
  <2>7. /\ DOMAIN list = {1} /\ Len(list) = 1 /\ list # <<>> /\ \A i \in DOMAIN list : list[i].index = 0
    BY <2>4
  <2>8. Together(n, list)
    BY <2>7 DEF Together
  <2>9. NonePartly(n, list)
    <3>1. 0 \notin Existing[n]
      BY <2>3, EnumerationAssumption
    <3>. QED
      BY <2>7, <3>1 DEF NonePartly
  <2>10. NodeAt' = n /\ Connected(n)'
    BY <2>1, <2>2 DEF NodeAt, Top, Connected
  <2>11. StringsAt(n)'
    BY <2>5, <2>6, <2>7, <2>8, <2>9, <2>10 DEF StringsAt
  <2>. QED
    BY <2>2, <2>3, <2>5, <2>7, <2>10, <2>11 DEF StringsOK
<1>7. CASE GetStringDescriptors
  <2>1. InHand /\ pc' = "fetch"
    BY <1>7 DEF GetStringDescriptors, InHand
  <2>2. PICK n \in Nodes : n = NodeAt /\ StringsAt(n)
    BY <1>7, <2>1 DEF StringsOK, GetStringDescriptors
  <2>. QED
    BY <1>7, <2>1, <2>2, StringsAsked DEF StringsOK
<1>8. CASE StringsDone
  <2>1. UNCHANGED <<frames, node, moved, port>> /\ InHand /\ pc' \in {"endless", "enumerate"} /\ Walk
    BY <1>8 DEF StringsDone, InHand, world, Walk
  <2>2. faults' = 0 => faults = 0
    BY <1>0, <2>1, FaultsGrow
  <2>. QED
    BY <1>a, <2>1, <2>2
<1>9. ~InHand' \/ (InHand /\ World) \/ ReadConnection \/ Describe \/ NoStrings \/ StartStrings
        \/ GetStringDescriptors \/ StringsDone
  <2>1. CASE GetPassUSBDesc
    BY <2>1 DEF GetPassUSBDesc, InHand
  <2>2. CASE World
    BY <2>2, WorldKeeps DEF InHand
  <2>3. CASE Walk
    BY <2>3 DEF Walk, EndWalk, SkipController, EnumerateHostController, OpenHub, EnumerateHubError,
       LeaveHub, SkipPort, EnumerateExternalHub, SkipExternalHub, EnumerateDevice, NoDeviceInfo,
       Return, Call, InHand
  <2>. QED
    BY <2>1, <2>2, <2>3 DEF Next
<1>. QED
  BY <1>1, <1>2, <1>3, <1>4, <1>5, <1>6, <1>7, <1>8, <1>9

-----------------------------------------------------------------------------
(* The inductive invariant.                                                  *)
WalkInv == /\ Shape /\ CallsOK /\ ListOK /\ WorldOK /\ PortOK /\ ResultOK
           /\ HandlesOK /\ Owned /\ NoDanglingPointer /\ StringsOK /\ Visited

LEMMA InvInit == Init => WalkInv
<1>. SUFFICES ASSUME Init PROVE WalkInv
  OBVIOUS
<1>0. /\ DOMAIN <<>> = {} /\ Len(<<>>) = 0 /\ frames = <<>> /\ pc = "idle" /\ walks = 0
      /\ live = {} /\ keeps = {} /\ handles = {}
  BY DEF Init
<1>1. Shape /\ WorldOK
  BY ShapeInit, WorldInit
<1>2. CallsOK /\ Owned /\ NoDanglingPointer
  <2>1. DOMAIN frames = {} /\ Len(frames) = 0
    BY <1>0
  <2>2. CallsOK
    BY <1>0, <2>1 DEF CallsOK
  <2>3. Owned
    BY <1>0 DEF Owned
  <2>4. pc \notin {"describe", "strings", "fetch", "enumerate"}
    BY <1>0
  <2>5. (\A p \in keeps : p[2] \in live) /\ \A i \in DOMAIN frames : frames[i].given \subseteq live
    BY <1>0, <2>1
  <2>. QED
    BY <2>2, <2>3, <2>4, <2>5 DEF NoDanglingPointer
<1>3. ListOK /\ ResultOK
  <2>1. /\ EnumeratedHCListHead = [c \in Controllers |-> 0]
        /\ GetPassUSBDescSuc = FALSE /\ sendToDeviceDescData = NoNode
    BY DEF Init
  <2>2. \A c \in Controllers : Behind(c)
    BY <1>0 DEF Behind
  <2>3. ListOK
    BY <1>0, <2>1, <2>2 DEF ListOK
  <2>4. ResultOK
    BY <1>0, <2>1 DEF ResultOK
  <2>. QED
    BY <2>3, <2>4
<1>4. PortOK
  BY <1>0 DEF PortOK, InHand
<1>5. HandlesOK
  BY <1>0 DEF HandlesOK
<1>6. Met({}, {}, {})
  <2>1. Cardinality({}) = 0
    BY FS_EmptySet
  <2>. QED
    BY <1>0, <2>1 DEF Init, Met, HubsMet, BlocksMet, NodesMet, NothingMissed
<1>7. StringsOK
  BY <1>0 DEF StringsOK, InHand
<1>. QED
  BY <1>1, <1>2, <1>3, <1>4, <1>5, <1>6, <1>7 DEF WalkInv, Visited

LEMMA InvStep == WalkInv /\ [Next]_vars => WalkInv'
<1>. SUFFICES ASSUME WalkInv, [Next]_vars PROVE WalkInv'
  OBVIOUS
<1>0. /\ Shape /\ CallsOK /\ ListOK /\ WorldOK /\ PortOK /\ ResultOK
      /\ HandlesOK /\ Owned /\ NoDanglingPointer /\ StringsOK
  BY DEF WalkInv
<1>1. PICK S \in SUBSET Hubs, C \in SUBSET Nodes, H \in SUBSET External : Met(S, C, H)
  BY DEF WalkInv, Visited
<1>2. HubsMet(S) /\ BlocksMet(S)
  BY <1>1 DEF Met
<1>3. CASE Next
  <2>1. Shape' /\ CallsOK' /\ ListOK' /\ WorldOK' /\ PortOK'
    BY <1>0, <1>2, <1>3, ShapeStep, CallsStep, ListStep, WorldStep, PortTrueStep
  <2>2. ResultOK' /\ HandlesOK' /\ Owned'
    BY <1>0, <1>3, ResultStep, HandlesStep, OwnedStep
  <2>3. NoDanglingPointer'
    BY <1>0, <1>2, <1>3, PointersStep
  <2>4. Visited'
    BY <1>0, <1>1, <1>3, MetStep
  <2>5. StringsOK'
    BY <1>0, <1>3, StringsStep
  <2>. QED
    BY <2>1, <2>2, <2>3, <2>4, <2>5 DEF WalkInv
<1>4. CASE UNCHANGED vars
  <2>0. UNCHANGED <<node, pc, controller, frames, port, GetPassUSBDescSuc, sendToDeviceDescData,
                    TotalDevicesConnected, TotalHubs, EnumeratedHCListHead, live, keeps, handles,
                    walks, faults, moved, disturbances>>
    BY <1>4 DEF vars, walkVars, result, counters, memory, world, failures
  <2>1. InHand' = InHand /\ Top' = Top /\ Here' = Here /\ NodeAt' = NodeAt
        /\ \A n : /\ Plugged(n)' = Plugged(n) /\ Connected(n)' = Connected(n)
                  /\ Ready(n)' = Ready(n) /\ ConnectionStatus(n)' = ConnectionStatus(n)
        /\ \A h : Reachable(h)' = Reachable(h)
        /\ \A c : Behind(c)' = Behind(c)
    BY <2>0 DEF InHand, Top, Here, NodeAt, Plugged, Connected, Ready, ConnectionStatus, Reachable, Behind
  <2>2. Shape'
    BY <1>0, <2>0, <2>1 DEF Shape, WalkTypes, StackOK, PortType, MemoryType
  <2>3. CallsOK' /\ ListOK' /\ WorldOK' /\ PortOK' /\ ResultOK' /\ HandlesOK'
    BY <1>0, <2>0, <2>1 DEF CallsOK, ListOK, WorldOK, PortOK, ResultOK, HandlesOK
  <2>4. Owned' /\ NoDanglingPointer'
    BY <1>0, <2>0, <2>1 DEF Owned, Smooth, Settled, OnTheWay, NoDanglingPointer
  <2>5. Met(S, C, H)'
    <3>1. \A h, i : (Read(h, i)' <=> Read(h, i)) /\ (Left(h, i)' <=> Left(h, i)) /\ (Kept(h, i)' <=> Kept(h, i))
      BY <2>0, <2>1, PlacesStay
    <3>. QED
      BY <1>1, <2>0, <2>1, <3>1 DEF Met, HubsMet, BlocksMet, NodesMet, NothingMissed, Counted
  <2>6. StringsOK'
    BY <1>0, <2>0, <2>1 DEF StringsOK, StringsAt
  <2>. QED
    BY <2>2, <2>3, <2>4, <2>5, <2>6 DEF WalkInv, Visited
<1>. QED
  BY <1>3, <1>4

(* The walk keeps its state in shape: no controller is put into the list     *)
(* twice in a walk, no hub is entered twice, and no more devices and hubs    *)
(* are counted than the tree has.                                            *)
LEMMA InvGivesTypes == WalkInv => TypeOK
<1>. SUFFICES ASSUME WalkInv PROVE TypeOK
  OBVIOUS
<1>0. /\ WalkTypes /\ StackOK /\ MemoryType /\ ListOK /\ WorldOK /\ ResultOK
  BY DEF WalkInv, Shape
<1>1. PICK S \in SUBSET Hubs, C \in SUBSET Nodes, H \in SUBSET External : Met(S, C, H)
  BY DEF WalkInv, Visited
<1>2. TotalDevicesConnected \in 0 .. Cardinality(Nodes) /\ TotalHubs \in 0 .. Cardinality(External)
  <2>1. TotalDevicesConnected = Cardinality(C) /\ TotalHubs = Cardinality(H)
    BY <1>1 DEF Met, NodesMet
  <2>2. IsFiniteSet(Nodes) /\ IsFiniteSet(External) /\ IsFiniteSet(C) /\ IsFiniteSet(H)
    BY TreeAssumption, RootsAreNoNodes, FS_Subset
  <2>3. Cardinality(C) <= Cardinality(Nodes) /\ Cardinality(H) <= Cardinality(External)
    BY <2>2, FS_Subset
  <2>4. /\ Cardinality(Nodes) \in Nat /\ Cardinality(C) \in Nat
        /\ Cardinality(External) \in Nat /\ Cardinality(H) \in Nat
    BY <2>2, FS_CardinalityType
  <2>. QED
    BY <2>1, <2>3, <2>4
<1>3. \A i \in DOMAIN frames : frames[i].hub \in Hubs /\ frames[i].index \in 0 .. Len(Wiring[frames[i].hub])
  <2>1. ASSUME NEW i \in DOMAIN frames
        PROVE  frames[i].hub \in Hubs /\ frames[i].index \in 0 .. Len(Wiring[frames[i].hub])
    <3>1. frames[i] \in Frame /\ frames[i].index <= Len(Wiring[frames[i].hub])
      BY <1>0 DEF StackOK
    <3>2. frames[i].hub \in Hubs /\ frames[i].index \in Nat
      BY <3>1 DEF Frame
    <3>3. Len(Wiring[frames[i].hub]) \in Nat
      BY <3>2, Ports
    <3>. QED
      BY <3>1, <3>2, <3>3
  <2>. QED
    BY <2>1
<1>4. controller \in 0 .. Cardinality(Controllers) + 1
  BY <1>0, ControllerCount DEF WalkTypes
<1>5. \A c \in Controllers : EnumeratedHCListHead[c] \in 0 .. walks
  BY <1>0 DEF ListOK, WalkTypes
<1>. QED
  BY <1>0, <1>2, <1>3, <1>4, <1>5 DEF TypeOK, WalkTypes, WorldOK, ResultOK, MemoryType

(* What is done when the walk is: every hub a fault-free walk did not come   *)
(* to has moved, was without its driver, or hangs below one that was.        *)
LEMMA AllHubsMet ==
  ASSUME Shape, WorldOK, NEW S \in SUBSET Hubs, NEW C \in SUBSET Nodes, NEW H \in SUBSET External,
         Met(S, C, H),
         pc = "idle", walks > 0, faults = 0, NEW n \in Nodes \ moved, Plugged(n)
  PROVE  HubOf(n) \in S
<1>0. /\ HubsMet(S) /\ NothingMissed(S, C, H) /\ frames = <<>> /\ DOMAIN <<>> = {}
  BY DEF Shape, StackOK, Met
<1>1. Roots \subseteq S
  BY <1>0 DEF NothingMissed, Behind, Roots
<1>2. \A h, i : Read(h, i) /\ Left(h, i)
  BY <1>0 DEF Read, Left
<1>. DEFINE X == {h \in External : h \notin moved /\ Ready(h) /\ h \notin S}
<1>3. ASSUME NEW h \in X PROVE HubOf(h) \in X
  <2>1. h \in Nodes \ moved /\ Plugged(h) /\ Ready(h)
    BY <1>3, RootsAreNoNodes DEF Plugged, Ready
  <2>2. HubOf(h) \in Hubs /\ \E i \in DOMAIN Wiring[HubOf(h)] : Wiring[HubOf(h)][i] = h
    BY <2>1, Hangs
  <2>3. HubOf(h) \notin S
    BY <1>0, <1>2, <1>3, <2>1, <2>2 DEF NothingMissed
  <2>4. HubOf(h) \notin Roots
    BY <1>1, <2>3
  <2>5. Ready(HubOf(h)) /\ HubOf(h) \notin moved
    BY <2>1, <2>4 DEF WorldOK, Reachable
  <2>. QED
    BY <2>2, <2>3, <2>4, <2>5 DEF External
<1>4. X = {}
  <2>1. X \in SUBSET External
    OBVIOUS
  <2>. HIDE DEF X
  <2>. QED
    BY <1>3, <2>1, TreeAssumption
<1>5. HubOf(n) \in Hubs
  BY Hangs
<1>6. CASE HubOf(n) \in Roots
  BY <1>1, <1>6
<1>7. CASE HubOf(n) \notin Roots
  <2>1. Ready(HubOf(n)) /\ HubOf(n) \notin moved /\ HubOf(n) \in External
    BY <1>5, <1>7 DEF WorldOK, Reachable, External
  <2>. QED
    BY <1>4, <2>1
<1>. QED
  BY <1>6, <1>7

LEMMA InvFinds == WalkInv => WalkFinds
<1>. SUFFICES ASSUME WalkInv PROVE WalkFinds
  OBVIOUS
<1>0. Shape /\ WorldOK /\ ResultOK
  BY DEF WalkInv
<1>1. pc = "crashed" =>
        \E n \in Serial3 : /\ n = sendToDeviceDescData
                           /\ faults > 0 \/ n \in moved \cup LongNames \/ node[n] = "new"
  BY <1>0 DEF ResultOK
<1>2. ASSUME pc = "idle", walks > 0
      PROVE  /\ faults = 0 /\ (\E n \in Serial3 \ moved : Ready(n)) => GetPassUSBDescSuc
             /\ GetPassUSBDescSuc => sendToDeviceDescData \in {n \in Serial3 : Ready(n) \/ n \in moved}
             /\ faults = 0 /\ moved = {} =>
                  /\ TotalDevicesConnected = Cardinality({n \in Nodes : Connected(n)})
                  /\ TotalHubs \in Cardinality({n \in External : Connected(n)}) ..
                                   Cardinality({n \in External : Plugged(n)})
  <2>1. PICK S \in SUBSET Hubs, C \in SUBSET Nodes, H \in SUBSET External : Met(S, C, H)
    BY DEF WalkInv, Visited
  <2>2. /\ NothingMissed(S, C, H) /\ NodesMet(S, C, H) /\ frames = <<>> /\ DOMAIN <<>> = {}
    BY <1>0, <1>2, <2>1 DEF Shape, StackOK, Met
  <2>3. \A h, i : Read(h, i) /\ Left(h, i)
    BY <2>2 DEF Read, Left
  <2>4. ASSUME faults = 0, NEW n \in Serial3 \ moved, Ready(n) PROVE GetPassUSBDescSuc
    <3>1. n \in Nodes \ moved /\ Plugged(n)
      BY <2>4, RootsAreNoNodes DEF Plugged, Ready
    <3>2. HubOf(n) \in S /\ \E i \in DOMAIN Wiring[HubOf(n)] : Wiring[HubOf(n)][i] = n
      BY <1>0, <1>2, <2>1, <2>4, <3>1, AllHubsMet, Hangs
    <3>. QED
      BY <1>2, <2>2, <2>3, <2>4, <3>1, <3>2 DEF NothingMissed
  <2>5. ASSUME faults = 0, moved = {}
        PROVE  /\ C = {n \in Nodes : Connected(n)}
               /\ {n \in External : Connected(n)} \in SUBSET H
               /\ H \in SUBSET {n \in External : Plugged(n)}
    <3>1. ASSUME NEW n \in Nodes, Connected(n) PROVE n \in C /\ (n \in External => n \in H)
      <4>1. Plugged(n)
        BY <3>1 DEF Plugged, Connected
      <4>2. HubOf(n) \in S /\ \E i \in DOMAIN Wiring[HubOf(n)] : Wiring[HubOf(n)][i] = n
        BY <1>0, <1>2, <2>1, <2>5, <4>1, AllHubsMet, Hangs
      <4>. QED
        BY <1>2, <2>2, <2>3, <2>5, <3>1, <4>2 DEF NothingMissed, Counted
    <3>2. ASSUME NEW n \in C \cup H PROVE (n \in C => Connected(n)) /\ (n \in H => Plugged(n))
      <4>1. /\ n \in Nodes /\ HubOf(n) \in Hubs
            /\ \E i \in DOMAIN Wiring[HubOf(n)] : Wiring[HubOf(n)][i] = n
        BY <3>2, Hangs, RootsAreNoNodes
      <4>2. HubOf(n) \in S
        BY <2>2, <3>2, <4>1 DEF NodesMet
      <4>. QED
        BY <1>2, <2>2, <2>3, <2>5, <3>2, <4>1, <4>2 DEF NothingMissed, Counted
    <3>. QED
      BY <3>1, <3>2, RootsAreNoNodes
  <2>6. ASSUME faults = 0, moved = {}
        PROVE  /\ TotalDevicesConnected = Cardinality({n \in Nodes : Connected(n)})
               /\ TotalHubs \in Cardinality({n \in External : Connected(n)}) ..
                                Cardinality({n \in External : Plugged(n)})
    <3>. DEFINE L == {n \in External : Connected(n)}
                U == {n \in External : Plugged(n)}
    <3>1. L \in SUBSET H /\ H \in SUBSET U /\ U \in SUBSET External
      BY <2>5, <2>6
    <3>. HIDE DEF L, U
    <3>2. IsFiniteSet(External)
      BY TreeAssumption, RootsAreNoNodes, FS_Subset
    <3>3. IsFiniteSet(L) /\ IsFiniteSet(H) /\ IsFiniteSet(U)
      BY <3>1, <3>2, FS_Subset
    <3>4. Cardinality(L) <= Cardinality(H) /\ Cardinality(H) <= Cardinality(U)
      BY <3>1, <3>3, FS_Subset
    <3>5. Cardinality(L) \in Nat /\ Cardinality(H) \in Nat /\ Cardinality(U) \in Nat
      BY <3>3, FS_CardinalityType
    <3>6. TotalDevicesConnected = Cardinality(C) /\ TotalHubs = Cardinality(H)
      BY <2>2 DEF NodesMet
    <3>7. Cardinality(H) \in Cardinality(L) .. Cardinality(U)
      BY <3>4, <3>5
    <3>. QED
      BY <2>5, <2>6, <3>6, <3>7 DEF L, U
  <2>. QED
    BY <1>0, <1>2, <2>4, <2>6 DEF ResultOK
<1>. QED
  BY <1>1, <1>2 DEF WalkFinds

LEMMA InvLosesNothing == WalkInv => NothingLost
<1>. SUFFICES ASSUME WalkInv PROVE NothingLost
  OBVIOUS
<1>1. HandlesOK /\ Owned
  BY DEF WalkInv
<1>2. pc = "idle" => ~InHand /\ pc # "hub"
  BY DEF InHand
<1>3. ASSUME pc = "idle", faults = 0, moved = {}, 
             \A h \in External : ~Plugged(h) \/ Ready(h), NEW b \in live
      PROVE  b[2] = "info" \/ \E p \in keeps : p[2] = b
  BY <1>1, <1>2, <1>3 DEF Owned, Smooth, Settled, OnTheWay
<1>. QED
  BY <1>1, <1>3 DEF NothingLost, HandlesOK

LEMMA InvListsStrings == WalkInv => StringsComplete
<1>. SUFFICES ASSUME WalkInv, pc \in {"fetch", "enumerate"}, port.strings # <<>> PROVE StringsComplete
  BY DEF StringsComplete
<1>1. PICK n \in Nodes : n = NodeAt /\ StringsAt(n)
  BY DEF WalkInv, StringsOK, InHand
<1>2. Together(n, port.strings)
  BY <1>1 DEF StringsAt
<1>3. ASSUME port.todo = <<>>, faults = 0, n \notin moved, NEW s \in Referred(n) \cap Existing[n]
      PROVE  Whole(n, s, port.strings)
  <2>1. NoneLeftOut(n, port.todo, port.strings) /\ DOMAIN port.todo = {}
    BY <1>1, <1>3, EmptySeq DEF StringsAt
  <2>. QED
    BY <2>1 DEF NoneLeftOut
<1>. QED
  BY <1>1, <1>2, <1>3 DEF StringsComplete, Together, Whole, Referred

(* ----- The theorems ------------------------------------------------------- *)
LEMMA InvHolds == Spec => []WalkInv
<1>. QED
  BY InvInit, InvStep, PTL DEF Spec

(* The counters and the list of controllers stay within the tree, and so     *)
(* does every port the walk looks at, however many requests fail and nodes   *)
(* move.                                                                     *)
THEOREM TypeCorrect == Spec => []TypeOK
BY InvHolds, InvGivesTypes, PTL

(* No pointer of the walk leads to memory it has freed: the error paths of   *)
(* EnumerateHub and EnumerateHubPorts free only what nothing else points to. *)
THEOREM PointersLive == Spec => []NoDanglingPointer
<1>1. WalkInv => NoDanglingPointer
  BY DEF WalkInv
<1>. QED
  BY <1>1, InvHolds, PTL

(* Each hub whose ports are being read has its handle open, and no other;    *)
(* and a walk in which nothing fails and nothing moves leaves no block that  *)
(* is not an information block or pointed to by one.                         *)
THEOREM NothingIsLost == Spec => []NothingLost
BY InvHolds, InvLosesNothing, PTL

(* A walk without failures finds the device to pass on, if one was there     *)
(* ready all the time; what any walk found is such a device that is there or *)
(* was; the counters count what is connected; and a walk that ends the       *)
(* program does it over a device to pass on that was not there ready, or did *)
(* not answer, or has names that are too long.                               *)
THEOREM TheDeviceIsFound == Spec => []WalkFinds
BY InvHolds, InvFinds, PTL

(* The entries of a string stand together in the list of its device, one in  *)
(* each language and in their order; and where nothing failed the list holds *)
(* all the strings that the descriptors of the device refer to.              *)
THEOREM StringsAreListed == Spec => []StringsComplete
BY InvHolds, InvListsStrings, PTL
=============================================================================
