# A TLA+ verification project for PassU

PassU lets one keyboard and mouse drive several machines. A Windows program is
the *server*: its screen is the middle of a 3x3 grid, clients (other Windows
machines, Android devices) are dragged onto the neighbouring cells, and when the
pointer leaves the server's screen over an edge the input goes over TCP to the
client placed there. A USB bus driver is to present devices of the server on a
client machine.

The modules here model the program's own control logic: the Windows server, the
Windows client with the bus driver below it, the driver's child device, the Android
client, and the walk over the USB tree by which the server finds the device it passes
on. TLC checks them on small instances; TLAPS proves the theorems of the seven
`*_proofs` modules for every value of the constants.

## Inventory

| Component | State | Operations | Interacts with |
|---|---|---|---|
| Hook DLL (`ServerHook.cpp`) | `btn_Bind`, `whereisPoint`, `BLOCK`, hook handles | install/uninstall, window messages, low-level keyboard and mouse hook procedures | sends `WM_COPYDATA` and `WM_ARRIVED_SCREEN_EDGE` to the dialog, receives `WM_BINDED_CLIENT`, `WM_CHILDCLOSE`, `WM_INPUTDEVICE_TRUE` |
| Server tab (`Server.cpp`) | `clientInfo[9]`, `btn_Bind`, `client_nWidth/nHeight`, list control, drag state | hello, bye, begin drag, drop, unbind | dialog's socket list, hook DLL |
| Dialog (`PassUDlg.cpp`) | `m_pServer`, `m_pSockList`, `whereisPoint`, `m_allowSend`, cursor, timer | accept, receive, close, start, stop, forward input, edge crossing, timer | everything on Windows |
| Windows client (`Client.cpp`, client half of `PassUDlg.cpp`) | `m_pClient`, `m_connectFlag`, tabs and buttons, cursor, timer | apply, start, receive and inject, stop, cancel, close, exit; add and remove the server's device | the server, over TCP; parent device, with IOCTLs |
| Packet codec (`Parse*Data`, `byteToint`, `sprintf_s`; `Packet.java`, `PacketReceiver.java`) | receive buffer | format, parse, frame | both ends of a connection |
| Android client (`PassD`, `PassDService`, `PassDSocket`, `PacketReceiver`) | activity and its binding, service state, socket, receiver threads, overlay | bind, connect, receive, interrupt, the activity's and service's life cycle | the server; Android: `bindService`, broadcasts |
| USB bus driver, child device (`Driver.c`) | two pipe lists, loopback buffer and its fill, two timers, `Removed` | submit, abort and cancel requests, timer DPCs, work items, removal | Windows I/O manager, parent device |
| USB bus driver, parent device (`Driver.c`) | `HasChild`, `ChildDeviceObject`, received descriptors | PnP, three IOCTLs (add, remove, insert data) | Windows I/O manager, child device, server tab |
| USB enumeration (`Server.cpp` from 697) | stack of hubs, blocks of memory and handles, counters, `GetPassUSBDescSuc` | `GetPassUSBDesc` and what it calls | the operating system's USB stack; server tab and dialog start it on a device change |
| Copies of the enumeration (`src/total`, `extractDescriptor`, `adddevice`) | - | print descriptors, exercise the driver | the operating system |

What is hard about them: the Windows program runs on one thread, but its handlers
interleave freely - callbacks of several connections, gestures with two halves,
modal message boxes that let other events through, a timer, and hook procedures -
and share state that is kept twice (bindings and pointer cell live in the dialog
and in the DLL). Exceptions of the collection classes end a handler half way. The
server half and the client half of one program are kept apart by buttons only. On
Android the main thread, a task and a receiver per connection write the same fields;
in the driver two timer DPCs, cancel routines and removal do, and an IOCTL meets the PnP
manager. The enumeration asks for one thing after the other about devices that may be
gone by then, with an error path at every request.

What makes them correct: an id belongs to one client and the client knows it;
input acts on exactly one machine, and its owner can always get it back; the two
copies of the bindings and of the pointer's cell agree; what is offered, placed or
forwarded to is a client that is connected; the cursor shows where input goes. Server and client
mode are never both active. A device of the server is presented while the
client is connected, as what it is, and taken back afterwards. Each
USB request is completed exactly once, what is written to a pipe is read from the other,
once and in order, and the fill of the buffer stays within it. The Android client has one
connection, knows whether it has one, and notices when it is lost. The walk over the USB tree
finds the device if it is there, follows no pointer to freed memory, and ends.

`PROJECT.json` lists the hazards one by one, each at the line where it bites.

## Modules

| Module | Models |
|---|---|
| `ServerHook` | the hook DLL: one operator per window message and per kind of edge crossing. They are parts of steps, because the DLL is only entered from the dialog's thread |
| `PassUServer` | the server: dialog, server tab and DLL together, one action per handler; extends `ServerHook` |
| `InputFocus` | abstract: who is connected and which machine the input acts on |
| `OrderlyUse` | `PassUServer` with the steps of clients and user restricted to a use in which everything the server promises holds; implements `InputFocus` |
| `MCPassUServer` | values of the constants for TLC, symmetry |
| `PassUServer_proofs`, `OrderlyUse_proofs` | theorems about both |
| `ChildDevice` | the child device: lists, two DPCs in single steps, loopback buffer, cancel, abort, removal |
| `BytePipe` | abstract: a bounded first-in first-out pipe |
| `QuietDevice` | `ChildDevice` with cancels and the removal restricted to requests nobody has in hand; implements `BytePipe` |
| `MCChildDevice` | symmetry for TLC |
| `ChildDevice_proofs`, `QuietDevice_proofs` | theorems about both |
| `BusDevice` | the parent device: `HasChild`, the child object and its life, the IOCTLs in their steps, and the PnP manager |
| `PassUClient` | the program as a client: tabs, buttons, socket, cursor, the messages of a server; extends `BusDevice` |
| `OrderlyClient` | `PassUClient` restricted to a use in which the server's device is presented as it should be |
| `MCPassUClient` | symmetry for TLC |
| `PassUClient_proofs` | theorems about both |
| `PassDClient` | the Android client: activity, service, connect tasks, receivers, broadcasts |
| `SteadyActivity` | `PassDClient` whose activity is not opened again while a connect is under way |
| `MCPassDClient` | instance for TLC |
| `PassDClient_proofs` | theorems about both |
| `UsbEnumeration` | the walk of `GetPassUSBDesc` over controllers, hubs, ports, descriptors and strings |
| `MCUsbEnumeration` | a tree of two controllers for TLC |
| `UsbEnumeration_proofs` | theorems |
| `SequenceLemmas` | lemmas about the library's sequence operators that the proofs of the server and of the device use |

`PassUServer` extends `ServerHook` and `PassUClient` extends `BusDevice`: dialog and DLL, client
and driver are composed step by step. The server at the other end of `PassUClient` and of
`PassDClient` is reduced to what it sends. `BusDevice` sees of a child only its life, of which
`ChildDevice` is the inside.

### The server: how the model corresponds to the code

*Steps.* The dialog, its sockets (`CSocket` notifications), the list control and
both low-level hooks run on one thread; `SendMessage` to a window of the same
thread is a call. So a handler and everything it calls is one step. Two handlers are
not one step: `OnButtonClick` opens a question (`asking`) and `OnCopyData` opens a box
for an unknown status (`refused`), and while a box is open the thread keeps
dispatching. `refused` is a stack, since boxes nest and the outer handler goes on only
after the inner one.

*Exceptions.* `CObList::GetAt` and `GetNext` throw on a NULL position; the framework
catches the exception around the window procedure. A search that fails therefore
ends the handler, with what was done before it still done: `HelloThrows`,
`HelloNoSlot`, `CrossToClient`, `ForwardTarget`.

*Undefined values.* `CPassUChildSocket` does not initialise `c_id`: the initial state
chooses it from `UninitIds`. `CursorFlag` is not initialised either.
A drop whose item is gone computes the id `'\0' - '0'`, -48 (`NoItemId`); the write
to `clientInfo[-49]` that goes with it hits the dialog's own controls and is not modelled.
The ninth client's sizes are stored past the arrays and the height overwrites
`dllWnd`: with `dllWnd = FALSE` messages to the DLL are lost.

*Slots.* `clientInfo` has nine entries; the model's `NSlots` lets TLC fill the table.
Slot `i` (index `i - 1` of the array) holds id `i` or 0, so the set `registered` is the
table. An item of the list control is the id its text begins with. The text also holds
the address of the client, by which `CloseChild` finds it; the model finds it by the
id alone, which differs only for items left behind by a refused hello.

*The user.* While `BLOCK` is set the hook procedures swallow button and key
messages, so nobody can click the dialog's controls (`UserCanAct`). Keys pressed with
Alt arrive as other messages and pass: a message box can still be answered.

*Peers.* A client sends one hello, with status PC or MOBILE, and perhaps a bye;
other statuses are checked as well. `told` is the id in the last answer a peer got.

*Not modelled here:* USB (Server.cpp 533-603, see `PassUClient`, and from 697, see `UsbEnumeration`), the picture shown
while dragging, tray and window management, the end of the application, coordinates
of moves, the moves that a second pair of hooks forwards once more (the number of pairs is
modelled, see `HooksInstalledOnce`). The client mode of the dialog is in `PassUClient`.

### The child device: how the model corresponds to the code

*Steps.* The cancel spin lock guards the lists only, so what happens between acquiring
and releasing it is one step, and each access of a DPC to the buffer or to
`SizeofHolding` is one: `Compare` and `Measure` (the two operands of the `?:`, lines 1336
and 1356; the compiled code may read the fill twice), `Copy`, `Load` and `Store` (the two halves of
`-=` and `+=`), `MoveDown`, `Served`. The stage a DPC has reached is `at[p]`. A DPC runs
to its end before another one on its processor: `SharedProcessor` says whether both
timers were set on one processor.

*Requests.* Only what the pipes tell apart is kept: pipe, length and state. An invalid
transfer (no buffer, two buffers, no length) is one of length 0. Units of data are `<<w, k>>`,
the k-th unit of write `w`, so that the order of what is read can be stated. A request is
`checked` between the test of `Removed` and the list; nothing orders that against the
removal. The same holds for a call of AbortPipe.

*Cancel.* `IoCancelIrp` acts on requests with a cancel routine. The driver does not take the
routine away when a DPC, AbortPipe or the removal takes the request from its list, so
the routine unlinks an entry that is in no list: its stale neighbours are linked to each
other, which empties the list, leaves it alone, or (a neighbour that is gone itself)
corrupts it. The request is then completed twice.

*The end.* `halted` stands for the stop of the system on a second completion of a
request or a use of freed memory. The device's extension is taken to outlive
`IoDeleteDevice`, as it does while somebody holds a reference; the buffer and the
descriptors are freed by the driver itself. DPCs queued when the timers are cancelled still run (`late`).

### The Windows client and the bus driver: how the model corresponds to the code

*Steps.* A handler of the dialog is one step, as in the server. It calls the driver and waits
for the IOCTL, so while one is under way the dialog does nothing (`Ready`); the PnP manager's
threads go on. `IOCTL_BUSDRIVER_ADDDEVICE` is three steps because it writes the flag, the
object and the rest one after the other with no lock: `InsertAndAdd`, `CreateObject`,
`CreateChild`.

*The PnP manager* asks for the children when it was told to (`QueryRelations`), or because
somebody scans for hardware changes (`Rescan`); asks each for its identity (`QueryId`); sends the
removal to one that is no longer reported (`RemoveGone`), or that is disabled (`Disable`). An object
that nobody refers to any more can stand for a new one (`Free`), so that `Children` bounds the
objects at a time and not their number.

*One half at a time.* `m_SorC` says which tab is shown, `tabs` which can be chosen. `m_pClient` tells apart a socket that was
never made, could not connect, is connected, or was deleted (`CloseClient` leaves the pointer).

*The wire.* The server's messages travel in a byte stream. `ReceiveClientData(n)` reads what `n` of them
occupy and handles the first, as the code does (PassUDlg.cpp:756). A message of type data is
taken to arrive whole, although it may be larger than the 4096 bytes of the buffer.

*The server* answers the hello with an id and the device, if there is one (`PeerAnswers`), sends
input, and tells of arrivals and removals (`Plug`, `Unplug`) but does not say of which device:
`OtherArrives` and `OtherLeaves` send the same. While its other tab is shown, or when its walk
does not find the device, it says nothing (`Unseen`).

*Assumed:* the bus driver is installed and can be opened; Windows has 32 bits (`IsWow64`), as the client
adds no device otherwise. `USE_USB` is a constant; stdafx.h sets it to FALSE, and with FALSE
none of this reaches the driver.

*Found on the way, without a property:* the cursor that is hidden when the client connects
(PassUDlg.cpp:741) is given back by the timer and by moves, and by neither Stop nor CloseClient; CloseClient deletes a
socket that the end of the program uses again (891-895), and leaves the server's tab disabled;
the batch file is awaited without limit (Client.cpp:278); before a client has an id its device
messages go by index 0 (Server.cpp:545, 561).

### The Android client: how the model corresponds to the code

*Threads.* The main thread runs the activity, the answer to `bindService` and the broadcasts; connect
tasks run one after the other on a thread of `AsyncTask`; each connection has a `PacketReceiver`.
`connect` and the end of `onInterrupt` exclude each other (`synchronized`): `Connect` to
`OnServerConnected` hold the lock, and so does `CloseSocket`, which waits while they do.
What follows runs without a lock, and each write and each call that may throw is a step of its thread: the rest of
the task (`TaskReturns`, `MarkConnecting`, `SendConnected`), the receiver's callback with the `onDestroy` it
calls (`LoseServer`, `HideCursor`, `SendInterrupted`, `OnDestroy`, `HideCursor` again, `RemoveView`), and the main thread's
making and showing of the overlay (`OnConnected`, `CreateView`, `AddView`). `isConnected` reads the socket twice
without the lock (`SocketVanishes`). The order of two threads' writes that meet is one that the interleaving of these
steps has; what the memory model of Java allows beyond it is not modelled.

*The state.* `onServerConnected` writes CONNECTED and the task then writes CONNECTING over it (PassDService.java:218, 73), so
that a connection that stands is reported CONNECTING; and a loss between the task's test and its write leaves
CONNECTING without a connection. What is left to rely on is that a connection that stands is not reported IDLE
(`StandingNotIdle`), and this only because Java's `isConnected` stays true after the server has closed: otherwise
the next task could begin while a receiver of the last has its IDLE still to write.

*The end of the process.* An exception nobody catches ends it, and a new one begins with a service
and no activity (`ProcessDies`): a mouse packet without an overlay or service (`MouseWithoutView`), a
key that is in no table (`UnknownKey`), a loss before the overlay is there (`HideCursor`), the overlay asked of a
service that is gone (`OnConnected`), or removed while it is made (`AddView`) or before it is shown (`RemoveView`).

*Sockets.* Java's `isConnected` stays true when a socket is closed: `conn` is not "unconnected" then.
`m_Service` is null after a loss although the service lives on, since `onDestroy` is called like any
method.

### The enumeration: how the model corresponds to the code

*The walk* is a stack of hubs (`frames`) with the port at hand (`port`); a step is what the code
does between two requests to the operating system that matter. Each request may fail (`Fault`), memory may be short,
and between any two steps nodes are plugged in, found out about, fail, are pulled out with what hangs below, or become
ready (`World`). What a request answers follows from the node's state at that time: `absent`; `other`, plugged in and
enumerating, reset or failed (the statuses 2 to 10 of Server.cpp:48-61, which the walk does not
tell apart); `new`, connected and without a driver; or `ready`. `status` is what the port answered, once: a device counts if
it is connected (2310), a hub whenever it says it is one (2315), the driver key is asked of all that is plugged in (2322) and
the configuration of what is connected (2344).

*Memory.* A block is where it belongs and its kind; `live` holds what is allocated, `keeps` which information
block points to which block, `handles` the open hubs. Several pointers that one request
fills are set together. Information blocks are never freed by the program, and the statement that would store them in the
TreeView is commented out (1965-1976): all that a walk allocates is lost in the end, and `NothingLost` asks only, taking
information blocks as reached, that no error path loses more.

*Descriptors* are kept as their kind, whether their length is right, and the string they refer to. Strings are
pairs of index and language. A descriptor that refers to no string has 0, and the list of strings begins with entry 0, the
languages, so that nothing is asked for it. `LongNames` are the devices with a description, service or class that
is too long for the 40 or 20 characters it is copied to (uvcview.h:191-195): `strcpy_s` then ends the program. A list is searched by the index alone: a string that is there in one
language is not asked for again. `StringsComplete` therefore says that the entries of a string stand together, the l-th in
the l-th language, and that nothing is missing once all was asked for and nothing failed.

*The bus* is a tree (`TreeAssumption`), as USB has it: each controller has its own root hub, a node hangs
at one port of one hub, and following the hubs upwards one comes to a root. The code relies on it: it has no guard against coming to a hub twice.

*Divergence.* The comment at Server.cpp:850 says that a controller that is in the list already is not enumerated again;
the loop (852-862) looks at each entry and does nothing, so that the list grows with every walk
(`Call`).

## Runs

`Spec` lets clients and user do anything. `OrderlySpec`, `QuietSpec` and `SteadySpec` restrict
them as the heads of their modules list; every restriction is needed for a property of
the run, and none removes a step of a handler. `NumberedSpec` leaves out one step: the departure of a
connection that was never given an id and whose uninitialised `c_id` is a client's (`LeavesWithStaleId`), which
frees that client's slot. `AssignedIdsUnique` fails with it; `WaitingMatchesTable` does not.

| Run | Instance | Shows |
|---|---|---|
| `server_ids` | 4 connections, 3 slots, stale and foreign ids, symmetry; all but the departure of a connection with a stale id | `AssignedIdsUnique`, `WaitingMatchesTable` in any order of hellos, departures and stops |
| `server_full` | 3 connections, 2 slots, one drop target, stale and foreign ids, one unknown status, symmetry | `TypeOK`, `InputGoesToOneMachine`, `CursorMatchesRouting` with every action firing: full table, lost `dllWnd`, refused hellos |
| `server_orderly` | 3 connections, 3 slots, two drop targets that face each other | `HelloReachesItsSender`, `HookMirrorsDialog`, `BindingsNameClients`, `WithheldInputIsForwarded`, `CanReturn`, the refinement `KeepsFocus`, and `AnimationEnds` |
| `server_hello_order` | 2 connections | violation of `ClientKnowsItsId` |
| `server_withheld` | 2 connections | violation of `WithheldInputIsForwarded` |
| `server_hooks` | 2 connections | violation of `HooksInstalledOnce` |
| `device_race` | 2 reads, 1 write, 1 request for the work item, lengths 0 and 4, buffer of 3, two processors, symmetry | `TypeOK`, `HoldingInBounds`, `NoOvertaking` with every step firing: invalid transfers, cancels at any point, aborts, removal, `halted` |
| `device_quiet` | 2 reads, 2 writes of length 2 or invalid, buffer of 3, one processor | `CompletedOnce`, the refinement `LoopsBack`, `WritesComplete`, `ReadsServed` |
| `client_full` | 2 objects, 1 device, three kinds of input, 2 messages under way, symmetry | `TypeOK`, `OneMode`, `StopMatchesMode`, `CursorRestorable` with every step of client, driver, PnP manager and server firing |
| `client_orderly` | 2 objects, 2 devices, no input, 3 messages under way | `DeviceWhileConnected`, `TreeFollows`, `IdentityFits`, and `DevicePassed`, `DeviceLeaves` |
| `android` | 3 sockets, 2 tasks, 2 broadcasts | `TypeOK`, `OneConnection`, `StandingNotIdle`, `ViewHasService`, `ClosesItsOwn`, `LossNoticed` |
| `enumeration` | 2 controllers, an external hub, 2 devices, 2 walks, 2 disturbances | `TypeOK`, `NoDanglingPointer`, `NothingLost`, `WalkFinds`, `StringsComplete`, `WalkEnds` |

`QuietSpec` is the device without two uses that break it: cancelling a request that is in
somebody's hands, and removing a device that is at work. The head of `QuietDevice.tla` says what
goes wrong otherwise. `SharedProcessor` is TRUE in `device_quiet` because data is lost or
repeated when two processors update the fill at once. None of this is needed for the fill's bounds.

`OrderlyClient` leaves out, of what `PassUClient` allows, the following; TLC shows what fails when one
of them is allowed again:

| Allowed again | Fails |
|---|---|
| a read of several messages | `IdentityFits`, `DevicePassed`, `DeviceLeaves` |
| a device added before the PnP manager is done with the last | `TreeFollows`, `IdentityFits`, `DevicePassed` |
| `Rescan` | `TreeFollows`, `IdentityFits`, `DevicePassed` |
| `Disable` | `TreeFollows`, `DevicePassed` |
| `OtherLeaves` | `DevicePassed` |
| `Unseen` | `IdentityFits`, `DevicePassed`, `DeviceLeaves` |
| `Exit` while connected | `DeviceWhileConnected`, `IdentityFits`, `DevicePassed`, `DeviceLeaves` |

The other properties of the client hold without restriction. `SteadyActivity` leaves out one thing:
an activity that is opened again while a connect is under way. It finds no connection yet and
queues a second connect, which replaces the first connection's socket; the loss of the first then closes
the second. `OneConnection` fails then, and `ClosesItsOwn`.

*Bounds.* A connection is used once (`new` ... `closed`), so `Sockets` bounds the length
of a history; nothing else is capped. Three connections are enough for a departure in
the middle and a newcomer behind it, four for a hello whose list position runs off the end
(`HelloThrows`). Two slots make the table overflow with three connections; three
leave, under orderly use, two that do not touch the last slot. Drop targets 3 and 5 are the left and right
neighbours, whose facing edges coincide; a corner or the centre (never crossed) adds nothing
but states. Deadlock is not checked: when all connections are closed, the server
stopped and nothing is animated, the program waits for a user who may not come back.

A request is used once. Two per pipe are enough for one to be overtaken, put back,
or cancelled behind another. With writes of 2 and a buffer of 3, the first write fits, the
second fits in part, and what it leaves no room for fails; a read takes part of what is
held. With a length of 4 (`device_race`) one transfer exceeds the buffer. Nothing else is capped. A device all of whose requests are done, or which is removed,
stops: deadlock is not checked.

For the client, two objects are a child and its successor beside it, and with `Free` they can follow each other without end;
two devices can be told apart, and a third adds nothing that a change of one for the other does not; three messages
under way are a removal, an arrival and one that is read with or after them. Input touches the cursor only, so
that it is left out of the orderly run (`Inputs`). `MaxWire` bounds what a server can send before the
client reads.

For Android, three sockets are the one in use, one that is being closed, and one more; `MaxTasks` and `MaxSent`
bound the queues, and a step that would exceed them waits.

For the enumeration, the tree has every shape of a port: empty, a device, a hub with a device below it; both devices are to
be passed on, one below the hub and one at a root beside the empty port. The strings of the first are repeated, missing, in two
languages, asked for one by one (video), and behind a malformed descriptor; the second has names too long and a
descriptor of length 0, so that the program ends over it or never gets past it. A device that is not to be passed on differs
from these only in that nothing is copied. Two
walks show what one leaves to the next. `MaxDisturbances` bounds failures and changes of nodes together; two are enough for
a node to come or go between two requests about it while one of them fails. Walks and disturbances
are used up at the end, and the program may have crashed: deadlock is not checked, nor for the client and
Android, which wait for a user.

*Symmetry* is used where no liveness property is checked; connections differ only by name.

*Fairness.* `TimerFairness` says that time passes and that a timer that is set
fires: `SetTimer(1, 1, NULL)` keeps posting `WM_TIMER` until `KillTimer`, and the
dialog's message loop dispatches it. Nothing is assumed of clients or user.
`Scheduling` of the device says that DPCs and threads that have begun go on (weak fairness), and
that a DPC gets its turn although the other pipe's runs on the same processor: the timers
are periodic (`KeSetTimerEx` with a period) and a processor's DPCs are queued first-in first-out
(strong fairness of `Dequeue`). Nobody is assumed to submit, cancel, abort or remove.
`Progress` of `OrderlyClient` says that an IOCTL that has begun goes on, that the PnP manager does
what it was told to, and that both programs handle a message that has arrived: they dispatch
socket notifications in their message loops. `DevicePassed` and `DeviceLeaves` speak of a device that
stays in or out of its port. `Scheduling` of `PassDClient` says that threads that can run do, that a
read on a closed connection fails, and that broadcasts are delivered; nothing is assumed of user, server and
system. `UsbEnumeration` assumes that the walk's thread goes on.

### What the violations mean

- *Ids.* The hello handler walks the socket list once per slot in use. The k-th
  socket gets slot k, whichever socket said hello. As long as connections say hello in the
  order they were accepted and leave last-in first-out this is the sender
  (`HelloReachesItsSender`); otherwise a client is never told its id, or another one is
  renumbered. Uniqueness survives all this (`AssignedIdsUnique`, proved), as long as no connection leaves with a
  client's id before it is given one of its own.
- *Bindings.* They are stored twice, and `Stop`, a drop after the client has left, and a
  second placement of one client update one copy or neither. Then an edge exists that
  leads nowhere: the hook withholds the input and nobody gets it.
- *Hooks.* They are never removed, and installed again whenever a hello finds a list of one. While input goes to a client,
  the newest pair swallows keys, buttons and the wheel (`return TRUE`), and moves reach the older pair too, so that they
  are forwarded twice; the handles of the older pair are lost.

Two more divergences have no run, being plain from the code: the bye handler (Server.cpp:522-531) does
nothing of what the comment above it says, and the close of the socket does it later; the list of controllers (above).

## Proofs

`PassUServer_proofs.tla` proves for any set of connections, one to nine slots, and any
drop targets, uninitialised ids and statuses (`ServerAssumption`):

- `TypeCorrect`: `Spec => []TypeOK`. The lemma `TypeStep` goes through the actions; the
  sequence operators' types come from `RemoveAtElements`, `RemoveFirstElements`,
  `AppendElements`.
- `InputSafe`, `CursorSafe`: `InputGoesToOneMachine` and `CursorMatchesRouting`. Neither is
  inductive alone: `Bye` would remove the hooks if the list were empty, so the invariant
  adds `SockListOK`, the list holds every open connection exactly once. Then a packet's
  socket is in the list and the branch that removes the hooks is dead.
- `IdsSafe`, `WaitingSafe`: `NumberedSpec => []AssignedIdsUnique` and `Spec => []WaitingMatchesTable`, assuming
  `OrdinaryClients`: statuses are PC or MOBILE. No message box then holds a slot (`NoBox`). Nothing is assumed of what
  fresh memory holds. `IdsOK` adds that a connection not yet accepted was told no id. `FirstFree` is free by
  `FirstFreeIsFree`, a consequence of the well-foundedness of `<` on the naturals. That the list control offers nobody
  twice follows from what a removal does to a sequence (`RemoveFirstMovesUp`). The assumption on statuses is needed: a third
  opens a box in the middle of the handler, and closing it may free the slot of a client that came meanwhile.

`OrderlyUse_proofs.tla` proves, under `ServerAssumption` alone, of the server in orderly use:

- `HelloIsForItsSender`, `HookIsAMirror`, `BindingsAreLive`, `WithheldInputArrives`, `NeverLockedOut`:
  `HelloReachesItsSender`, `HookMirrorsDialog`, `BindingsNameClients`, `WithheldInputIsForwarded`, `CanReturn`. All
  rest on one invariant, `OrderlyInv`: `TypeOK` and `SockListOK` of the server (a step of
  orderly use is one of the server); the clients are numbered by their places in the list of sockets (`Numbered`),
  which is what makes a position computed from an id the client's own; the list control offers a client once
  (`Offered`); a client is on one button (`Seated`); and dialog and DLL agree on bindings, on the
  pointer's cell, and on when input is withheld (`Agreed`).
- `FocusIsKept`: `OrderlySpec => KeepsFocus`, the refinement of `InputFocus`. A handler maps to one step of it or to
  a stutter: each action is shown to leave the machine the input acts on (`InputStays`), or to move it as
  `InputFocus` allows.

`ChildDevice_proofs.tla` proves for any requests, lengths and buffer, and with the DPCs on one or
several processors (`DeviceAssumption`):

- `TypeCorrect`: `Spec => []TypeOK`, among it that a list holds requests of its own pipe
  and that a DPC has a request exactly while it runs.
- `FillSafe`: `HoldingInBounds`, although nothing guards the fill. The invariant `FillOK` adds
  what each DPC knows: only the write DPC adds to the fill and only the read DPC takes from
  it, so while a read is under way the fill is at least what the read has seen (`ReadKnows`),
  and while a write is under way the room is at least what the write has seen (`WriteKnows`). A value that is stored late is
  stale in the harmless direction only. So a read copies what is held and a write what fits. Nothing is said of the
  move after a read (Driver.c:1348), whose source is computed from the fill anew: under the race it can end behind the buffer.
- `InOrder`: `Spec => NoOvertaking`, an action property. The invariant `LineInv` says that a request is in line at most once, and
  only after it was submitted; a step leaves part of the line in its order (`Kept`), or puts a request at its end that was
  in no line before (`Joined`). It holds with every race of cancel, abort and removal.

`QuietDevice_proofs.tla` proves of the device in quiet use:

- `HandedOnOnce`: `CompletedOnce`, on any processors. A request is pending exactly while it is in one
  place - a list, a DPC, an abort, the removal - and in no two (`Placed`), no list holds it twice (`NoCopies`), and the removal
  found nothing under way (`RemovalOK`).
- `ImplementsPipe`: `QuietSpec => LoopsBack`, the refinement of `BytePipe`, if `SharedProcessor`. One DPC is at work at a
  time (`Alone`), so what it has read of the fill is still the fill and what a write copied lies behind what is held
  (`Current`), and a write has data in the pipe only if it is completed or about to be (`ShownOnce`). The assumption is
  needed: two processors that update the fill at once lose or repeat data.

`PassUClient_proofs.tla` proves for any objects, devices, kinds of input and messages under way
(`BusAssumption`, `ClientAssumption`), of the unrestricted client:

- `TypeCorrect`: `Spec => []TypeOK`, with the bound on the messages.
- `RunsOneHalf`, `StopIsForTheHalfShown`: `OneMode` and `StopMatchesMode`. The invariant `Modes`
  adds which buttons of the client's tab are enabled when and that the client's tab cannot be chosen while the
  server runs: without it a handler could offer Start from a state that no order of handlers reaches.
- `CursorComesBack`: `CursorRestorable` is inductive by itself.

and of the orderly client (`OrderlyIsAClient`: its steps are steps of the client):

- `NoDeviceWithoutConnection`, from `Presented`: a device is with the driver, and messages are under way, only
  while the client is connected to a server that knows it.
- `TreeIsRight`, from `Tree`: while an IOCTL is under way the PnP manager is at rest and knows no child, and whenever
  its picture is valid it knows what the driver reports. That the manager is at rest is part of orderly use: nothing is
  shown of one that asks between the writes of flag, object and child.
- `IdentityIsRight`, from `Alternate` and `Described`. Between two different devices in the messages under way there is a
  removal, and so between the device the driver has and the first other one (`Alternate`); while there is a child
  the description inserted last is therefore the child's own (`SameDescription`).

`PassDClient_proofs.tla` proves for any sockets and bounds (`AndroidAssumption`):

- `TypeCorrect`: `Spec => []TypeOK`, of the unrestricted client.
- `NeverTwoConnections`, `StandingIsReported`, `ViewIsServed`, `ReceiverClosesItsOwn`, of the steady one. The invariant is
  `OneTask`, there is at most one connect task, and none once there is a connection the activity could see; `OneSocket`, a
  connection is the service's socket and has a receiver; `OneView`, the overlay, or the broadcast or the step of the main thread
  that will put it up, belongs to a connection that stands; `Reports`, the state. They hold only together: that the main
  thread and the callback do not meet over the overlay follows from the end of the process where they would.

`UsbEnumeration_proofs.tla` proves for any tree, controllers, descriptors and number of walks, and with any failures and changes
of the nodes (`EnumerationAssumption`, `TreeAssumption`):

- `TypeCorrect`: `Spec => []TypeOK`.
- `PointersLive`: `NoDanglingPointer`. A pointer that is kept leads to a block that is allocated whatever failed or was
  pulled out. A request for a port writes and frees blocks of that port, so the walk must not come to a port
  twice: the invariant has to say where it has been.
- `NothingIsLost`: `NothingLost`. As long as nothing fails, a block is pointed to, or it is on its way: held for the port at
  hand, or given to the hub just called (`Owned`). The handles that are open are those of the hubs under way (`HandlesOK`).
- `TheDeviceIsFound`: `WalkFinds`.
- `StringsAreListed`: `StringsComplete`, from `StringsOK`: the entries of a string stand together; as long as nothing fails
  each string listed is there in every language (`NonePartly`), and each one referred to is listed or still to be asked for
  (`NoneLeftOut`); what is tried one by one comes last, so that giving up on it gives up nothing else (`ProbesLast`).

The invariant `WalkInv` has one part for each piece of state (the stack, the list of controllers, the nodes, the port at
hand, the result, handles, blocks, strings) and `Visited`: there are a set of hubs the walk has come to, and sets of the connected nodes and of the hubs it
has counted, such that the ports below and the blocks kept are those of hubs it has come to, up to the port at hand
(`HubsMet`, `BlocksMet`), the counters are the sizes of the sets (`NodesMet`), and, if nothing failed, nothing behind the walk that
stayed in place is missing from them (`NothingMissed`). The sets are not variables of the model: the code has only the stack
and two counters, and `WalkFinds` says of a device at any depth that it was passed. Where a step
descends or counts, the proof names the sets of the next state. That the bus is a tree is used where the walk
comes to a hub: it is then not in the set yet.

Every safety property, action property and refinement of the runs that pass is a theorem; TLC found each of them to hold on a
small instance before it was proved. Only model-checked is liveness (`AnimationEnds`,
`WritesComplete`, `ReadsServed`, `DevicePassed`, `DeviceLeaves`, `LossNoticed`, `WalkEnds`): it rests on fairness, that is on
`ENABLED`, which the prover does not handle. The violations are counterexamples of TLC.

## Plan

1. `PacketFraming`: the receive loop of Android over short and coalesced reads against a reference
   that cuts the stream.
2. The server's USB messages to several clients, composed with `PassUServer`.

## Not modelled

- The packet codec: fields of fixed width, written and parsed one by one, without state. What a packet does is
  part of its receiver's model. The Android receiver's offset is not.
- `PassDSocket.disconnect`, which nobody calls, and the state of the shift and control keys on Android.
- The parent device's own removal, power and capability requests, and the contents of descriptors.
- `src/total`, `extractDescriptor`: older copies of the enumeration in dialogs of their own. `adddevice`: a
  command line for the driver's IOCTLs.
- `vndrlist.h` (twice 8930 lines) and `uvcdesc.h`: tables of names and structures, data without behaviour. They are
  half of the repository's lines.
- Picture (`PictureEx`, third party), splash and tray code, settings and key maps: presentation or tables.
- `Queue.c` and `Device.c`: templates outside the driver's build.
