---------------------------- MODULE PassDClient ----------------------------
(***************************************************************************)
(* The Android client: the activity PassD, the service PassDService, which *)
(* outlives it, the service's PassDSocket, and the overlay that draws the  *)
(* cursor.                                                                 *)
(*                                                                         *)
(* Four kinds of threads meet here: the main thread (the activity, the     *)
(* answer to bindService, broadcasts), the thread of the connect tasks,    *)
(* which run one after the other, a PacketReceiver per connection, and the *)
(* server.  connect and the end of onInterrupt are synchronized on the     *)
(* PassDSocket; isConnected and the service's callbacks are not, and each  *)
(* write of mState, AR.m_Service and mMouseView is a step of its thread.   *)
(*                                                                         *)
(* An exception nobody catches ends the process; the system starts it      *)
(* again, and the service with it, which is sticky.  PassDSocket.disconnect*)
(* is called by nobody and is left out.                                    *)
(***************************************************************************)
EXTENDS Naturals, Sequences

CONSTANTS
  Sockets,   (* Socket objects in use at a time                             *)
  NoSocket,
  MaxTasks,  (* bound on connect tasks that wait                            *)
  MaxSent    (* bound on broadcasts that are not delivered                  *)

ASSUME AndroidAssumption ==
  NoSocket \notin Sockets /\ MaxTasks \in Nat /\ MaxSent \in Nat

VARIABLES
  activity,    (* none, resumed, paused                                     *)
  binding,     (* of this activity to the service: unbound, binding, bound  *)
  m_Service,   (* AR.m_Service: none yet, there, gone (set to null)         *)
  mMouseView,  (* the overlay exists                                        *)
  mState,
  main,        (* the main thread: idle, or in onViewInit creating or       *)
               (* adding the overlay                                        *)
  tasks,       (* connect tasks, with the one that runs                     *)
  task,        (* idle, connecting, streaming; returned from connect,       *)
               (* marking the state, sending the broadcast                  *)
  socket,      (* PassDSocket.socket                                        *)
  conn,        (* of each socket: unconnected, connected, closed            *)
  peer,        (* the server's end: open, closed                            *)
  receiver,    (* the socket's PacketReceiver, by what it does next         *)
  broadcasts   (* sent and not delivered, oldest first                      *)

activityVars == <<activity, binding, main>>
serviceVars  == <<m_Service, mMouseView, mState>>
taskVars     == <<tasks, task>>
socketVars   == <<socket, conn, peer, receiver>>

vars == <<activityVars, serviceVars, taskVars, socketVars, broadcasts>>

(* Where a receiver is between its read that failed and the lock: before     *)
(* lines 232, 233, 117, 118 and 119 of PassDService.                         *)
Calling == {"hiding", "telling", "leaving", "rehiding", "removing"}

ReceiverStates == {"none", "running", "interrupting", "ended"} \union Calling

TypeOK ==
  /\ activity \in {"none", "resumed", "paused"}
  /\ binding \in {"unbound", "binding", "bound"}
  /\ m_Service \in {"none", "there", "gone"}
  /\ mMouseView \in BOOLEAN
  /\ mState \in {"IDLE", "CONNECTING", "CONNECTED"}
  /\ main \in {"idle", "creating", "adding"}
  /\ tasks \in 0 .. MaxTasks
  /\ task \in {"idle", "connecting", "streaming", "returned", "marking", "sending"}
  /\ socket \in Sockets \union {NoSocket}
  /\ conn \in [Sockets -> {"unconnected", "connected", "closed"}]
  /\ peer \in [Sockets -> {"open", "closed"}]
  /\ receiver \in [Sockets -> ReceiverStates]
  /\ broadcasts \in Seq({"CONNECTED", "CONNECTION_FAILED", "INTERRUPTED"})

Init ==
  /\ activity = "none"
  /\ binding = "unbound"
  /\ m_Service = "none"
  /\ mMouseView = FALSE
  /\ mState = "IDLE"
  /\ main = "idle"
  /\ tasks = 0
  /\ task = "idle"
  /\ socket = NoSocket
  /\ conn = [s \in Sockets |-> "unconnected"]
  /\ peer = [s \in Sockets |-> "closed"]
  /\ receiver = [s \in Sockets |-> "none"]
  /\ broadcasts = <<>>

(* The process ends; PassDService.onCreate runs in the new one.              *)
ProcessDies ==
  /\ activity' = "none"
  /\ binding' = "unbound"
  /\ m_Service' = "there"
  /\ mMouseView' = FALSE
  /\ mState' = "IDLE"
  /\ main' = "idle"
  /\ tasks' = 0
  /\ task' = "idle"
  /\ socket' = NoSocket
  /\ conn' = [s \in Sockets |-> "unconnected"]
  /\ peer' = [s \in Sockets |-> "closed"]
  /\ receiver' = [s \in Sockets |-> "none"]
  /\ broadcasts' = <<>>

(* sendBroadcast *)
Send(action) ==
  /\ Len(broadcasts) < MaxSent
  /\ broadcasts' = Append(broadcasts, action)

-----------------------------------------------------------------------------
(* The activity.                                                             *)

Launch ==
  /\ main = "idle"
  /\ activity = "none"
  /\ activity' = "resumed"
  /\ binding' = "unbound"
  /\ UNCHANGED <<main, serviceVars, taskVars, socketVars, broadcasts>>

Pause ==
  /\ main = "idle"
  /\ activity = "resumed"
  /\ activity' = "paused"
  /\ UNCHANGED <<binding, main, serviceVars, taskVars, socketVars, broadcasts>>

Resume ==
  /\ main = "idle"
  /\ activity = "paused"
  /\ activity' = "resumed"
  /\ UNCHANGED <<binding, main, serviceVars, taskVars, socketVars, broadcasts>>

(* The system destroys the activity, to create it anew or for its memory.    *)
Destroy ==
  /\ main = "idle"
  /\ activity # "none"
  /\ activity' = "none"
  /\ binding' = "unbound"
  /\ UNCHANGED <<main, serviceVars, taskVars, socketVars, broadcasts>>

OnBackPressed == main = "idle" /\ activity = "resumed" /\ ProcessDies

(* tryConnect.  A second bindService of the same activity is not answered.   *)
TryConnect ==
  /\ main = "idle"
  /\ activity = "resumed"
  /\ binding = "unbound"
  /\ binding' = "binding"
  /\ m_Service' = IF m_Service = "none" THEN "there" ELSE m_Service
  /\ UNCHANGED <<activity, main, mMouseView, mState, taskVars, socketVars,
                 broadcasts>>

(* Variants of IsConnected: no connection counts; one the server has closed, *)
(* or one that is being taken down, does not.                                *)
NeverConnected == FALSE
ConnectedToServer ==
  socket # NoSocket /\ conn[socket] = "connected" /\ peer[socket] = "open"
ConnectedAndAlive == socket # NoSocket /\ receiver[socket] = "running"

(* PassDSocket.isConnected: Java's Socket stays connected when it is closed. *)
IsConnected == socket # NoSocket /\ conn[socket] # "unconnected"

(* onServiceConnected: a connect task is queued unless there is a connection.*)
OnServiceConnected ==
  /\ main = "idle"
  /\ binding = "binding"
  /\ binding' = "bound"
  /\ tasks' = IF IsConnected THEN tasks ELSE tasks + 1
  /\ tasks' <= MaxTasks
  /\ UNCHANGED <<activity, main, serviceVars, task, socketVars, broadcasts>>

(* isConnected reads socket twice, without the lock: a receiver that sets it *)
(* to null in between throws in whoever asked.                               *)
SocketVanishes ==
  /\ (main = "idle" /\ binding = "binding") \/ task = "returned"
  /\ socket # NoSocket
  /\ task \notin {"connecting", "streaming"}
  /\ \E s \in Sockets : receiver[s] = "interrupting"
  /\ ProcessDies

-----------------------------------------------------------------------------
(* The thread of the connect tasks.                                          *)

Unused(s) == s # socket /\ conn[s] # "connected" /\ receiver[s] \in {"none", "ended"}

(* PassDSocket.connect, with the lock: a new socket replaces the old one.    *)
Connect(s) ==
  /\ tasks > 0
  /\ task = "idle"
  /\ Unused(s)
  /\ task' = "connecting"
  /\ socket' = s
  /\ conn' = [conn EXCEPT ![s] = "unconnected"]
  /\ receiver' = [receiver EXCEPT ![s] = "none"]
  /\ UNCHANGED <<activityVars, serviceVars, tasks, peer, broadcasts>>

(* The server answers; the receiver is started, ...                          *)
Connected ==
  /\ task = "connecting"
  /\ task' = "streaming"
  /\ conn' = [conn EXCEPT ![socket] = "connected"]
  /\ peer' = [peer EXCEPT ![socket] = "open"]
  /\ receiver' = [receiver EXCEPT ![socket] = "running"]
  /\ UNCHANGED <<activityVars, serviceVars, tasks, socket, broadcasts>>

(* ... onServerConnected called, the hello sent and the lock released.       *)
OnServerConnected ==
  /\ task = "streaming"
  /\ task' = "returned"
  /\ mState' = "CONNECTED"
  /\ UNCHANGED <<activityVars, m_Service, mMouseView, tasks, socketVars, broadcasts>>

(* Variant of OnServerConnectionFailed that tries again.                     *)
FailedAndRetried ==
  /\ task = "connecting"
  /\ tasks' = tasks - 1
  /\ mState' = "IDLE"
  /\ Send("CONNECTION_FAILED")
  /\ UNCHANGED <<activityVars, m_Service, mMouseView, task, socketVars>>

(* Nobody answers: onServerConnectionFailed.                                 *)
OnServerConnectionFailed ==
  /\ task = "connecting"
  /\ task' = "idle"
  /\ tasks' = tasks - 1
  /\ mState' = "IDLE"
  /\ Send("CONNECTION_FAILED")
  /\ UNCHANGED <<activityVars, m_Service, mMouseView, socketVars>>

(* The rest of the task, without the lock: the connection is looked at, ...  *)
TaskReturns ==
  /\ task = "returned"
  /\ IF IsConnected
       THEN task' = "marking" /\ UNCHANGED tasks
       ELSE task' = "idle" /\ tasks' = tasks - 1
  /\ UNCHANGED <<activityVars, serviceVars, socketVars, broadcasts>>

(* ... the state, which was CONNECTED, becomes CONNECTING, ...               *)
MarkConnecting ==
  /\ task = "marking"
  /\ task' = "sending"
  /\ mState' = "CONNECTING"
  /\ UNCHANGED <<activityVars, m_Service, mMouseView, tasks, socketVars, broadcasts>>

(* ... and the activity is told.                                             *)
SendConnected ==
  /\ task = "sending"
  /\ task' = "idle"
  /\ tasks' = tasks - 1
  /\ Send("CONNECTED")
  /\ UNCHANGED <<activityVars, serviceVars, socketVars>>

-----------------------------------------------------------------------------
(* The receivers and the server.                                             *)

Receives(s) ==
  /\ receiver[s] = "running"
  /\ conn[s] = "connected"
  /\ peer[s] = "open"
  /\ socket = s => task # "streaming"

(* onPacketReceived: a mouse packet needs the service and its overlay.       *)
MouseWithoutView(s) ==
  /\ Receives(s)
  /\ m_Service # "there" \/ ~mMouseView
  /\ ProcessDies

(* A key that KeyCodeMap does not know is null, and unboxed.                 *)
UnknownKey(s) == Receives(s) /\ ProcessDies

ServerCloses(s) ==
  /\ conn[s] = "connected"
  /\ peer[s] = "open"
  /\ peer' = [peer EXCEPT ![s] = "closed"]
  /\ UNCHANGED <<activityVars, serviceVars, taskVars, socket, conn, receiver,
                 broadcasts>>

ReadFails(s) ==
  /\ receiver[s] = "running"
  /\ peer[s] = "closed" \/ conn[s] = "closed"

(* onInterrupt calls onServerConnectionInterrupted: the state, ...           *)
LoseServer(s) ==
  /\ ReadFails(s)
  /\ receiver' = [receiver EXCEPT ![s] = "hiding"]
  /\ mState' = "IDLE"
  /\ UNCHANGED <<activityVars, m_Service, mMouseView, taskVars, socket, conn, peer,
                 broadcasts>>

(* ... the cursor, which needs the overlay (and again in onDestroy), ...     *)
HideCursor(s) ==
  /\ receiver[s] \in {"hiding", "rehiding"}
  /\ IF mMouseView
       THEN /\ receiver' = [receiver EXCEPT ![s] =
                              IF @ = "hiding" THEN "telling" ELSE "removing"]
            /\ UNCHANGED <<activityVars, serviceVars, taskVars, socket, conn, peer,
                           broadcasts>>
       ELSE ProcessDies

(* ... the broadcast, ...                                                    *)
SendInterrupted(s) ==
  /\ receiver[s] = "telling"
  /\ receiver' = [receiver EXCEPT ![s] = "leaving"]
  /\ Send("INTERRUPTED")
  /\ UNCHANGED <<activityVars, serviceVars, taskVars, socket, conn, peer>>

(* ... and onDestroy of a service that lives on: AR forgets it, ...          *)
OnDestroy(s) ==
  /\ receiver[s] = "leaving"
  /\ receiver' = [receiver EXCEPT ![s] = "rehiding"]
  /\ m_Service' = "gone"
  /\ UNCHANGED <<activityVars, mMouseView, mState, taskVars, socket, conn, peer,
                 broadcasts>>

(* Variant of ViewAfterRemoval that leaves the overlay.                      *)
ViewKept == mMouseView

ViewAfterRemoval == FALSE

(* ... and the overlay goes, unless onViewInit has not added it yet.         *)
RemoveView(s) ==
  /\ receiver[s] = "removing"
  /\ IF mMouseView /\ main = "adding"
       THEN ProcessDies
       ELSE /\ receiver' = [receiver EXCEPT ![s] = "interrupting"]
            /\ mMouseView' = ViewAfterRemoval
            /\ UNCHANGED <<activityVars, m_Service, mState, taskVars, socket, conn, peer,
                           broadcasts>>

(* Variant of CloseSocket that lets the receiver end without closing.        *)
CloseNothing(s) ==
  /\ receiver[s] = "interrupting"
  /\ receiver' = [receiver EXCEPT ![s] = "ended"]
  /\ UNCHANGED <<activityVars, serviceVars, taskVars, socket, conn, peer, broadcasts>>

(* ... then, with the lock, whatever socket is there is closed.              *)
CloseSocket(s) ==
  /\ receiver[s] = "interrupting"
  /\ task \notin {"connecting", "streaming"}
  /\ receiver' = [receiver EXCEPT ![s] = "ended"]
  /\ IF socket = NoSocket
       THEN UNCHANGED conn
       ELSE conn' = [conn EXCEPT ![socket] = "closed"]
  /\ socket' = NoSocket
  /\ UNCHANGED <<activityVars, serviceVars, taskVars, peer, broadcasts>>

-----------------------------------------------------------------------------
(* Broadcasts reach the activity while it is resumed, and nobody else.       *)

Deliver ==
  /\ main = "idle"
  /\ broadcasts # <<>>
  /\ broadcasts' = Tail(broadcasts)
  /\ UNCHANGED <<m_Service, mState, taskVars, socketVars>>

Dropped ==
  /\ Deliver
  /\ activity # "resumed" \/ Head(broadcasts) = "CONNECTION_FAILED"
  /\ UNCHANGED <<activityVars, mMouseView>>

(* ACTION_CONNECTED: the home screen comes up over the activity, and         *)
(* onViewInit is called on the service AR knows of, if it does: ...          *)
OnConnected ==
  /\ main = "idle"
  /\ broadcasts # <<>>
  /\ activity = "resumed"
  /\ Head(broadcasts) = "CONNECTED"
  /\ IF m_Service = "there"
       THEN /\ Deliver
            /\ activity' = "paused"
            /\ main' = "creating"
            /\ UNCHANGED <<binding, mMouseView>>
       ELSE ProcessDies

(* ... the overlay is made, ...                                              *)
CreateView ==
  /\ main = "creating"
  /\ main' = "adding"
  /\ mMouseView' = TRUE
  /\ UNCHANGED <<activity, binding, m_Service, mState, taskVars, socketVars, broadcasts>>

(* ... and shown; by then there may be none.                                 *)
AddView ==
  /\ main = "adding"
  /\ IF mMouseView
       THEN /\ main' = "idle"
            /\ UNCHANGED <<activity, binding, serviceVars, taskVars, socketVars,
                           broadcasts>>
       ELSE ProcessDies

(* ACTION_INTERRUPTED: finish *)
OnInterrupted ==
  /\ Deliver
  /\ activity = "resumed"
  /\ Head(broadcasts) = "INTERRUPTED"
  /\ activity' = "none"
  /\ binding' = "unbound"
  /\ UNCHANGED <<main, mMouseView>>

-----------------------------------------------------------------------------
TaskNext ==
  \/ \E s \in Sockets : Connect(s)
  \/ Connected
  \/ OnServerConnected
  \/ OnServerConnectionFailed
  \/ TaskReturns
  \/ MarkConnecting
  \/ SendConnected

(* What a receiver does when its read has failed.                            *)
Interrupt(s) ==
  \/ LoseServer(s)
  \/ HideCursor(s)
  \/ SendInterrupted(s)
  \/ OnDestroy(s)
  \/ RemoveView(s)
  \/ CloseSocket(s)

ReceiverNext(s) == MouseWithoutView(s) \/ UnknownKey(s) \/ Interrupt(s)

Handle == Dropped \/ OnConnected \/ CreateView \/ AddView \/ OnInterrupted

MainNext == TryConnect \/ OnServiceConnected \/ SocketVanishes \/ Handle

Next ==
  \/ Launch \/ Pause \/ Resume \/ OnBackPressed
  \/ Destroy
  \/ MainNext
  \/ TaskNext
  \/ \E s \in Sockets : ReceiverNext(s) \/ ServerCloses(s)

(* Threads that can run do; a read that fails returns; main handles messages.*)
Scheduling ==
  /\ WF_vars(TaskNext)
  /\ \A s \in Sockets : WF_vars(Interrupt(s))
  /\ WF_vars(Handle)

Spec == Init /\ [][Next]_vars /\ Scheduling

=============================================================================
