------------------------- MODULE PassDClient_proofs -------------------------
(***************************************************************************)
(* Theorems about PassDClient and SteadyActivity for any number of         *)
(* sockets, waiting tasks and broadcasts.                                  *)
(***************************************************************************)
EXTENDS SteadyActivity, SequenceTheorems, TLAPS

-----------------------------------------------------------------------------
(* Type correctness.                                                         *)

Actions == {"CONNECTED", "CONNECTION_FAILED", "INTERRUPTED"}

(* A task that runs is counted.                                              *)
Typed == TypeOK /\ (task # "idle" => tasks > 0)

LEMMA TypeStep ==
  ASSUME Typed, [Next]_vars
  PROVE  Typed'
<1>. USE AndroidAssumption
     DEF Typed, TypeOK, activityVars, serviceVars, taskVars, socketVars, Calling,
         ReceiverStates
<1>1. ASSUME ProcessDies PROVE Typed'
  <2>1. /\ conn' \in [Sockets -> {"unconnected", "connected", "closed"}]
        /\ peer' \in [Sockets -> {"open", "closed"}]
        /\ receiver' \in [Sockets -> ReceiverStates]
    BY <1>1 DEF ProcessDies
  <2>2. broadcasts' \in Seq(Actions) /\ tasks' \in 0 .. MaxTasks
    BY <1>1 DEF ProcessDies
  <2>. QED
    BY <1>1, <2>1, <2>2 DEF ProcessDies, Actions
<1>2. CASE Launch \/ Pause \/ Resume \/ Destroy \/ OnBackPressed
  BY <1>1, <1>2 DEF Launch, Pause, Resume, Destroy, OnBackPressed
<1>3. CASE TryConnect
  BY <1>3 DEF TryConnect
<1>4. CASE OnServiceConnected
  BY <1>4 DEF OnServiceConnected
<1>5. ASSUME NEW s \in Sockets, Connect(s) PROVE Typed'
  BY <1>5 DEF Connect
<1>6. CASE Connected
  BY <1>6 DEF Connected
<1>7. CASE OnServerConnected
  BY <1>7 DEF OnServerConnected
<1>8. CASE OnServerConnectionFailed
  BY <1>8 DEF OnServerConnectionFailed, Send
<1>9. CASE TaskReturns
  BY <1>9 DEF TaskReturns
<1>10. CASE MarkConnecting
  BY <1>10 DEF MarkConnecting
<1>11. CASE SendConnected
  <2>1. broadcasts' \in Seq(Actions) /\ tasks' \in 0 .. MaxTasks
    BY <1>11 DEF SendConnected, Send, Actions
  <2>. QED
    BY <1>11, <2>1 DEF SendConnected, Actions
<1>12. ASSUME NEW s \in Sockets, ReceiverNext(s) PROVE Typed'
  <2>1. CASE MouseWithoutView(s) \/ UnknownKey(s)
    BY <1>1, <2>1 DEF MouseWithoutView, UnknownKey
  <2>2. CASE ProcessDies
    BY <1>1, <2>2
  <2>3. CASE LoseServer(s) \/ OnDestroy(s) \/ CloseSocket(s)
    BY <2>3 DEF LoseServer, OnDestroy, CloseSocket
  <2>4. CASE HideCursor(s) /\ ~ProcessDies
    BY <2>4 DEF HideCursor
  <2>5. CASE RemoveView(s) /\ ~ProcessDies
    <3>1. mMouseView' = FALSE /\ receiver' \in [Sockets -> ReceiverStates]
      BY <2>5 DEF RemoveView, ViewAfterRemoval
    <3>2. UNCHANGED <<activityVars, m_Service, mState, taskVars, socket, conn, peer,
                      broadcasts>>
      BY <2>5 DEF RemoveView
    <3>. QED
      BY <3>1, <3>2
  <2>6. CASE SendInterrupted(s)
    <3>1. broadcasts' \in Seq(Actions)
      BY <2>6 DEF SendInterrupted, Send, Actions
    <3>. QED
      BY <2>6, <3>1 DEF SendInterrupted, Actions
  <2>. QED
    BY <1>12, <2>1, <2>2, <2>3, <2>4, <2>5, <2>6 DEF ReceiverNext, Interrupt
<1>13. ASSUME NEW s \in Sockets, ServerCloses(s) PROVE Typed'
  BY <1>13 DEF ServerCloses
<1>14. CASE Dropped
  BY <1>14 DEF Dropped, Deliver
<1>15. CASE OnConnected
  <2>1. CASE m_Service = "there"
    BY <1>15, <2>1 DEF OnConnected, Deliver
  <2>2. CASE m_Service # "there"
    BY <1>1, <1>15, <2>2 DEF OnConnected
  <2>. QED
    BY <2>1, <2>2
<1>16. CASE OnInterrupted
  BY <1>16 DEF OnInterrupted, Deliver
<1>17. CASE CreateView
  BY <1>17 DEF CreateView
<1>18. CASE AddView
  BY <1>1, <1>18 DEF AddView
<1>19. CASE SocketVanishes
  BY <1>1, <1>19 DEF SocketVanishes
<1>20. CASE UNCHANGED vars
  BY <1>20 DEF vars
<1>. QED
  BY <1>2, <1>3, <1>4, <1>5, <1>6, <1>7, <1>8, <1>9, <1>10, <1>11, <1>12, <1>13, <1>14,
     <1>15, <1>16, <1>17, <1>18, <1>19, <1>20
  DEF Next, MainNext, Handle, TaskNext

LEMMA TypeInit == Init => Typed
<1>1. Init => /\ conn \in [Sockets -> {"unconnected", "connected", "closed"}]
              /\ peer \in [Sockets -> {"open", "closed"}]
              /\ receiver \in [Sockets -> ReceiverStates]
  BY DEF Init, ReceiverStates
<1>2. Init => broadcasts \in Seq(Actions) /\ tasks \in 0 .. MaxTasks
  BY AndroidAssumption DEF Init
<1>. QED
  BY <1>1, <1>2 DEF Init, Typed, TypeOK, Actions

(* Every value of the client stays in its type, in whatever order its        *)
(* threads run and however often the activity is opened (PassD.java,         *)
(* PassDService.java, PassDSocket.java).                                     *)
THEOREM TypeCorrect == Spec => []TypeOK
<1>1. Typed => TypeOK
  BY DEF Typed
<1>. QED
  BY <1>1, TypeInit, TypeStep, PTL DEF Spec

-----------------------------------------------------------------------------
(* The activity that is not opened again while a task waits or runs.         *)

(* The receiver has not ended.                                               *)
Live(s) == receiver[s] \notin {"none", "ended"}

(* The connection may still be given its overlay.                            *)
Streaming == socket \in Sockets /\ receiver[socket] \in {"running", "hiding"}

(* The receiver has found the overlay there.                                 *)
Ending == Calling \ {"hiding"}

(* An ACTION_CONNECTED is on its way to the activity.                        *)
Pending(i) == i \in 1 .. Len(broadcasts) /\ broadcasts[i] = "CONNECTED"
Announced  == \E i \in Nat : Pending(i)

(* At most one connect task waits or runs, and an activity that may queue    *)
(* another finds none.                                                       *)
OneTask ==
  /\ tasks \in {0, 1}
  /\ task # "idle" => tasks = 1
  /\ binding # "unbound" => activity # "none"
  /\ activity # "none" /\ binding # "bound" => tasks = 0

(* A connection is the service's socket and has a receiver, until the        *)
(* receiver closes it; a task that is to connect finds none.                 *)
OneSocket ==
  /\ \A s \in Sockets : Live(s) \/ conn[s] = "connected"
                          => s = socket /\ Live(s) /\ conn[s] = "connected"
  /\ socket \in Sockets => conn[socket] # "closed"
  /\ task = "connecting" => socket \in Sockets
  /\ tasks = 1 /\ task \in {"idle", "connecting"} => ~IsConnected
  /\ task \notin {"idle", "connecting"} => Streaming

(* The overlay, or the broadcast or the step of main that will put it up,    *)
(* belongs to a connection that stands: a receiver that does not find it     *)
(* ends the process.                                                         *)
OneView ==
  /\ main # "idle" \/ mMouseView \/ Announced => tasks = 0
  /\ main = "creating" => Streaming /\ ~mMouseView /\ m_Service = "there"
  /\ Announced => Streaming /\ ~mMouseView /\ main = "idle"
  /\ \A i, j \in Nat : Pending(i) /\ Pending(j) => i = j
  /\ main = "adding" => mMouseView
  /\ mMouseView => /\ socket \in Sockets
                   /\ receiver[socket] \in {"running"} \union Calling
  /\ mMouseView /\ receiver[socket] \notin {"rehiding", "removing"} => m_Service = "there"
  /\ \A s \in Sockets : receiver[s] \in Ending => mMouseView
  /\ \A s \in Sockets : receiver[s] = "interrupting" => tasks = 0

(* The state the service reports.                                            *)
Reports ==
  /\ task \notin {"connecting", "streaming"}
  /\ socket \in Sockets
  /\ receiver[socket] = "running"
  => mState # "IDLE"

LEMMA SteadyStep == [SteadyNext]_vars => [Next]_vars
BY DEF SteadyNext, SteadyLaunch, Next

LEMMA SteadyInit == Init => OneTask /\ OneSocket /\ OneView /\ Reports
BY AndroidAssumption
DEF Init, OneTask, OneSocket, OneView, Reports, IsConnected, Streaming, Live, Announced,
    Pending, Ending, Calling

(* A process that was started anew is as it was at first, its service there. *)
LEMMA Reborn == ProcessDies => (OneTask /\ OneSocket /\ OneView /\ Reports)'
BY AndroidAssumption
DEF ProcessDies, OneTask, OneSocket, OneView, Reports, IsConnected, Streaming, Live,
    Announced, Pending, Ending, Calling

(* What a step of a receiver changes when the process lives on.              *)
LEMMA Interrupts ==
  ASSUME NEW s \in Sockets, ReceiverNext(s), ~ProcessDies,
         receiver \in [Sockets -> ReceiverStates]
  PROVE  /\ UNCHANGED <<activityVars, taskVars, peer>>
         /\ \A t \in Sockets \ {s} : receiver'[t] = receiver[t]
         /\ \/ CloseSocket(s)
            \/ /\ UNCHANGED <<socket, conn>>
               /\ <<receiver[s], receiver'[s]>> \in
                    {<<"running", "hiding">>, <<"hiding", "telling">>,
                     <<"telling", "leaving">>, <<"leaving", "rehiding">>,
                     <<"rehiding", "removing">>, <<"removing", "interrupting">>}
<1>1. CASE LoseServer(s)
  BY <1>1 DEF LoseServer, ReadFails
<1>2. CASE HideCursor(s)
  BY <1>2 DEF HideCursor
<1>3. CASE SendInterrupted(s) \/ OnDestroy(s) \/ RemoveView(s)
  BY <1>3 DEF SendInterrupted, OnDestroy, RemoveView
<1>4. CASE CloseSocket(s)
  BY <1>4 DEF CloseSocket
<1>. QED
  BY <1>1, <1>2, <1>3, <1>4 DEF ReceiverNext, Interrupt, MouseWithoutView, UnknownKey

LEMMA OneTaskStep ==
  ASSUME Typed, OneTask, [SteadyNext]_vars
  PROVE  OneTask'
<1>. USE DEF OneTask, Typed, TypeOK, activityVars, serviceVars, taskVars, socketVars
<1>1. CASE SteadyLaunch
  BY <1>1 DEF SteadyLaunch, Launch
<1>2. CASE Pause \/ Resume \/ Destroy
  BY <1>2 DEF Pause, Resume, Destroy
<1>3. CASE ProcessDies
  BY <1>3, Reborn
<1>4. CASE TryConnect
  BY <1>4 DEF TryConnect
<1>5. CASE OnServiceConnected
  BY <1>5 DEF OnServiceConnected
<1>6. ASSUME NEW s \in Sockets, Connect(s) PROVE OneTask'
  BY <1>6 DEF Connect
<1>7. CASE Connected \/ OnServerConnected
  BY <1>7 DEF Connected, OnServerConnected
<1>8. CASE OnServerConnectionFailed
  BY <1>8 DEF OnServerConnectionFailed
<1>9. CASE TaskReturns \/ MarkConnecting \/ SendConnected
  BY <1>9 DEF TaskReturns, MarkConnecting, SendConnected
<1>10. CASE UNCHANGED <<activity, binding, taskVars>>
  BY <1>10
<1>11. ASSUME NEW s \in Sockets, ReceiverNext(s) \/ ServerCloses(s), ~ProcessDies
       PROVE  UNCHANGED <<activityVars, taskVars>>
  BY <1>11, Interrupts DEF ServerCloses
<1>12. CASE Dropped
  BY <1>12 DEF Dropped, Deliver
<1>13. CASE OnConnected /\ ~ProcessDies
  BY <1>13 DEF OnConnected, Deliver
<1>14. CASE OnInterrupted
  BY <1>14 DEF OnInterrupted, Deliver
<1>15. CASE (CreateView \/ AddView) /\ ~ProcessDies
  BY <1>10, <1>15 DEF CreateView, AddView
<1>16. CASE UNCHANGED vars
  BY <1>10, <1>16 DEF vars
<1>. QED
  BY <1>1, <1>2, <1>3, <1>4, <1>5, <1>6, <1>7, <1>8, <1>9, <1>10, <1>11, <1>12, <1>13,
     <1>14, <1>15, <1>16
  DEF SteadyNext, OnBackPressed, MainNext, Handle, TaskNext, SocketVanishes

LEMMA OneSocketStep ==
  ASSUME Typed, OneTask, OneSocket, OneView, [SteadyNext]_vars
  PROVE  OneSocket'
<1>. USE AndroidAssumption
     DEF OneSocket, IsConnected, Streaming, Live, Typed, TypeOK, activityVars,
         serviceVars, taskVars, socketVars
<1>1. CASE UNCHANGED <<taskVars, socket, conn, receiver>>
  BY <1>1
<1>2. CASE SteadyLaunch \/ Pause \/ Resume \/ Destroy \/ TryConnect
  BY <1>1, <1>2 DEF SteadyLaunch, Launch, Pause, Resume, Destroy, TryConnect
<1>3. CASE ProcessDies
  BY <1>3, Reborn
<1>4. CASE OnServiceConnected
  BY <1>4 DEF OnServiceConnected, OneTask
<1>5. ASSUME NEW s \in Sockets, Connect(s) PROVE OneSocket'
  <2>1. ~IsConnected /\ \A t \in Sockets : ~Live(t) /\ conn[t] # "connected"
    BY <1>5 DEF Connect, OneTask
  <2>2. /\ socket' = s /\ task' = "connecting"
        /\ \A t \in Sockets : /\ conn'[t] = IF t = s THEN "unconnected" ELSE conn[t]
                              /\ receiver'[t] = IF t = s THEN "none" ELSE receiver[t]
    BY <1>5 DEF Connect
  <2>. QED
    BY <2>1, <2>2
<1>6. CASE Connected
  <2>1. socket \in Sockets /\ \A t \in Sockets : ~Live(t) /\ conn[t] # "connected"
    BY <1>6 DEF Connected, OneTask
  <2>2. /\ socket' = socket /\ task' = "streaming"
        /\ \A t \in Sockets : /\ conn'[t] = IF t = socket THEN "connected" ELSE conn[t]
                              /\ receiver'[t] = IF t = socket THEN "running" ELSE receiver[t]
    BY <1>6 DEF Connected
  <2>. QED
    BY <2>1, <2>2
<1>7. CASE OnServerConnected
  BY <1>7 DEF OnServerConnected
<1>8. CASE OnServerConnectionFailed
  BY <1>8 DEF OnServerConnectionFailed, OneTask
<1>9. CASE TaskReturns \/ MarkConnecting
  BY <1>9 DEF TaskReturns, MarkConnecting, OneTask
<1>10. CASE SendConnected
  BY <1>10 DEF SendConnected, OneTask
<1>11. ASSUME NEW s \in Sockets, ReceiverNext(s), ~ProcessDies PROVE OneSocket'
  <2>1. CASE CloseSocket(s)
    <3>1. tasks = 0 /\ task = "idle" /\ s = socket
      BY <2>1 DEF CloseSocket, OneView, OneTask
    <3>2. /\ socket' = NoSocket /\ UNCHANGED taskVars
          /\ \A t \in Sockets : /\ conn'[t] = IF t = s THEN "closed" ELSE conn[t]
                                /\ receiver'[t] = IF t = s THEN "ended" ELSE receiver[t]
      BY <2>1, <3>1 DEF CloseSocket
    <3>. QED
      BY <3>1, <3>2
  <2>2. CASE ~CloseSocket(s)
    <3>1. UNCHANGED <<taskVars, socket, conn>> /\ \A t \in Sockets : Live(t)' <=> Live(t)
      BY <1>11, <2>2, Interrupts
    <3>2. receiver[s] = "running" => receiver'[s] = "hiding"
      BY <1>11, <2>2, Interrupts
    <3>3. receiver[s] \in Calling => tasks = 0 \/ receiver[s] = "hiding"
      BY DEF OneView, Ending
    <3>4. receiver[s] = "hiding" /\ ~mMouseView => receiver'[s] = "hiding"
      BY <1>11
      DEF ReceiverNext, Interrupt, MouseWithoutView, UnknownKey, LoseServer, ReadFails,
          HideCursor, SendInterrupted, OnDestroy, RemoveView, CloseSocket
    <3>5. task \notin {"idle", "connecting"} => Streaming'
      BY <1>11, <2>2, <3>1, <3>2, <3>3, <3>4, Interrupts DEF OneView, OneTask, Calling
    <3>. QED
      BY <3>1, <3>5
  <2>. QED
    BY <2>1, <2>2
<1>12. ASSUME NEW s \in Sockets, ServerCloses(s) PROVE OneSocket'
  BY <1>1, <1>12 DEF ServerCloses
<1>13. CASE Dropped \/ OnInterrupted \/ (OnConnected /\ ~ProcessDies)
  BY <1>1, <1>13 DEF Dropped, OnInterrupted, OnConnected, Deliver
<1>14. CASE (CreateView \/ AddView) /\ ~ProcessDies
  BY <1>1, <1>14 DEF CreateView, AddView
<1>15. CASE UNCHANGED vars
  BY <1>1, <1>15 DEF vars
<1>. QED
  BY <1>2, <1>3, <1>4, <1>5, <1>6, <1>7, <1>8, <1>9, <1>10, <1>11, <1>12, <1>13, <1>14,
     <1>15
  DEF SteadyNext, OnBackPressed, MainNext, Handle, TaskNext, SocketVanishes

(* What is pending after a broadcast is sent, and after one is delivered.    *)
LEMMA PendingSent ==
  ASSUME broadcasts \in Seq(Actions), NEW a, Send(a)
  PROVE  \A i \in Nat : Pending(i)' <=> \/ Pending(i)
                                        \/ i = Len(broadcasts) + 1 /\ a = "CONNECTED"
<1>1. broadcasts' = Append(broadcasts, a)
  BY DEF Send
<1>2. /\ Len(broadcasts) \in Nat
      /\ Len(broadcasts') = Len(broadcasts) + 1
      /\ \A i \in 1 .. Len(broadcasts) : broadcasts'[i] = broadcasts[i]
      /\ broadcasts'[Len(broadcasts) + 1] = a
  BY <1>1
<1>. QED
  BY <1>2 DEF Pending

LEMMA PendingDelivered ==
  ASSUME broadcasts \in Seq(Actions), Deliver
  PROVE  \A i \in Nat : Pending(i)' => Pending(i + 1) /\ i > 0
<1>1. broadcasts # <<>> /\ broadcasts' = Tail(broadcasts)
  BY DEF Deliver
<1>2. /\ Len(broadcasts) \in Nat
      /\ Len(broadcasts') = Len(broadcasts) - 1
      /\ \A i \in 1 .. Len(broadcasts') : broadcasts'[i] = broadcasts[i + 1]
  BY <1>1
<1>. QED
  BY <1>2 DEF Pending

LEMMA OneViewStep ==
  ASSUME Typed, OneTask, OneSocket, OneView, [SteadyNext]_vars
  PROVE  OneView'
<1>. USE DEF OneView, activityVars, serviceVars, taskVars, socketVars
<1>1. UNCHANGED broadcasts => /\ \A i \in Nat : Pending(i)' <=> Pending(i)
                              /\ Announced' <=> Announced
  BY DEF Pending, Announced
<1>2. UNCHANGED <<socket, receiver>> => (Streaming' <=> Streaming)
  BY DEF Streaming
<1>3. broadcasts \in Seq(Actions) /\ receiver \in [Sockets -> ReceiverStates]
  BY DEF Typed, TypeOK, Actions
<1>4. ASSUME UNCHANGED <<main, m_Service, mMouseView, tasks, socket, receiver,
                         broadcasts>>
      PROVE  OneView'
  BY <1>1, <1>2, <1>4
<1>5. CASE SteadyLaunch \/ Pause \/ Resume \/ Destroy
  BY <1>4, <1>5 DEF SteadyLaunch, Launch, Pause, Resume, Destroy
<1>6. CASE ProcessDies
  BY <1>6, Reborn
<1>7. CASE TryConnect
  BY <1>1, <1>2, <1>7 DEF TryConnect
<1>8. CASE OnServiceConnected
  <2>1. CASE IsConnected
    BY <1>4, <1>8, <2>1 DEF OnServiceConnected
  <2>2. CASE ~IsConnected
    <3>1. \A s \in Sockets : ~Live(s)
      BY <2>2, AndroidAssumption DEF OneSocket, IsConnected
    <3>2. main = "idle" /\ ~mMouseView /\ ~Announced
      BY <1>8, <3>1 DEF OnServiceConnected, Streaming, Live, Calling
    <3>. QED
      BY <1>1, <1>2, <1>8, <3>1, <3>2 DEF OnServiceConnected, Live, Ending, Calling
  <2>. QED
    BY <2>1, <2>2
<1>9. ASSUME tasks = 1, UNCHANGED <<main, m_Service, mMouseView, tasks, broadcasts>>,
             \A t \in Sockets : \/ receiver'[t] = receiver[t]
                                \/ receiver'[t] \in {"none", "running"}
      PROVE  OneView'
  BY <1>1, <1>9 DEF Ending, Calling
<1>10. ASSUME NEW s \in Sockets, Connect(s) PROVE OneView'
  BY <1>3, <1>9, <1>10 DEF Connect, OneTask
<1>11. CASE Connected
  BY <1>3, <1>9, <1>11 DEF Connected, OneTask
<1>12. CASE OnServerConnected \/ MarkConnecting
  BY <1>4, <1>12 DEF OnServerConnected, MarkConnecting
<1>13. CASE OnServerConnectionFailed
  <2>1. /\ tasks = 1 /\ main = "idle" /\ ~mMouseView /\ ~Announced
        /\ Send("CONNECTION_FAILED")
    BY <1>13 DEF OnServerConnectionFailed, OneTask
  <2>2. \A i \in Nat : Pending(i)' <=> Pending(i)
    BY <1>3, <2>1, PendingSent
  <2>3. ~Announced'
    BY <2>1, <2>2 DEF Announced
  <2>. QED
    BY <1>13, <2>1, <2>2, <2>3 DEF OnServerConnectionFailed, Announced, OneTask
<1>14. CASE TaskReturns
  BY <1>1, <1>2, <1>14 DEF TaskReturns, OneTask
<1>15. CASE SendConnected
  <2>1. /\ tasks = 1 /\ main = "idle" /\ ~mMouseView /\ ~Announced
        /\ Streaming /\ tasks' = 0
    BY <1>15 DEF SendConnected, OneTask, OneSocket
  <2>2. Send("CONNECTED") /\ UNCHANGED <<main, m_Service, mMouseView, socketVars>>
    BY <1>15 DEF SendConnected
  <2>3. \A i \in Nat : Pending(i)' => i = Len(broadcasts) + 1
    BY <1>3, <2>1, <2>2, PendingSent DEF Announced
  <2>. QED
    BY <1>2, <2>1, <2>2, <2>3
<1>16. ASSUME NEW s \in Sockets, ReceiverNext(s), ~ProcessDies PROVE OneView'
  <2>1. CASE LoseServer(s)
    <3>1. /\ UNCHANGED <<main, m_Service, mMouseView, tasks, socket, broadcasts>>
          /\ \A t \in Sockets :
               receiver'[t] = IF t = s THEN "hiding" ELSE receiver[t]
      BY <1>3, <2>1 DEF LoseServer
    <3>2. receiver[s] = "running"
      BY <2>1 DEF LoseServer, ReadFails
    <3>. QED
      BY <1>1, <3>1, <3>2 DEF Streaming, Ending, Calling
  <2>2. CASE HideCursor(s)
    <3>1. /\ mMouseView
          /\ UNCHANGED <<main, m_Service, mMouseView, tasks, socket, broadcasts>>
          /\ \A t \in Sockets :
               receiver'[t] = IF t # s THEN receiver[t]
                              ELSE IF receiver[s] = "hiding" THEN "telling" ELSE "removing"
      BY <1>3, <1>16, <2>2 DEF HideCursor
    <3>2. receiver[s] \in {"hiding", "rehiding"} /\ s = socket
      BY <2>2 DEF HideCursor, OneSocket, Live
    <3>. QED
      BY <1>1, <3>1, <3>2 DEF Streaming, Ending, Calling
  <2>3. CASE SendInterrupted(s)
    <3>1. /\ Send("INTERRUPTED")
          /\ UNCHANGED <<main, m_Service, mMouseView, tasks, socket>>
          /\ \A t \in Sockets :
               receiver'[t] = IF t = s THEN "leaving" ELSE receiver[t]
      BY <1>3, <2>3 DEF SendInterrupted
    <3>2. receiver[s] = "telling" /\ s = socket /\ mMouseView
      BY <2>3 DEF SendInterrupted, OneSocket, Live, Ending, Calling
    <3>3. \A i \in Nat : Pending(i)' <=> Pending(i)
      BY <1>3, <3>1, PendingSent
    <3>4. ~Announced'
      BY <3>2, <3>3 DEF Announced
    <3>. QED
      BY <3>1, <3>2, <3>3, <3>4 DEF Ending, Calling
  <2>4. CASE OnDestroy(s)
    <3>1. /\ UNCHANGED <<main, mMouseView, tasks, socket, broadcasts>>
          /\ \A t \in Sockets :
               receiver'[t] = IF t = s THEN "rehiding" ELSE receiver[t]
      BY <1>3, <2>4 DEF OnDestroy
    <3>2. receiver[s] = "leaving" /\ s = socket /\ mMouseView
      BY <2>4 DEF OnDestroy, OneSocket, Live, Ending, Calling
    <3>. QED
      BY <1>1, <3>1, <3>2 DEF Ending, Calling
  <2>5. CASE RemoveView(s)
    <3>1. receiver[s] = "removing" /\ s = socket /\ mMouseView
      BY <2>5 DEF RemoveView, OneSocket, Live, Ending, Calling
    <3>2. main # "adding" /\ mMouseView' = FALSE
      BY <1>16, <2>5, <3>1 DEF RemoveView, ViewAfterRemoval
    <3>3. /\ UNCHANGED <<main, m_Service, tasks, socket, broadcasts>>
          /\ \A t \in Sockets :
               receiver'[t] = IF t = s THEN "interrupting" ELSE receiver[t]
      BY <1>3, <1>16, <2>5 DEF RemoveView
    <3>4. main = "idle"
      BY <3>1, <3>2 DEF Typed, TypeOK
    <3>5. \A t \in Sockets : t # s => receiver[t] \notin Ending
      BY <3>1 DEF OneSocket, Live, Ending, Calling
    <3>. QED
      BY <1>1, <3>1, <3>2, <3>3, <3>4, <3>5 DEF Ending, Calling
  <2>6. CASE CloseSocket(s)
    <3>1. receiver[s] = "interrupting" /\ tasks = 0
      BY <2>6 DEF CloseSocket
    <3>2. s = socket /\ ~Streaming
      BY <3>1 DEF OneSocket, Live, Streaming
    <3>3. ~mMouseView /\ ~Announced /\ main = "idle"
      BY <3>1, <3>2 DEF Calling, Typed, TypeOK
    <3>4. \A t \in Sockets : receiver'[t] \in {receiver[t], "ended"}
      BY <1>3, <2>6 DEF CloseSocket
    <3>5. UNCHANGED <<main, m_Service, mMouseView, tasks, broadcasts>>
      BY <2>6 DEF CloseSocket
    <3>. QED
      BY <1>1, <3>1, <3>3, <3>4, <3>5 DEF Ending, Calling
  <2>. QED
    BY <1>16, <2>1, <2>2, <2>3, <2>4, <2>5, <2>6
    DEF ReceiverNext, Interrupt, MouseWithoutView, UnknownKey
<1>17. ASSUME NEW s \in Sockets, ServerCloses(s) PROVE OneView'
  BY <1>4, <1>17 DEF ServerCloses
<1>18. CASE Dropped \/ OnInterrupted
  <2>1. Deliver /\ UNCHANGED <<main, mMouseView, m_Service, tasks, socketVars>>
    BY <1>18 DEF Dropped, OnInterrupted, Deliver
  <2>2. \A i \in Nat : Pending(i)' => Pending(i + 1)
    BY <1>3, <2>1, PendingDelivered
  <2>3. Announced' => Announced
    BY <2>2 DEF Announced
  <2>4. \A i, j \in Nat : Pending(i)' /\ Pending(j)' => i = j
    BY <2>2
  <2>. QED
    BY <1>2, <2>1, <2>3, <2>4
<1>19. CASE OnConnected /\ ~ProcessDies
  <2>1. /\ Deliver /\ main' = "creating" /\ m_Service = "there"
        /\ UNCHANGED <<mMouseView, m_Service, tasks, socketVars>>
    BY <1>19 DEF OnConnected, Deliver
  <2>2. Pending(1)
    BY <1>3, <1>19 DEF OnConnected, Pending
  <2>3. \A i \in Nat : Pending(i)' => Pending(i + 1) /\ i > 0
    BY <1>3, <2>1, PendingDelivered
  <2>4. \A i \in Nat : ~Pending(i)'
    BY <2>2, <2>3
  <2>5. Announced
    BY <2>2 DEF Announced
  <2>. QED
    BY <1>2, <2>1, <2>4, <2>5 DEF Announced
<1>20. CASE CreateView
  BY <1>1, <1>20 DEF CreateView, Streaming, Calling
<1>21. CASE AddView /\ ~ProcessDies
  BY <1>1, <1>2, <1>21 DEF AddView
<1>22. CASE UNCHANGED vars
  BY <1>4, <1>22 DEF vars
<1>. QED
  BY <1>5, <1>6, <1>7, <1>8, <1>10, <1>11, <1>12, <1>13, <1>14, <1>15, <1>16, <1>17,
     <1>18, <1>19, <1>20, <1>21, <1>22
  DEF SteadyNext, OnBackPressed, MainNext, Handle, TaskNext, SocketVanishes

LEMMA ReportsStep ==
  ASSUME Typed, OneTask, OneSocket, OneView, Reports, [SteadyNext]_vars
  PROVE  Reports'
<1>. USE DEF Reports, activityVars, serviceVars, taskVars, socketVars
<1>1. CASE UNCHANGED <<mState, task, socket, receiver>>
  BY <1>1
<1>2. CASE SteadyLaunch \/ Pause \/ Resume \/ Destroy \/ TryConnect \/ OnServiceConnected
  BY <1>1, <1>2
  DEF SteadyLaunch, Launch, Pause, Resume, Destroy, TryConnect, OnServiceConnected
<1>3. CASE ProcessDies
  BY <1>3, Reborn
<1>4. ASSUME NEW s \in Sockets, Connect(s) PROVE Reports'
  BY <1>4 DEF Connect
<1>5. CASE Connected \/ OnServerConnected \/ MarkConnecting
  BY <1>5 DEF Connected, OnServerConnected, MarkConnecting
<1>6. CASE OnServerConnectionFailed
  <2>1. socket \in Sockets => receiver[socket] # "running"
    BY <1>6, AndroidAssumption
    DEF OnServerConnectionFailed, OneTask, OneSocket, Live, IsConnected
  <2>. QED
    BY <1>6, <2>1 DEF OnServerConnectionFailed
<1>7. CASE TaskReturns \/ SendConnected
  BY <1>7 DEF TaskReturns, SendConnected
<1>8. ASSUME NEW s \in Sockets, ReceiverNext(s), ~ProcessDies PROVE Reports'
  <2>1. Live(s)
    BY <1>8
    DEF ReceiverNext, Interrupt, MouseWithoutView, UnknownKey, LoseServer, ReadFails,
        HideCursor, SendInterrupted, OnDestroy, RemoveView, CloseSocket, Live
  <2>2. s = socket
    BY <2>1 DEF OneSocket
  <2>3. receiver'[s] # "running" \/ socket' = NoSocket
    BY <1>8, Interrupts DEF CloseSocket, Typed, TypeOK
  <2>4. socket' \in {s, NoSocket}
    BY <1>8, <2>2, Interrupts DEF CloseSocket, Typed, TypeOK
  <2>. QED
    BY <2>3, <2>4, AndroidAssumption
<1>9. ASSUME NEW s \in Sockets, ServerCloses(s) PROVE Reports'
  BY <1>1, <1>9 DEF ServerCloses
<1>10. CASE Dropped \/ OnInterrupted \/ (OnConnected /\ ~ProcessDies)
  BY <1>1, <1>10 DEF Dropped, OnInterrupted, OnConnected, Deliver
<1>11. CASE (CreateView \/ AddView) /\ ~ProcessDies
  BY <1>1, <1>11 DEF CreateView, AddView
<1>12. CASE UNCHANGED vars
  BY <1>1, <1>12 DEF vars
<1>. QED
  BY <1>2, <1>3, <1>4, <1>5, <1>6, <1>7, <1>8, <1>9, <1>10, <1>11, <1>12
  DEF SteadyNext, OnBackPressed, MainNext, Handle, TaskNext, SocketVanishes

-----------------------------------------------------------------------------
SteadyInv == Typed /\ OneTask /\ OneSocket /\ OneView /\ Reports

LEMMA AlwaysSteady == SteadySpec => []SteadyInv
<1>1. Init => SteadyInv
  BY TypeInit, SteadyInit DEF SteadyInv
<1>2. SteadyInv /\ [SteadyNext]_vars => SteadyInv'
  BY TypeStep, SteadyStep, OneTaskStep, OneSocketStep, OneViewStep, ReportsStep
  DEF SteadyInv
<1>. QED
  BY <1>1, <1>2, PTL DEF SteadySpec

(* There is never more than one connection (PassD.java:43, PassDService:64). *)
THEOREM NeverTwoConnections == SteadySpec => []OneConnection
<1>1. SteadyInv => OneConnection
  BY DEF SteadyInv, OneSocket, Live, OneConnection
<1>. QED
  BY <1>1, AlwaysSteady, PTL

(* A connection whose task is done and whose receiver reads on is not        *)
(* reported as IDLE, in whatever order the threads assign the state          *)
(* (PassDService.java:73, 218, 224, 231).                                    *)
THEOREM StandingIsReported == SteadySpec => []StandingNotIdle
<1>1. ASSUME SteadyInv PROVE StandingNotIdle
  <2>1. SUFFICES ASSUME tasks = 0, socket # NoSocket, receiver[socket] = "running"
                 PROVE  mState # "IDLE"
    BY DEF StandingNotIdle
  <2>2. task = "idle" /\ socket \in Sockets
    BY <1>1, <2>1 DEF SteadyInv, OneTask, Typed, TypeOK
  <2>. QED
    BY <1>1, <2>1, <2>2 DEF SteadyInv, Reports
<1>. QED
  BY <1>1, AlwaysSteady, PTL

(* Outside a receiver's callback an overlay that is up has the service and a *)
(* connection with its receiver (PassDService.java:117, 120, 129, 140).      *)
THEOREM ViewIsServed == SteadySpec => []ViewHasService
<1>1. ASSUME SteadyInv PROVE ViewHasService
  <2>1. SUFFICES ASSUME mMouseView, \A s \in Sockets : receiver[s] \notin Calling
                 PROVE  /\ m_Service = "there"
                        /\ socket # NoSocket /\ receiver[socket] = "running"
    BY DEF ViewHasService
  <2>2. socket \in Sockets /\ receiver[socket] = "running"
    BY <1>1, <2>1 DEF SteadyInv, OneView
  <2>. QED
    BY <1>1, <2>1, <2>2, AndroidAssumption DEF SteadyInv, OneView
<1>. QED
  BY <1>1, AlwaysSteady, PTL

(* A receiver closes the socket it read from (PassDSocket.java:243).         *)
THEOREM ReceiverClosesItsOwn == SteadySpec => ClosesItsOwn
<1>1. SteadyInv => \A s \in Sockets : CloseSocket(s) => socket \in {s, NoSocket}
  BY DEF SteadyInv, OneSocket, Live, CloseSocket
<1>2. SteadyInv => [\A s \in Sockets : CloseSocket(s) => socket \in {s, NoSocket}]_vars
  BY <1>1
<1>. QED
  BY <1>2, AlwaysSteady, PTL DEF ClosesItsOwn

=============================================================================
