--------------------------- MODULE SteadyActivity ---------------------------
(***************************************************************************)
(* The Android client whose activity is not opened again while a connect   *)
(* task waits or runs.  A new activity would bind to the service, find no  *)
(* connection yet, and queue a second task: the first connection is then   *)
(* replaced, never closed, and its end closes the second.                  *)
(***************************************************************************)
EXTENDS PassDClient

SteadyLaunch == tasks = 0 /\ Launch

SteadyNext ==
  \/ SteadyLaunch \/ Pause \/ Resume \/ OnBackPressed
  \/ Destroy
  \/ MainNext
  \/ TaskNext
  \/ \E s \in Sockets : ReceiverNext(s) \/ ServerCloses(s)

SteadySpec == Init /\ [][SteadyNext]_vars /\ Scheduling

-----------------------------------------------------------------------------
(* A connection is made only when there is none (PassD.java:43), although    *)
(* isConnected is asked on one thread and connect runs later on another      *)
(* (PassD.java:44, PassDService.java:64).                                    *)
OneConnection ==
  \A s \in Sockets :
    conn[s] = "connected" \/ receiver[s] = "running" => s = socket

(* The service does not report IDLE over a connection that stands: its task  *)
(* is done and its receiver reads on.  The task and every receiver assign    *)
(* the state without a lock, and the IDLE of a connection that was lost must *)
(* not come after the states of one made since (PassDService.java:73, 218,   *)
(* 224, 231).                                                                *)
StandingNotIdle ==
  tasks = 0 /\ socket # NoSocket /\ receiver[socket] = "running" => mState # "IDLE"

(* While no receiver is in its callback, an overlay that is up belongs to a  *)
(* service that packets reach and to a connection whose receiver will take   *)
(* it down: the main thread makes and shows it (PassDService.java:129, 140,  *)
(* PassD.java:75) while a receiver may hide and remove it (117, 118, 120).   *)
ViewHasService ==
  mMouseView /\ (\A s \in Sockets : receiver[s] \notin Calling)
    => m_Service = "there" /\ socket # NoSocket /\ receiver[socket] = "running"

(* The receiver of a connection that is lost closes that connection, not one *)
(* made since: its callback comes first and lets the user connect again      *)
(* (PassDSocket.java:243).                                                   *)
ClosesItsOwn ==
  [][\A s \in Sockets : CloseSocket(s) => socket \in {s, NoSocket}]_vars

(* A connection the server has closed is closed here (PacketReceiver.java:79,*)
(* PassDSocket.java:241).                                                    *)
LossNoticed ==
  \A s \in Sockets :
    conn[s] = "connected" /\ peer[s] = "closed" ~> conn[s] # "connected"

=============================================================================
