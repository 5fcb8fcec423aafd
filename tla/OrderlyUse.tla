----------------------------- MODULE OrderlyUse -----------------------------
(***************************************************************************)
(* The server under an orderly use, in which it keeps all its promises:    *)
(*   - a connection is made once the one before has said hello, fewer than *)
(*     NSlots at a time, and ends after its own hello;                     *)
(*   - clients leave in the reverse of the order they came in;             *)
(*   - nobody comes or goes while the user drags a client;                 *)
(*   - a client that is on a button is taken off it before it is put on    *)
(*     another, and only the four side buttons are used;                   *)
(*   - a question is answered with the pointer on the server;              *)
(*   - the server is stopped with no client on a button.                   *)
(* Each restriction is on what clients and user do.  The handlers are      *)
(* those of PassUServer, whose other runs show what breaks without them.   *)
(***************************************************************************)
EXTENDS PassUServer

Placed(id) == \E b \in Buttons : btn_Bind[b] = id

OrderlyStop == (\A b \in Buttons : btn_Bind[b] = 0) /\ Stop

OrderlyAccept(s) ==
  /\ \A t \in Sockets : phase[t] # "accepted"
  /\ Len(m_pSockList) + 1 < NSlots
  /\ Accept(s)

OrderlyHello(s) ==
  /\ m_nSource = 0
  /\ \E status \in Statuses \intersect KnownStatuses : Hello(s, status)

OrderlyClose(s) ==
  /\ m_nSource = 0
  /\ s \in Connected
  /\ phase[s] # "accepted"
  /\ s = Last(m_pSockList)
  /\ CloseChild(s)

OrderlyDrop(button) ==
  /\ button + 1 \in Sides
  /\ ~Placed(Dragged)
  /\ DropOn(button)

OrderlyAnswer == ~Withheld /\ (AnswerYes \/ AnswerNo)

OrderlyNext ==
  \/ Start
  \/ OrderlyStop
  \/ \E s \in Sockets :
       OrderlyAccept(s) \/ OrderlyHello(s) \/ Bye(s) \/ OrderlyClose(s)
  \/ \E n \in 1 .. NSlots : BeginDrag(n)
  \/ \E button \in DropTargets : OrderlyDrop(button)
  \/ DropOutside
  \/ \E edge \in Sides : ClickButton(ButtonOf(edge))
  \/ OrderlyAnswer
  \/ \E edge \in Sides : CrossToClient(edge) \/ CrossToServer(edge)
  \/ TwoSecondsPass
  \/ OnTimer

OrderlySpec == Init /\ [][OrderlyNext]_vars /\ TimerFairness

-----------------------------------------------------------------------------
(* Every client that has said hello owns a slot, has been told its id, and   *)
(* the size kept under that id is its own: the hello handler's position in   *)
(* the list (Server.cpp:440) names the socket the hello came from.           *)
HelloReachesItsSender ==
  /\ ClientKnowsItsId
  /\ \A s \in Connected : phase[s] # "accepted" => screen[c_id[s]] = s

(* The two copies of the bindings agree, and so do the two copies of the     *)
(* pointer's cell once hooks are installed (ServerHook.cpp:39, Server.h:78,  *)
(* PassUDlg.cpp:973), after every order of drops, confirmations, departures, *)
(* restarts and crossings.                                                   *)
HookMirrorsDialog ==
  /\ hookBind = btn_Bind
  /\ hooks > 0 => hookPoint = whereisPoint

(* A button carries the id of a client that is connected: a departure clears *)
(* the button its position names (PassUDlg.cpp:612).                         *)
BindingsNameClients ==
  \A b \in Buttons : btn_Bind[b] # 0 => \E s \in Connected : c_id[s] = btn_Bind[b]

(* The user is never locked out: while input is withheld the hook takes the  *)
(* pointer for a client's and knows a client there, so that moving to the    *)
(* facing edge gives the input back (ServerHook.cpp:331).                    *)
CanReturn ==
  Withheld => hookPoint \in Sides /\ hookBind[ButtonOf(hookPoint)] # 0

(* The server keeps the promise of InputFocus.                               *)
Focus == INSTANCE InputFocus
  WITH Clients <- Sockets, Server <- "server", members <- Connected,
       focus <- IF Withheld THEN ForwardTarget ELSE "server"

KeepsFocus == Focus!FocusSpec

=============================================================================
