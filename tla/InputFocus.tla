----------------------------- MODULE InputFocus -----------------------------
(***************************************************************************)
(* What the server promises its user: the keyboard and the mouse act on    *)
(* one machine at a time, the server or a client that is connected; they   *)
(* move between the server and one client, never from client to client;    *)
(* and they are back at the server when a client leaves.                   *)
(***************************************************************************)

CONSTANTS
  Clients,  (* machines that may connect *)
  Server    (* the server itself         *)

VARIABLES
  members,  (* the clients that are connected     *)
  focus     (* the machine that receives the input *)

focusVars == <<members, focus>>

FocusInit == members = {} /\ focus = Server

Join(c) ==
  /\ c \in Clients \ members
  /\ members' = members \union {c}
  /\ UNCHANGED focus

Leave(c) ==
  /\ c \in members
  /\ members' = members \ {c}
  /\ focus' = Server

Shutdown ==
  /\ focus = Server
  /\ members' = {}
  /\ UNCHANGED focus

GoTo(c) ==
  /\ focus = Server
  /\ c \in members
  /\ focus' = c
  /\ UNCHANGED members

Return ==
  /\ focus' = Server
  /\ UNCHANGED members

FocusNext ==
  \/ \E c \in Clients : Join(c) \/ Leave(c) \/ GoTo(c)
  \/ Shutdown
  \/ Return

FocusSpec == FocusInit /\ [][FocusNext]_focusVars

=============================================================================
