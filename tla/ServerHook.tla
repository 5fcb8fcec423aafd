----------------------------- MODULE ServerHook -----------------------------
(***************************************************************************)
(* The hook DLL of the Windows server (src/windows/passU/ServerHook).      *)
(*                                                                         *)
(* The server's screen is the centre (cell 5) of a 3x3 grid.  A client's   *)
(* screen is placed on one of the nine cells by binding its id to a button *)
(* of the dialog (button b is cell b + 1).  The DLL keeps a copy of these  *)
(* bindings, the cell the pointer is in, and BLOCK, which makes the hook   *)
(* procedures withhold the keyboard and the mouse buttons from the server. *)
(*                                                                         *)
(* Hook procedures and window procedure run on the dialog's thread and are *)
(* entered by SendMessage, so the operators below are parts of one step of *)
(* the module that extends this one (PassUServer).                         *)
(***************************************************************************)
EXTENDS Integers

VARIABLES
  hooks,     (* hook procedures installed and not removed; each             *)
             (* installation overwrites g_hMouseHook and g_hKeyboardHook     *)
  hookBind,  (* btn_Bind of the DLL: button -> client id, 0 for none         *)
  hookPoint, (* whereisPoint of the DLL, 0 until hooks are installed         *)
  BLOCK      (* input is withheld from the server                            *)

hookVars == <<hooks, hookBind, hookPoint, BLOCK>>

Buttons == 0 .. 8
Cells   == 1 .. 9
Centre  == 5             (* the server's own cell *)

(* The cells a pointer can reach from the centre, each named after the      *)
(* screen edge that leads to it: 4 left, 2 top, 6 right, 8 bottom.          *)
Sides   == {2, 4, 6, 8}

(* The edge of a client's screen that faces the server.                     *)
Opposite(edge) == 10 - edge

ButtonOf(cell) == cell - 1

HookTypeOK ==
  /\ hooks \in Nat
  /\ hookBind \in [Buttons -> Int]
  /\ hookPoint \in {0, Centre} \union Sides
  /\ BLOCK \in BOOLEAN

HookInit ==
  /\ hooks = 0
  /\ hookBind = [b \in Buttons |-> 0]
  /\ hookPoint = 0
  /\ BLOCK = FALSE

-----------------------------------------------------------------------------
(* Variant of InstallHooks that resets BLOCK with the rest.                  *)
InstallHooksUnblocked ==
  /\ hooks' = hooks + 1
  /\ hookBind' = [b \in Buttons |-> 0]
  /\ hookPoint' = Centre
  /\ BLOCK' = FALSE

(* InstallKeyboardHook and InstallMouseHook: bindings and cell start afresh, *)
(* BLOCK does not.                                                           *)
InstallHooks ==
  /\ hooks' = hooks + 1
  /\ hookBind' = [b \in Buttons |-> 0]
  /\ hookPoint' = Centre
  /\ UNCHANGED BLOCK

(* WM_BINDED_CLIENT *)
BindedClient(button, client) ==
  /\ hookBind' = [hookBind EXCEPT ![button] = client]
  /\ UNCHANGED <<hooks, hookPoint, BLOCK>>

(* Variants of ChildClose: the binding stays, the input stays withheld.      *)
ChildCloseKeepsBinding(button) ==
  /\ hookPoint' = Centre
  /\ BLOCK' = FALSE
  /\ UNCHANGED <<hooks, hookBind>>

ChildCloseKeepsBlock(button) ==
  /\ hookBind' = [hookBind EXCEPT ![button] = 0]
  /\ hookPoint' = Centre
  /\ UNCHANGED <<hooks, BLOCK>>

(* WM_CHILDCLOSE *)
ChildClose(button) ==
  /\ hookBind' = [hookBind EXCEPT ![button] = 0]
  /\ hookPoint' = Centre
  /\ BLOCK' = FALSE
  /\ UNCHANGED hooks

(* WM_INPUTDEVICE_TRUE *)
InputDeviceTrue ==
  /\ BLOCK' = FALSE
  /\ UNCHANGED <<hooks, hookBind, hookPoint>>

(* WM_MOUSEMOVE at an edge of the screen, the pointer on the server and a    *)
(* client placed beyond that edge.  A pointer in a corner of the screen is   *)
(* at two edges and the procedure tries one of them: either is a choice here.*)
LeaveOver(edge) ==
  /\ hooks > 0
  /\ hookPoint = Centre
  /\ hookBind[ButtonOf(edge)] # 0
  /\ BLOCK' = TRUE
  /\ hookPoint' = edge
  /\ UNCHANGED <<hooks, hookBind>>

(* WM_MOUSEMOVE at the edge that faces the server, the pointer on a client.  *)
ReturnOver(edge) ==
  /\ hooks > 0
  /\ hookPoint = Opposite(edge)
  /\ hookBind[ButtonOf(hookPoint)] # 0
  /\ BLOCK' = FALSE
  /\ hookPoint' = Centre
  /\ UNCHANGED <<hooks, hookBind>>

(* Key and button events the hook procedures return TRUE for do not reach    *)
(* the server's own windows: its user can then neither click nor type.  Keys *)
(* pressed together with Alt are other messages, which always pass and are   *)
(* forwarded to nobody.                                                      *)
Withheld == hooks > 0 /\ BLOCK

=============================================================================
