--------------------------- MODULE MCDeviceGrabs ---------------------------
(***************************************************************************)
(* An instance of DeviceGrabs for TLC: two clients, a window and its       *)
(* parent.                                                                 *)
(***************************************************************************)
EXTENDS DeviceGrabs

MCWindows == <<"root", "window">>
MCSelecting == {<<"A", "window">>}
MCOwner == [root |-> NoClient, window |-> NoClient]

Request(c, d, w, pointerMode, keyboardMode) ==
  [client |-> c, dev |-> d, window |-> w, modes |-> <<pointerMode, keyboardMode>>]

(* Passive grabs of two clients on two windows, one below the other, and   *)
(* a keyboard grab.                                                        *)
MCActive == {Request("B", "keyboard", "window", "Async", "Sync")}
MCPassive == {Request("A", "pointer", "root", "Sync", "Async"),
              Request("B", "pointer", "window", "Sync", "Sync")}
=============================================================================
