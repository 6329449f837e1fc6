----------------------------- MODULE MCSleepers -----------------------------
(***************************************************************************)
(* Instances of Sleepers for TLC.                                          *)
(***************************************************************************)
EXTENDS Sleepers

(* Only A swaps, B is throttled by the swaps of A.                         *)
MCRequests ==
  [A |-> {"FakeInput", "SwapBuffers", "WaitSBC", "WaitMSC", "KillClient"},
   B |-> {"FakeInput", "GetBuffers", "WaitMSC", "OpenFont", "DestroyDrawable"}]
=============================================================================
