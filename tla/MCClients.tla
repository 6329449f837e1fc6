------------------------------ MODULE MCClients ------------------------------
(***************************************************************************)
(* Instances of Clients for TLC.  The constants are given in the .cfg of   *)
(* each run.                                                               *)
(***************************************************************************)
EXTENDS Clients

(* A server that has ended stays ended: it is not a deadlock.              *)
Ended == At("done") /\ UNCHANGED vars

MCSpec == Init /\ [][Next \/ Ended]_vars
=============================================================================
