------------------------------ MODULE MCOsTimer ------------------------------
(***************************************************************************)
(* Instances of OsTimer for TLC.                                           *)
(***************************************************************************)
EXTENDS OsTimer, TLC
=============================================================================
