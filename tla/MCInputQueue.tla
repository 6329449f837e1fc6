---------------------------- MODULE MCInputQueue ----------------------------
(***************************************************************************)
(* Instances of InputQueue for TLC.                                        *)
(***************************************************************************)
EXTENDS InputQueue, TLC

(* Devices are interchangeable.                                            *)
DeviceSymmetry == Permutations(Device)
=============================================================================
