---------------------------- MODULE MCDSSpawner ----------------------------
(***************************************************************************)
(* Instances of DSSpawner for TLC.  Request threads are interchangeable;   *)
(* players are not, since the smallest uin inherits a room.                *)
(***************************************************************************)
EXTENDS DSSpawner, TLC

WorkerSymmetry == Permutations(Workers)
=============================================================================
