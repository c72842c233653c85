------------------------------ MODULE MCBridge ------------------------------
(***************************************************************************)
(* Instances of Bridge for TLC: clients and datagrams are interchangeable. *)
(***************************************************************************)
EXTENDS Bridge, TLC

ClientPacketSymmetry == Permutations(Clients) \cup Permutations(Packets)
=============================================================================
