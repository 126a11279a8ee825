------------------------------ MODULE MCEntries ------------------------------
(***************************************************************************)
(* Two entries whose serials end alike, and one charger seen over          *)
(* Bluetooth under the name that they share.                               *)
(***************************************************************************)
EXTENDS Entries

SameSuffix == [e \in Entries |-> "c5d6"]

InRange == [suffix : {"c5d6"}, address : Addresses]
=============================================================================
