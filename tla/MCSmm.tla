--------------------------------- MODULE MCSmm ---------------------------------
(* A small instance of SmmDatabase for TLC. *)
EXTENDS SmmDatabase

NoModes == {}
================================================================================
