------------------------------ MODULE MCApSta ------------------------------
(* Instances of ApSta for TLC.                                             *)
EXTENDS ApSta
=============================================================================
