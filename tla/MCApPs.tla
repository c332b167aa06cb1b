------------------------------- MODULE MCApPs -------------------------------
(* ApPs for TLC: the configurations give the constants their values.       *)
EXTENDS ApPs
=============================================================================
