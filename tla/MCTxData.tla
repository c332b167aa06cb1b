------------------------------ MODULE MCTxData ------------------------------
(***************************************************************************)
(* The data transmit path on a small instance: two frames, so the second   *)
(* one stops its kernel queue (at no free frame instead of four), and one  *)
(* buffer, so the second one waits.                                        *)
(***************************************************************************)
EXTENDS TxData
=============================================================================
