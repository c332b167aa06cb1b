------------------------------- MODULE MCAckTx ------------------------------
(* AckTx for TLC.                                                          *)
EXTENDS AckTx
=============================================================================
