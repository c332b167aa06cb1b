------------------------------- MODULE MCMlme -------------------------------
(* Instance of Mlme for model checking.                                    *)
EXTENDS Mlme
=============================================================================
