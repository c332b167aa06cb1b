---------------------------- MODULE MCCmdThread ----------------------------
(***************************************************************************)
(* The command thread with two objects, so that a freed object is at once  *)
(* allocated again by another caller, and two callers, one that waits and  *)
(* one that does not.                                                      *)
(***************************************************************************)
EXTENDS CmdThread
=============================================================================
