---------------------------- MODULE MCRxReorder ----------------------------
(***************************************************************************)
(* The receive window on small instances.  The space has 16 numbers and    *)
(* the stream starts near its end, so that every run crosses the wrap.     *)
(***************************************************************************)
EXTENDS RxReorder
=============================================================================
