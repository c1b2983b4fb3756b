---------------------------- MODULE MCSupervisor ----------------------------
(***************************************************************************)
(* Three attempts: one that is given up, one that follows it, and a third  *)
(* that the failure of the first lets in.  The child prints a port, as     *)
(* this package's does, or anything that another binary might.             *)
(***************************************************************************)
EXTENDS Supervisor
=============================================================================
