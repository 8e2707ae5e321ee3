---------------------------- MODULE MCTaskScope ----------------------------
(***************************************************************************)
(* TaskScope on small instances.  Children and worker tasks are numbered   *)
(* in the order they are started.                                          *)
(***************************************************************************)
EXTENDS TaskScope
=============================================================================
