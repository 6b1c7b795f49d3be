---------------------------- MODULE MCThreadPool ----------------------------
(***************************************************************************)
(* Two workers, two threads that enqueue three tasks, and one spurious     *)
(* wakeup.                                                                 *)
(***************************************************************************)
EXTENDS ThreadPoolProperties
=============================================================================
