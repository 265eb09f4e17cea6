---------------------------- MODULE MCSessionPool ----------------------------
(***************************************************************************)
(* SessionPool for TLC: one room that two workers may update at the same   *)
(* time.  pool.cfg has two periods and the invariants, workers.cfg one     *)
(* period and the liveness.                                                *)
(***************************************************************************)
EXTENDS SessionPool
=============================================================================
