---------------------------- MODULE MCScheduler ----------------------------
(***************************************************************************)
(* A small instance of Scheduler for TLC.                                  *)
(***************************************************************************)
EXTENDS Scheduler

OneHeartbeat ==
    {[country |-> "US", avgRTT |-> 300, lossRate |-> Nil, seenAt |-> 0]}
=============================================================================
