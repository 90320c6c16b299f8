---------------------------- MODULE MCClientCall ----------------------------
(***************************************************************************)
(* ClientCall on small instances: callers are interchangeable, and so are  *)
(* transports, in a run that checks no liveness.                           *)
(***************************************************************************)
EXTENDS ClientCall, TLC

CallerSymmetry == Permutations(Caller) \cup Permutations(Conn)
=============================================================================
