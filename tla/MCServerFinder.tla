--------------------------- MODULE MCServerFinder ---------------------------
(***************************************************************************)
(* ServerFinder on small instances: addresses are interchangeable, and so  *)
(* are transports.                                                         *)
(***************************************************************************)
EXTENDS ServerFinder, TLC

FinderSymmetry == Permutations(Url) \cup Permutations(Tp)
=============================================================================
