----------------------------- MODULE MCConHash ------------------------------
(***************************************************************************)
(* ConHash on a ring of 8 codes.  The second virtual names of keys 1 and 2 *)
(* collide at 5, and the two names of key 3 are the ends of the ring.      *)
(***************************************************************************)
EXTENDS ConHash

MCPoints ==
  [on \in {1, 2, 3} \X {1, 2} |->
     LET first  == <<1, 2, 7>>
         second == <<5, 5, 0>>
     IN {first[on[1]]} \cup IF on[2] = 2 THEN {second[on[1]]} ELSE {}]

CONSTANTS t1, t2, t3

(* t1 has key 1 and the others any key, and the hash tag function may      *)
(* change.                                                                 *)
SomeTags == {f \in [{t1, t2, t3} -> {1, 2, 3}] : f[t1] = 1}
=============================================================================
