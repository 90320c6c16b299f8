----------------------------- MODULE Dispatcher -----------------------------
(***************************************************************************)
(* What ClientImpl relies on in an IDispatcher (ucorf/dispatcher.h): it    *)
(* holds the transports that were added and not deleted, and Get returns   *)
(* one of them, or null if and only if it holds none.  RobinDispatcher and *)
(* ConHash implement this; ClientCall's variable dispatcher is held.       *)
(***************************************************************************)
EXTENDS Naturals

CONSTANTS
  Tp,     \* transports
  NoTp    \* the null transport

VARIABLES
  held,   \* how often each transport is held
  got,    \* what the last Get returned
  sound   \* is the dispatcher used in the way that it supports?

dispVars == <<held, got, sound>>

Init == held = [t \in Tp |-> 0] /\ got = NoTp /\ sound \in BOOLEAN

Add(t) == held' = [held EXCEPT ![t] = @ + 1] /\ UNCHANGED got

Del(t) == /\ held[t] > 0
          /\ held' = [held EXCEPT ![t] = @ - 1]
          /\ UNCHANGED got

Get == /\ got' \in {t \in Tp : held[t] > 0}
       /\ UNCHANGED held

GetNone == /\ \A t \in Tp : held[t] = 0
           /\ got' = NoTp
           /\ UNCHANGED held

(* Nothing is promised of another use.                                     *)
Next == \/ \E t \in Tp : Add(t) \/ Del(t)
        \/ Get
        \/ GetNone
        \/ UNCHANGED <<held, got>>
        \/ ~sound'

Spec == Init /\ [][Next]_dispVars
=============================================================================
