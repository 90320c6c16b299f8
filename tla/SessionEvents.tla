---------------------------- MODULE SessionEvents ----------------------------
(***************************************************************************)
(* What ClientImpl relies on in a ServerFinder (ucorf/server_finder.h):    *)
(* on_connect_ runs once for every session that comes up, on_disconnect_   *)
(* once for every session that ended, until the finder is destroyed.       *)
(* ClientCall's actions Connect, Drop and SessionClose assume this.        *)
(***************************************************************************)
EXTENDS Naturals

CONSTANT Tp   \* transports

VARIABLES
  est,    \* IsEstab() of each transport
  told,   \* calls of on_connect_ less calls of on_disconnect_
  owed,   \* ended sessions that the client has not been told of
  alive   \* is the finder there?

sessVars == <<est, told, owed, alive>>

Init ==
  /\ est  = [t \in Tp |-> FALSE]
  /\ told = [t \in Tp |-> 0]
  /\ owed = [t \in Tp |-> 0]
  /\ alive = TRUE

Up(t) ==
  /\ ~est[t]
  /\ est'  = [est EXCEPT ![t] = TRUE]
  /\ told' = [told EXCEPT ![t] = @ + 1]
  /\ UNCHANGED <<owed, alive>>

Down(t) ==
  /\ est[t]
  /\ est'  = [est EXCEPT ![t] = FALSE]
  /\ owed' = [owed EXCEPT ![t] = @ + 1]
  /\ UNCHANGED <<told, alive>>

TellEnd(t) ==
  /\ owed[t] > 0
  /\ owed' = [owed EXCEPT ![t] = @ - 1]
  /\ told' = [told EXCEPT ![t] = @ - 1]
  /\ UNCHANGED <<est, alive>>

Destroy == alive /\ alive' = FALSE /\ UNCHANGED <<est, told, owed>>

(* Nothing is promised once the finder is gone.                            *)
Gone == ~alive /\ UNCHANGED alive

Next ==
  \/ \E t \in Tp : Up(t) \/ Down(t) \/ TellEnd(t)
  \/ Destroy
  \/ Gone

Spec == Init /\ [][Next]_sessVars
=============================================================================
