------------------------- MODULE ServerFinderProofs -------------------------
(***************************************************************************)
(* Proofs about ServerFinder, for every number of addresses, transports    *)
(* and sessions.                                                           *)
(***************************************************************************)
EXTENDS ServerFinder, FiniteSetTheorems, TLAPS

Places == {"connect", "sleep", "check"}

(* The types; a destroyed finder has no handler but RecursiveConnect's     *)
(* check at work; only single mode has a first ReConnect.                  *)
FinderInv ==
  /\ alive \in BOOLEAN
  /\ transports \in [Url -> Tp \cup {NoTp}]
  /\ urlOf \in [Tp -> Url \cup {NoUrl}]
  /\ est \in [Tp -> BOOLEAN]
  /\ loops \in [Tp -> [Places -> Nat]]
  /\ ended \in [Tp -> Nat]
  /\ told \in [Tp -> Int]
  /\ missed \subseteq Tp
  /\ telling \in Tp \cup {NoTp}
  /\ ~alive => telling = NoTp /\ ~childs
  /\ first => mode = "single"

LEMMA PlacesOfLoops ==
  /\ DOMAIN NoLoops = Places
  /\ NoLoops \in [Places -> Nat]
  /\ [NoLoops EXCEPT !.connect = 1] \in [Places -> Nat]
  BY DEF NoLoops, Places

(* One coroutine fewer where it came from, one more where it went.         *)
LEMMA MoveEffect ==
  ASSUME FinderInv, NEW t \in Tp,
         NEW from \in Places \cup {"none"}, NEW to \in Places \cup {"none"},
         from # "none" => loops[t][from] > 0,
         Move(t, from, to)
  PROVE  /\ loops' \in [Tp -> [Places -> Nat]]
         /\ \A u \in Tp : u # t => loops'[u] = loops[u]
         /\ loops'[t].check = loops[t].check + (IF to = "check" THEN 1 ELSE 0)
                                             - (IF from = "check" THEN 1 ELSE 0)
         /\ to \notin {from, "none"} => loops'[t][to] > 0
  <1>1. loops \in [Tp -> [Places -> Nat]]
    BY DEF FinderInv
  <1> DEFINE new == [at \in Places |->
                       loops[t][at] + (IF at = to THEN 1 ELSE 0)
                                    - (IF at = from THEN 1 ELSE 0)]
  <1>2. loops' = [loops EXCEPT ![t] = new]
    BY PlacesOfLoops DEF Move
  <1>3. new \in [Places -> Nat]
    <2>1. \A at \in Places : new[at] \in Nat
      BY <1>1 DEF Places
    <2> QED
      BY <2>1
  <1>4. loops'[t] = new /\ \A u \in Tp : u # t => loops'[u] = loops[u]
    BY <1>1, <1>2
  <1>5. to \notin {from, "none"} => new[to] = loops[t][to] + 1 /\ loops[t][to] \in Nat
    BY <1>1
  <1>6. "check" \in Places
    BY DEF Places
  <1> QED
    BY <1>1, <1>2, <1>3, <1>4, <1>5, <1>6

LEMMA ModeIsFixed == [Next]_vars => mode' = mode
  BY DEF Next, vars, FirstConnect, ReConnect, LoopConnect, LoopWake, LoopCheck,
     Drop,
         OnDisconnectedDropped, OnDisconnected, TellClient, ShutdownMissed,
         OnZookeeperChilds, ChildsEnd, Destroy

LEMMA FinderInit == Init => FinderInv
  <1> SUFFICES ASSUME Init PROVE FinderInv
    OBVIOUS
  <1>1. /\ transports \in [Url -> Tp \cup {NoTp}]
        /\ urlOf \in [Tp -> Url \cup {NoUrl}]
    BY DEF Init
  <1>2. loops \in [Tp -> [Places -> Nat]]
    BY PlacesOfLoops DEF Init
  <1>3. first => mode = "single"
    BY DEF Init
  <1> QED
    BY <1>1, <1>2, <1>3 DEF Init, FinderInv

(* What a connection attempt does to est and told.                         *)
LEMMA SessionTypes ==
  ASSUME FinderInv, NEW t \in Tp, Established(t) \/ UNCHANGED sessionVars
  PROVE  est' \in [Tp -> BOOLEAN] /\ told' \in [Tp -> Int]
  <1>1. CASE Established(t)
    BY <1>1 DEF Established, FinderInv
  <1>2. CASE UNCHANGED sessionVars
    BY <1>2 DEF sessionVars, FinderInv
  <1> QED
    BY <1>1, <1>2

LEMMA FinderStep == FinderInv /\ [Next]_vars => FinderInv'
  <1> SUFFICES ASSUME FinderInv, [Next]_vars PROVE FinderInv'
    OBVIOUS
  <1> USE DEF FinderInv, sessionVars, downVars, childVars
  <1>1. ASSUME NEW t \in Tp, FirstConnect(t) PROVE FinderInv'
    <2>1. est' \in [Tp -> BOOLEAN] /\ told' \in [Tp -> Int]
      BY <1>1, SessionTypes DEF FirstConnect
    <2> QED
      BY <1>1, <2>1 DEF FirstConnect
  <1>2. ASSUME NEW t \in Tp, ReConnect(t) PROVE FinderInv'
    BY <1>2 DEF ReConnect, Established
  <1>3. ASSUME NEW t \in Tp, LoopConnect(t) PROVE FinderInv'
    <2>1. loops' \in [Tp -> [Places -> Nat]]
      BY <1>3, MoveEffect DEF LoopConnect, Places
    <2>2. est' \in [Tp -> BOOLEAN] /\ told' \in [Tp -> Int]
      BY <1>3, SessionTypes DEF LoopConnect
    <2> QED
      BY <1>3, <2>1, <2>2 DEF LoopConnect
  <1>4. ASSUME NEW t \in Tp, LoopWake(t) PROVE FinderInv'
    <2>1. loops' \in [Tp -> [Places -> Nat]]
      BY <1>4, MoveEffect DEF LoopWake, Places
    <2> QED
      BY <1>4, <2>1 DEF LoopWake
  <1>5. ASSUME NEW t \in Tp, LoopCheck(t) PROVE FinderInv'
    <2>1. loops' \in [Tp -> [Places -> Nat]]
      BY <1>5, MoveEffect DEF LoopCheck, Places
    <2> QED
      BY <1>5, <2>1 DEF LoopCheck
  <1>6. ASSUME NEW t \in Tp, Drop(t) PROVE FinderInv'
    BY <1>6 DEF Drop, SessionEnds
  <1>7. ASSUME NEW t \in Tp, OnDisconnectedDropped(t) PROVE FinderInv'
    BY <1>7 DEF OnDisconnectedDropped
  <1>8. ASSUME NEW t \in Tp, OnDisconnected(t) PROVE FinderInv'
    <2>1. loops' \in [Tp -> [Places -> Nat]]
      BY <1>8, MoveEffect DEF OnDisconnected, Places
    <2>2. ended' \in [Tp -> Nat]
      BY <1>8 DEF OnDisconnected
    <2> QED
      BY <1>8, <2>1, <2>2 DEF OnDisconnected
  <1>9. ASSUME NEW t \in Tp, TellClient(t) PROVE FinderInv'
    BY <1>9 DEF TellClient
  <1>10. ASSUME NEW t \in Tp, ShutdownMissed(t) PROVE FinderInv'
    <2>1. est' \in [Tp -> BOOLEAN] /\ ended' \in [Tp -> Nat]
      <3>1. CASE SessionEnds(t)
        BY <3>1 DEF SessionEnds
      <3>2. CASE UNCHANGED <<est, ended>>
        BY <3>2
      <3> QED
        BY <1>10, <3>1, <3>2 DEF ShutdownMissed
    <2> QED
      BY <1>10, <2>1 DEF ShutdownMissed
  <1>11. ASSUME NEW S \in SUBSET Url, OnZookeeperChilds(S) PROVE FinderInv'
    <2>1. PICK new \in [S \ Listed -> Unused] :
            /\ transports' = [u \in Url |-> IF u \notin S THEN NoTp
                                ELSE IF u \in Listed THEN transports[u] ELSE new[u]]
            /\ urlOf' = [t \in Tp |-> IF \E u \in DOMAIN new : new[u] = t
                                      THEN CHOOSE u \in DOMAIN new : new[u] = t
                                      ELSE urlOf[t]]
            /\ loops' = [t \in Tp |-> IF \E u \in DOMAIN new : new[u] = t
                                      THEN [NoLoops EXCEPT !.connect = 1] ELSE loops[t]]
      BY <1>11 DEF OnZookeeperChilds
    <2>2. transports' \in [Url -> Tp \cup {NoTp}]
      BY <2>1 DEF Listed, Unused
    <2>3. urlOf' \in [Tp -> Url \cup {NoUrl}]
      <3>1. ASSUME NEW t \in Tp, \E u \in DOMAIN new : new[u] = t
            PROVE  (CHOOSE u \in DOMAIN new : new[u] = t) \in Url
        BY <3>1
      <3> QED
        BY <2>1, <3>1
    <2>4. loops' \in [Tp -> [Places -> Nat]]
      BY <2>1, PlacesOfLoops
    <2>5. missed' \subseteq Tp
      BY <1>11 DEF OnZookeeperChilds, Listed
    <2> QED
      BY <1>11, <2>2, <2>3, <2>4, <2>5 DEF OnZookeeperChilds
  <1>12. CASE ChildsEnd
    BY <1>12 DEF ChildsEnd
  <1>13. CASE Destroy
    BY <1>13 DEF Destroy, Locked
  <1>14. CASE UNCHANGED vars
    BY <1>14 DEF vars
  <1> QED
    BY <1>1, <1>2, <1>3, <1>4, <1>5, <1>6, <1>7, <1>8, <1>9, <1>10, <1>11,
       <1>12, <1>13, <1>14 DEF Next

THEOREM FinderTypes == Spec => []FinderInv
  BY FinderInit, FinderStep, PTL DEF Spec
-----------------------------------------------------------------------------
(* The sum of the coroutines of a transport after one of them moved.       *)
LEMMA MoveLoops ==
  ASSUME FinderInv, NEW t \in Tp,
         NEW from \in Places \cup {"none"}, NEW to \in Places \cup {"none"},
         from # "none" => loops[t][from] > 0,
         Move(t, from, to)
  PROVE  /\ \A u \in Tp : u # t => Loops(u)' = Loops(u)
         /\ Loops(t)' = Loops(t) + (IF to = "none" THEN 0 ELSE 1)
                                - (IF from = "none" THEN 0 ELSE 1)
  <1>1. loops \in [Tp -> [Places -> Nat]]
    BY DEF FinderInv
  <1>2. /\ \A u \in Tp : u # t => loops'[u] = loops[u]
        /\ \A at \in Places :
             loops'[t][at] = loops[t][at] + (IF at = to THEN 1 ELSE 0)
                                          - (IF at = from THEN 1 ELSE 0)
    <2> DEFINE new == [at \in Places |-> loops[t][at] + (IF at = to THEN 1 ELSE 0)
                                                     - (IF at = from THEN 1 ELSE 0)]
    <2>1. loops' = [loops EXCEPT ![t] = new]
      BY PlacesOfLoops DEF Move
    <2>2. loops'[t] = new /\ \A u \in Tp : u # t => loops'[u] = loops[u]
      BY <1>1, <2>1
    <2> QED
      BY <2>2
  <1>3. \A at \in Places : loops[t][at] \in Nat
    BY <1>1
  <1>4. /\ loops'[t]["connect"] = loops[t]["connect"] + (IF "connect" = to THEN 1 ELSE 0)
                                  - (IF "connect" = from THEN 1 ELSE 0)
        /\ loops'[t]["sleep"] = loops[t]["sleep"] + (IF "sleep" = to THEN 1 ELSE 0)
                                  - (IF "sleep" = from THEN 1 ELSE 0)
        /\ loops'[t]["check"] = loops[t]["check"] + (IF "check" = to THEN 1 ELSE 0)
                                  - (IF "check" = from THEN 1 ELSE 0)
    BY <1>2 DEF Places
  <1>5. \A u \in Tp : u # t => Loops(u)' = Loops(u)
    BY <1>2 DEF Loops
  <1>6. Loops(t)' = loops'[t]["connect"] + loops'[t]["sleep"] + loops'[t]["check"]
    BY DEF Loops
  <1>7. Loops(t) = loops[t]["connect"] + loops[t]["sleep"] + loops[t]["check"]
    BY DEF Loops
  <1>8. loops[t]["connect"] \in Nat /\ loops[t]["sleep"] \in Nat /\ loops[t]["check"] \in Nat
    BY <1>3 DEF Places
  <1>9. Loops(t)' = Loops(t) + (IF to = "none" THEN 0 ELSE 1)
                             - (IF from = "none" THEN 0 ELSE 1)
    <2>1. /\ from \in {"connect", "sleep", "check", "none"}
          /\ to \in {"connect", "sleep", "check", "none"}
      BY DEF Places
    <2> QED
      BY <1>4, <1>6, <1>7, <1>8, <2>1
  <1> QED
    BY <1>5, <1>9

LEMMA EffortNat == ASSUME FinderInv, NEW t \in Tp
                   PROVE  Loops(t) \in Nat /\ Efforts(t) \in Nat
  <1>1. \A at \in Places : loops[t][at] \in Nat
    BY DEF FinderInv
  <1>2. Loops(t) \in Nat
    BY <1>1 DEF Loops, Places
  <1> QED
    BY <1>2 DEF Efforts, FinderInv

(* No transport has more than one effort, and one that was not created has *)
(* none.                                                                   *)
EffortInv ==
  mode = "zk" => \A t \in Tp : /\ Efforts(t) <= 1
                               /\ urlOf[t] = NoUrl => Efforts(t) = 0

(* In zookeeper mode only OnZookeeperChilds adds an effort.                *)
LEMMA EffortsShrink ==
  ASSUME FinderInv, mode = "zk", NEW t \in Tp,
         \/ LoopConnect(t) \/ LoopWake(t) \/ LoopCheck(t) \/ Drop(t)
         \/ OnDisconnectedDropped(t) \/ OnDisconnected(t) \/ TellClient(t)
         \/ ShutdownMissed(t)
  PROVE  urlOf' = urlOf /\ \A u \in Tp : Efforts(u)' <= Efforts(u)
  <1> USE EffortNat DEF FinderInv, sessionVars, downVars, childVars
  <1>1. ASSUME NEW u \in Tp PROVE Loops(u) \in Nat /\ ended[u] \in Nat
    OBVIOUS
  <1>2. CASE LoopConnect(t)
    <2>1. CASE Established(t) /\ Move(t, "connect", "none")
      <3>1. /\ \A u \in Tp : u # t => Loops(u)' = Loops(u)
            /\ Loops(t)' = Loops(t) - 1
        BY <1>2, <2>1, <1>1, MoveLoops DEF LoopConnect, Places
      <3>2. ended' = ended /\ est' = [est EXCEPT ![t] = TRUE] /\ ~est[t]
        BY <1>2, <2>1 DEF LoopConnect, Established
      <3> QED
        BY <1>1, <1>2, <3>1, <3>2 DEF LoopConnect, Efforts
    <2>2. CASE UNCHANGED sessionVars /\ Move(t, "connect", "sleep")
      <3>1. \A u \in Tp : Loops(u)' = Loops(u)
        BY <1>2, <2>2, <1>1, MoveLoops DEF LoopConnect, Places
      <3> QED
        BY <1>1, <1>2, <2>2, <3>1 DEF LoopConnect, Efforts
    <2> QED
      BY <1>2, <2>1, <2>2 DEF LoopConnect
  <1>3. CASE LoopWake(t)
    <2>1. PICK to \in Places \cup {"none"} : Move(t, "sleep", to)
      BY <1>3 DEF LoopWake, Places
    <2>2. loops[t]["sleep"] > 0
      BY <1>3 DEF LoopWake
    <2>3. /\ \A u \in Tp : u # t => Loops(u)' = Loops(u)
          /\ Loops(t)' = Loops(t) + (IF to = "none" THEN 0 ELSE 1) - 1
      BY <2>1, <2>2, MoveLoops DEF Places
    <2>4. \A u \in Tp : Loops(u)' <= Loops(u)
      BY <1>1, <2>3
    <2> QED
      BY <1>1, <1>3, <2>3, <2>4 DEF LoopWake, Efforts
  <1>4. CASE LoopCheck(t)
    <2>1. PICK to \in Places \cup {"none"} : Move(t, "check", to)
      BY <1>4 DEF LoopCheck, Places
    <2>2. loops[t]["check"] > 0
      BY <1>4 DEF LoopCheck
    <2>3. /\ \A u \in Tp : u # t => Loops(u)' = Loops(u)
          /\ Loops(t)' = Loops(t) + (IF to = "none" THEN 0 ELSE 1) - 1
      BY <2>1, <2>2, MoveLoops DEF Places
    <2>4. \A u \in Tp : Loops(u)' <= Loops(u)
      BY <1>1, <2>3
    <2> QED
      BY <1>1, <1>4, <2>3, <2>4 DEF LoopCheck, Efforts
  <1>5. ASSUME SessionEnds(t), loops' = loops
        PROVE  \A u \in Tp : Efforts(u)' <= Efforts(u)
    BY <1>1, <1>5 DEF SessionEnds, Efforts, Loops
  <1>6. CASE Drop(t)
    BY <1>5, <1>6 DEF Drop
  <1>7. CASE OnDisconnectedDropped(t)
    BY <1>1, <1>7 DEF OnDisconnectedDropped, Efforts, Loops
  <1>8. CASE OnDisconnected(t)
    <2>1. /\ \A u \in Tp : u # t => Loops(u)' = Loops(u)
          /\ Loops(t)' <= Loops(t) + 1
      <3>1. CASE Wanted(t)
        <4>1. Move(t, "none", "connect")
          BY <1>8, <3>1 DEF OnDisconnected
        <4>2. /\ \A u \in Tp : u # t => Loops(u)' = Loops(u)
              /\ Loops(t)' = Loops(t) + 1 - 0
          BY <4>1, MoveLoops DEF Places
        <4> QED
          BY <1>1, <4>2
      <3>2. CASE ~Wanted(t)
        BY <1>8, <3>2, <1>1 DEF OnDisconnected, Loops
      <3> QED
        BY <3>1, <3>2
    <2>2. est' = est /\ ended' = [ended EXCEPT ![t] = @ - 1] /\ urlOf' = urlOf
      BY <1>8 DEF OnDisconnected
    <2>3. \A u \in Tp : Loops(u)' \in Nat
      <3>1. FinderInv'
        BY FinderStep, <1>8 DEF Next
      <3>2. \A u \in Tp, at \in Places : loops'[u][at] \in Nat
        BY <3>1
      <3> QED
        BY <3>2 DEF Loops, Places
    <2> QED
      BY <1>1, <1>8, <2>1, <2>2, <2>3 DEF Efforts, OnDisconnected
  <1>9. CASE TellClient(t)
    BY <1>1, <1>9 DEF TellClient, Efforts, Loops
  <1>10. CASE ShutdownMissed(t)
    BY <1>1, <1>5, <1>10 DEF ShutdownMissed, Efforts, Loops
  <1>11. urlOf' = urlOf
    BY DEF LoopConnect, LoopWake, LoopCheck, Drop, OnDisconnectedDropped,
           OnDisconnected, TellClient, ShutdownMissed
  <1> QED
    BY <1>2, <1>3, <1>4, <1>6, <1>7, <1>8, <1>9, <1>10, <1>11

LEMMA EffortStep == FinderInv /\ EffortInv /\ [Next]_vars => EffortInv'
  <1> SUFFICES ASSUME FinderInv, EffortInv, [Next]_vars, mode = "zk"
               PROVE  \A u \in Tp : Efforts(u)' <= 1 /\ (urlOf'[u] = NoUrl => Efforts(u)' = 0)
    BY ModeIsFixed DEF EffortInv
  <1>1. FinderInv'
    BY FinderStep
  <1>2. \A u \in Tp : Efforts(u) \in Nat /\ Efforts(u)' \in Nat
    <2>1. ASSUME NEW u \in Tp PROVE Efforts(u)' \in Nat
      <3>1. \A at \in Places : loops'[u][at] \in Nat
        BY <1>1 DEF FinderInv
      <3>2. ended'[u] \in Nat
        BY <1>1 DEF FinderInv
      <3> QED
        BY <3>1, <3>2 DEF Efforts, Loops, Places
    <2> QED
      BY <2>1, EffortNat
  <1>3. \A u \in Tp : Efforts(u) <= 1 /\ (urlOf[u] = NoUrl => Efforts(u) = 0)
    BY DEF EffortInv
  <1>4. ASSUME urlOf' = urlOf, \A u \in Tp : Efforts(u)' <= Efforts(u)
        PROVE  \A u \in Tp : Efforts(u)' <= 1 /\ (urlOf'[u] = NoUrl => Efforts(u)' = 0)
    BY <1>2, <1>3, <1>4
  <1>5. ASSUME urlOf' = urlOf, loops' = loops, ended' = ended, est' = est
        PROVE  \A u \in Tp : Efforts(u)' <= 1 /\ (urlOf'[u] = NoUrl => Efforts(u)' = 0)
    BY <1>3, <1>5 DEF Efforts, Loops
  <1>6. ASSUME NEW t \in Tp, FirstConnect(t) \/ ReConnect(t) PROVE FALSE
    BY <1>6 DEF FirstConnect, ReConnect, FinderInv
  <1>7. ASSUME NEW t \in Tp,
               \/ LoopConnect(t) \/ LoopWake(t) \/ LoopCheck(t) \/ Drop(t)
               \/ OnDisconnectedDropped(t) \/ OnDisconnected(t) \/ TellClient(t)
               \/ ShutdownMissed(t)
        PROVE  urlOf' = urlOf /\ \A u \in Tp : Efforts(u)' <= Efforts(u)
    BY <1>7, EffortsShrink
  <1>8. ASSUME NEW S \in SUBSET Url, OnZookeeperChilds(S)
        PROVE  \A u \in Tp : Efforts(u)' <= 1 /\ (urlOf'[u] = NoUrl => Efforts(u)' = 0)
    <2>1. PICK new \in [S \ Listed -> Unused] :
            /\ urlOf' = [t \in Tp |-> IF \E u \in DOMAIN new : new[u] = t
                                      THEN CHOOSE u \in DOMAIN new : new[u] = t
                                      ELSE urlOf[t]]
            /\ loops' = [t \in Tp |-> IF \E u \in DOMAIN new : new[u] = t
                                      THEN [NoLoops EXCEPT !.connect = 1] ELSE loops[t]]
      BY <1>8 DEF OnZookeeperChilds
    <2>2. ended' = ended /\ est' = est
      BY <1>8 DEF OnZookeeperChilds, downVars, sessionVars
    <2>3. ASSUME NEW t \in Tp, \E u \in DOMAIN new : new[u] = t
          PROVE  Efforts(t)' = 1 /\ urlOf'[t] # NoUrl
      <3>1. urlOf[t] = NoUrl
        BY <2>3 DEF Unused
      <3>2. Efforts(t) = 0
        BY <3>1, <1>3
      <3>3. ended[t] = 0 /\ ~est[t]
        <4>1. Loops(t) \in Nat /\ ended[t] \in Nat /\ est[t] \in BOOLEAN
          BY EffortNat DEF FinderInv
        <4> QED
          BY <3>2, <4>1 DEF Efforts
      <3>4. loops'[t] = [NoLoops EXCEPT !.connect = 1]
        BY <2>1, <2>3
      <3>5. Loops(t)' = 1
        BY <3>4 DEF Loops, NoLoops
      <3>6. Efforts(t)' = 1
        BY <2>2, <3>3, <3>5 DEF Efforts
      <3>7. urlOf'[t] \in Url
        BY <2>1, <2>3
      <3> QED
        BY <3>6, <3>7, FinderAssumption
    <2>4. ASSUME NEW t \in Tp, ~\E u \in DOMAIN new : new[u] = t
          PROVE  Efforts(t)' = Efforts(t) /\ urlOf'[t] = urlOf[t]
      BY <2>1, <2>2, <2>4 DEF Efforts, Loops
    <2> QED
      BY <1>3, <2>3, <2>4
  <1>9. CASE ChildsEnd
    BY <1>5, <1>9 DEF ChildsEnd, sessionVars, downVars
  <1>10. CASE Destroy
    BY <1>5, <1>10 DEF Destroy, sessionVars, downVars
  <1>11. CASE UNCHANGED vars
    BY <1>5, <1>11 DEF vars, sessionVars, downVars, childVars
  <1> QED
    BY <1>4, <1>6, <1>7, <1>8, <1>9, <1>10, <1>11 DEF Next

LEMMA EffortInit == Init => EffortInv
  BY DEF Init, EffortInv, Efforts, Loops, NoLoops

(* The session of a listed node and the coroutines that try to connect it  *)
(* do not pile up, whatever the number of threads (server_finder.cpp,      *)
(* OnZookeeperChilds, OnDisconnected and RecursiveConnect).                *)
THEOREM OneAttempt == Spec => []OneEffort
  <1>1. EffortInv => OneEffort
    BY DEF EffortInv, OneEffort
  <1> QED
    BY <1>1, FinderInit, FinderStep, EffortInit, EffortStep, PTL DEF Spec
-----------------------------------------------------------------------------
AfterDestroy == ~alive => \A t \in Tp : /\ told'[t] >= told[t]
                                        /\ loops'[t].connect <= loops[t].connect
                                        /\ UNCHANGED transports

(* Once the finder is gone nobody holds the mutex but a RecursiveConnect.  *)
LEMMA DestroyedStep == FinderInv /\ [Next]_vars => AfterDestroy
  <1> SUFFICES ASSUME FinderInv, [Next]_vars, ~alive
               PROVE  \A u \in Tp : /\ told'[u] >= told[u]
                                    /\ loops'[u].connect <= loops[u].connect
                                    /\ UNCHANGED transports
    BY DEF AfterDestroy
  <1>1. ASSUME NEW u \in Tp
        PROVE  told[u] \in Int /\ \A at \in Places : loops[u][at] \in Nat
    BY DEF FinderInv
  <1>2. ASSUME NEW t \in Tp, Established(t) \/ UNCHANGED sessionVars
        PROVE  \A u \in Tp : told'[u] >= told[u]
    <2>1. told' = told \/ told' = [told EXCEPT ![t] = @ + 1]
      BY <1>2 DEF Established, sessionVars
    <2> QED
      BY <1>1, <2>1 DEF FinderInv
  <1>3. ASSUME NEW t \in Tp, NEW from \in {"connect", "sleep", "check"},
               NEW to \in {"sleep", "check", "none"},
               loops[t][from] > 0, Move(t, from, to)
        PROVE  \A u \in Tp : loops'[u].connect <= loops[u].connect
    <2> DEFINE new == [at \in Places |-> loops[t][at] + (IF at = to THEN 1 ELSE 0)
                                                     - (IF at = from THEN 1 ELSE 0)]
    <2>1. loops' = [loops EXCEPT ![t] = new]
      BY <1>3, PlacesOfLoops DEF Move
    <2>2. loops'[t] = new /\ \A u \in Tp : u # t => loops'[u] = loops[u]
      BY <2>1 DEF FinderInv
    <2>3. new["connect"] <= loops[t]["connect"]
      BY <1>1 DEF Places
    <2> QED
      BY <1>1, <2>2, <2>3 DEF Places
  <1>4. ASSUME told' = told, loops' = loops
        PROVE  \A u \in Tp : told'[u] >= told[u] /\ loops'[u].connect <= loops[u].connect
    BY <1>1, <1>4 DEF Places
  <1> USE DEF sessionVars, childVars
  <1>5. ASSUME NEW t \in Tp, FirstConnect(t) \/ ReConnect(t)
        PROVE  AfterDestroy
    <2>1. loops' = loops /\ UNCHANGED transports
      BY <1>5 DEF FirstConnect, ReConnect
    <2>2. \A u \in Tp : told'[u] >= told[u]
      BY <1>2, <1>5 DEF FirstConnect, ReConnect
    <2> QED
      BY <1>1, <2>1, <2>2 DEF AfterDestroy, Places
  <1>6. ASSUME NEW t \in Tp, LoopConnect(t) PROVE AfterDestroy
    <2>1. \A u \in Tp : loops'[u].connect <= loops[u].connect
      BY <1>3, <1>6 DEF LoopConnect
    <2>2. \A u \in Tp : told'[u] >= told[u]
      BY <1>2, <1>6 DEF LoopConnect
    <2> QED
      BY <1>6, <2>1, <2>2 DEF AfterDestroy, LoopConnect
  <1>7. ASSUME NEW t \in Tp, LoopWake(t) \/ LoopCheck(t) PROVE AfterDestroy
    <2>1. \A u \in Tp : loops'[u].connect <= loops[u].connect
      BY <1>3, <1>7 DEF LoopWake, LoopCheck
    <2>2. told' = told /\ UNCHANGED transports
      BY <1>7 DEF LoopWake, LoopCheck
    <2> QED
      BY <1>1, <2>1, <2>2 DEF AfterDestroy
  <1>8. ASSUME NEW t \in Tp,
               Drop(t) \/ OnDisconnectedDropped(t) \/ ShutdownMissed(t)
        PROVE  AfterDestroy
    <2>1. told' = told /\ loops' = loops /\ UNCHANGED transports
      BY <1>8 DEF Drop, OnDisconnectedDropped, ShutdownMissed
    <2> QED
      BY <1>4, <2>1 DEF AfterDestroy
  <1>9. ASSUME NEW t \in Tp, OnDisconnected(t) PROVE FALSE
    BY <1>9 DEF OnDisconnected
  <1>10. ASSUME NEW t \in Tp, TellClient(t) PROVE FALSE
    BY <1>10, FinderAssumption DEF TellClient, FinderInv
  <1>11. ASSUME NEW S \in SUBSET Url, OnZookeeperChilds(S) PROVE FALSE
    BY <1>11 DEF OnZookeeperChilds
  <1>12. ASSUME ChildsEnd \/ Destroy PROVE FALSE
    BY <1>12 DEF ChildsEnd, Destroy, FinderInv
  <1>13. CASE UNCHANGED vars
    BY <1>4, <1>13 DEF vars, AfterDestroy
  <1> QED
    BY <1>5, <1>6, <1>7, <1>8, <1>9, <1>10, <1>11, <1>12, <1>13 DEF Next,
       AfterDestroy

(* Once ~ServerFinder ran, no OnDisconnected reaches the client, no        *)
(* RecursiveConnect tries again, and the transports are left alone         *)
(* (server_finder.cpp, the token).                                         *)
THEOREM DestroyIsFinal == Spec => NothingAfterDestroy
  <1>1. FinderInv /\ [Next]_vars => [AfterDestroy]_vars
    BY DestroyedStep
  <1> QED
    BY <1>1, FinderTypes, PTL DEF Spec, NothingAfterDestroy, AfterDestroy
-----------------------------------------------------------------------------
owed == [t \in Tp |-> ended[t] + IF telling = t THEN 1 ELSE 0]

(* A step that leaves est, told, alive and what is owed alone.             *)
LEMMA SessStutter ==
  ASSUME est' = est, told' = told, alive' = alive, owed' = owed
  PROVE  UNCHANGED Sess!sessVars
  BY DEF Sess!sessVars, owed

LEMMA SessDown ==
  ASSUME FinderInv, NEW t \in Tp, SessionEnds(t), telling' = telling,
         told' = told, alive' = alive
  PROVE  Sess!Next
  <1>1. \A u \in Tp : ended[u] \in Nat
    BY DEF FinderInv
  <1>2. owed' = [owed EXCEPT ![t] = @ + 1]
    <2> DEFINE tell(u) == IF telling = u THEN 1 ELSE 0
    <2>1. \A u \in Tp : ended'[u] = IF u = t THEN ended[t] + 1 ELSE ended[u]
      BY DEF SessionEnds, FinderInv
    <2>2. owed' = [u \in Tp |-> ended'[u] + tell(u)]
      BY DEF owed
    <2>3. [owed EXCEPT ![t] = @ + 1]
            = [u \in Tp |-> IF u = t THEN ended[u] + tell(u) + 1 ELSE ended[u] + tell(u)]
      BY DEF owed
    <2>4. \A u \in Tp : tell(u) \in Nat
      OBVIOUS
    <2> HIDE DEF tell
    <2>5. \A u \in Tp : ended'[u] + tell(u)
                        = IF u = t THEN ended[u] + tell(u) + 1 ELSE ended[u] + tell(u)
      BY <1>1, <2>1, <2>4
    <2> QED
      BY <2>2, <2>3, <2>5
  <1>3. Sess!Down(t)
    BY <1>2 DEF Sess!Down, SessionEnds, owed
  <1> QED
    BY <1>3 DEF Sess!Next

LEMMA SessUp ==
  ASSUME FinderInv, NEW t \in Tp, Established(t), ended' = ended, telling' = telling,
         alive' = alive
  PROVE  Sess!Next
  <1>1. CASE alive
    <2>1. owed' = owed
      BY DEF owed
    <2>2. Sess!Up(t)
      BY <1>1, <2>1 DEF Sess!Up, Established, owed
    <2> QED
      BY <2>2 DEF Sess!Next
  <1>2. CASE ~alive
    BY <1>2 DEF Sess!Next, Sess!Gone
  <1> QED
    BY <1>1, <1>2

LEMMA SessInit == Init => Sess!Init
  <1> SUFFICES ASSUME Init PROVE Sess!Init
    OBVIOUS
  <1>1. owed = [t \in Tp |-> 0]
    BY FinderAssumption DEF Init, owed
  <1> QED
    BY <1>1 DEF Init, Sess!Init, owed

LEMMA SessStep ==
  ~Parallel /\ FinderInv /\ [Next]_vars => [Sess!Next]_(Sess!sessVars)
  <1> SUFFICES ASSUME ~Parallel, FinderInv, [Next]_vars
               PROVE  Sess!Next \/ UNCHANGED Sess!sessVars
    OBVIOUS
  <1> USE DEF sessionVars, downVars, childVars
  <1>1. ASSUME NEW t \in Tp, Established(t) \/ UNCHANGED sessionVars,
               alive' = alive, ended' = ended, telling' = telling
        PROVE  Sess!Next \/ UNCHANGED Sess!sessVars
    <2>1. CASE Established(t)
      BY <1>1, <2>1, SessUp
    <2>2. CASE UNCHANGED sessionVars
      BY <1>1, <2>2, SessStutter DEF owed
    <2> QED
      BY <1>1, <2>1, <2>2
  <1>2. ASSUME NEW t \in Tp, FirstConnect(t) \/ ReConnect(t) \/ LoopConnect(t)
        PROVE  Sess!Next \/ UNCHANGED Sess!sessVars
    BY <1>1, <1>2 DEF FirstConnect, ReConnect, LoopConnect
  <1>3. ASSUME NEW t \in Tp, Drop(t) PROVE Sess!Next
    BY <1>3, SessDown DEF Drop
  <1>4. ASSUME NEW t \in Tp, ShutdownMissed(t)
        PROVE  Sess!Next \/ UNCHANGED Sess!sessVars
    <2>1. CASE SessionEnds(t)
      BY <1>4, <2>1, SessDown DEF ShutdownMissed
    <2>2. CASE UNCHANGED <<est, ended>>
      BY <1>4, <2>2, SessStutter DEF ShutdownMissed, owed
    <2> QED
      BY <1>4, <2>1, <2>2 DEF ShutdownMissed
  <1>5. ASSUME NEW t \in Tp, OnDisconnectedDropped(t) PROVE Sess!Next
    <2>1. ~alive /\ alive' = alive
      BY <1>5 DEF OnDisconnectedDropped, Turn
    <2> QED
      BY <2>1 DEF Sess!Next, Sess!Gone
  <1>6. ASSUME NEW t \in Tp, OnDisconnected(t) PROVE UNCHANGED Sess!sessVars
    <2>1. telling = NoTp
      BY <1>6 DEF OnDisconnected, Locked
    <2>2. \A u \in Tp : ended[u] \in Nat
      BY DEF FinderInv
    <2>3. owed' = owed
      BY <1>6, <2>1, <2>2, FinderAssumption DEF OnDisconnected, owed, FinderInv
    <2> QED
      BY <1>6, <2>3, SessStutter DEF OnDisconnected
  <1>7. ASSUME NEW t \in Tp, TellClient(t) PROVE Sess!Next
    <2>1. \A u \in Tp : ended[u] \in Nat
      BY DEF FinderInv
    <2>2. owed[t] > 0 /\ owed' = [owed EXCEPT ![t] = @ - 1]
      <3>1. owed = [u \in Tp |-> IF u = t THEN ended[u] + 1 ELSE ended[u]]
        BY <1>7, <2>1 DEF TellClient, owed
      <3>2. owed' = [u \in Tp |-> ended[u]]
        BY <1>7, <2>1, FinderAssumption DEF TellClient, owed
      <3>3. [owed EXCEPT ![t] = @ - 1] = [u \in Tp |-> IF u = t THEN owed[t] - 1 ELSE owed[u]]
        BY DEF owed
      <3>4. \A u \in Tp : ended[u] = IF u = t THEN owed[t] - 1 ELSE owed[u]
        BY <2>1, <3>1
      <3> QED
        BY <2>1, <3>1, <3>2, <3>3, <3>4
    <2>3. Sess!TellEnd(t)
      BY <1>7, <2>2 DEF Sess!TellEnd, TellClient, owed
    <2> QED
      BY <2>3 DEF Sess!Next
  <1>8. ASSUME NEW t \in Tp, LoopWake(t) \/ LoopCheck(t)
        PROVE  UNCHANGED Sess!sessVars
    BY <1>8, SessStutter DEF LoopWake, LoopCheck, owed
  <1>9. ASSUME NEW S \in SUBSET Url, OnZookeeperChilds(S)
        PROVE  UNCHANGED Sess!sessVars
    BY <1>9, SessStutter DEF OnZookeeperChilds, owed
  <1>10. CASE ChildsEnd
    BY <1>10, SessStutter DEF ChildsEnd, owed
  <1>11. CASE Destroy
    BY <1>11 DEF Destroy, Sess!Next, Sess!Destroy
  <1>12. CASE UNCHANGED vars
    BY <1>12, SessStutter DEF vars, owed
  <1> QED
    BY <1>2, <1>3, <1>4, <1>5, <1>6, <1>7, <1>8, <1>9, <1>10, <1>11, <1>12 DEF
       Next

(* On one scheduler thread no OnDisconnected finds the mutex taken: the    *)
(* client is told of each session and of each end, once                    *)
(* (server_finder.cpp, OnDisconnected).                                    *)
THEOREM ToldOfEverySession == ~Parallel => (Spec => SessSpec)
  <1> SUFFICES ASSUME ~Parallel PROVE Spec => SessSpec
    OBVIOUS
  <1>1. FinderInv /\ [Next]_vars => [Sess!Next]_(Sess!sessVars)
    BY SessStep
  <1> QED
    BY <1>1, SessInit, FinderTypes, PTL DEF Spec, SessSpec, Sess!Spec
-----------------------------------------------------------------------------
(* The mutex has one holder: OnZookeeperChilds, an OnDisconnected, or one  *)
(* RecursiveConnect of one transport.                                      *)
MutexInv ==
  /\ \A t \in Tp : loops[t].check <= 1
  /\ \A t, u \in Checkers : t = u
  /\ childs => telling = NoTp
  /\ childs \/ telling # NoTp => Checkers = {}

(* As long as the finder lives, the client was told of every session it has*)
(* not been told the end of.                                               *)
ToldInv ==
  /\ told \in [Tp -> Nat]
  /\ alive => \A t \in Tp : told[t] >= ended[t] + (IF est[t] THEN 1 ELSE 0)
                                               + (IF telling = t THEN 1 ELSE 0)

HistoryInv == mode \in {"zk", "single"} /\ ever \subseteq Tp /\ sessions \in 0..MaxSessions
              /\ childs \in BOOLEAN /\ first \in BOOLEAN

(* Only a RecursiveConnect that wakes with the mutex free starts a check.  *)
LEMMA CheckSteps ==
  ASSUME FinderInv, [Next]_vars, NEW u \in Tp
  PROVE  \/ loops'[u].check <= loops[u].check
         \/ /\ LoopWake(u) /\ ~Locked /\ loops'[u].check = loops[u].check + 1
            /\ UNCHANGED <<childs, telling>>
            /\ \A v \in Tp : v # u => loops'[v] = loops[v]
  <1> USE DEF downVars, childVars
  <1>0. \A v \in Tp : loops[v].check \in Nat
    BY DEF FinderInv, Places
  <1>1. ASSUME NEW t \in Tp, LoopConnect(t) PROVE loops'[u].check <= loops[u].check
    <2>1. PICK to \in {"none", "sleep"} : Move(t, "connect", to)
      BY <1>1 DEF LoopConnect
    <2>2. \A v \in Tp : loops'[v].check = loops[v].check
      BY <1>0, <1>1, <2>1, MoveEffect DEF LoopConnect, Places
    <2> QED
      BY <1>0, <2>2
  <1>2. ASSUME NEW t \in Tp, LoopWake(t)
        PROVE  \/ loops'[u].check <= loops[u].check
               \/ /\ LoopWake(u) /\ ~Locked /\ loops'[u].check = loops[u].check + 1
                  /\ UNCHANGED <<childs, telling>>
                  /\ \A v \in Tp : v # u => loops'[v] = loops[v]
    <2>1. PICK to \in {"none", "check"} :
            Move(t, "sleep", to) /\ (to = "check" => ~Locked)
      BY <1>2 DEF LoopWake
    <2>2. /\ loops'[t].check = loops[t].check + (IF to = "check" THEN 1 ELSE 0)
          /\ \A v \in Tp : v # t => loops'[v] = loops[v]
      BY <1>0, <1>2, <2>1, MoveEffect DEF LoopWake, Places
    <2>3. UNCHANGED <<childs, telling>>
      BY <1>2 DEF LoopWake
    <2> QED
      BY <1>0, <1>2, <2>1, <2>2, <2>3
  <1>3. ASSUME NEW t \in Tp, LoopCheck(t) PROVE loops'[u].check <= loops[u].check
    <2>1. PICK to \in {"none", "connect"} : Move(t, "check", to)
      BY <1>3 DEF LoopCheck
    <2>2. /\ loops'[t].check = loops[t].check - 1
          /\ \A v \in Tp : v # t => loops'[v] = loops[v]
      BY <1>0, <1>3, <2>1, MoveEffect DEF LoopCheck, Places
    <2> QED
      BY <1>0, <2>2
  <1>4. ASSUME NEW t \in Tp, OnDisconnected(t) PROVE loops'[u].check <= loops[u].check
    <2>1. CASE loops' = loops
      BY <1>0, <2>1
    <2>2. CASE Move(t, "none", "connect")
      <3>1. \A v \in Tp : loops'[v].check = loops[v].check
        BY <1>0, <2>2, MoveEffect DEF Places
      <3> QED
        BY <1>0, <3>1
    <2> QED
      BY <1>4, <2>1, <2>2 DEF OnDisconnected
  <1>5. ASSUME NEW S \in SUBSET Url, OnZookeeperChilds(S)
        PROVE  loops'[u].check <= loops[u].check
    <2> DEFINE fresh == [NoLoops EXCEPT !.connect = 1]
    <2>1. loops'[u] = loops[u] \/ loops'[u] = fresh
      BY <1>5 DEF OnZookeeperChilds
    <2>2. fresh.check = 0
      BY DEF NoLoops
    <2> HIDE DEF fresh
    <2> QED
      BY <1>0, <2>1, <2>2
  <1>6. ASSUME NEW t \in Tp,
               \/ FirstConnect(t) \/ ReConnect(t) \/ Drop(t)
               \/ OnDisconnectedDropped(t) \/ TellClient(t) \/ ShutdownMissed(t)
        PROVE  loops' = loops
    BY <1>6 DEF FirstConnect, ReConnect, Drop, OnDisconnectedDropped,
                TellClient, ShutdownMissed
  <1>7. CASE ChildsEnd \/ Destroy \/ UNCHANGED vars
    BY <1>0, <1>7 DEF ChildsEnd, Destroy, vars
  <1> QED
    BY <1>0, <1>1, <1>2, <1>3, <1>4, <1>5, <1>6, <1>7 DEF Next

LEMMA MutexStep == FinderInv /\ MutexInv /\ [Next]_vars => MutexInv'
  <1> SUFFICES ASSUME FinderInv, MutexInv, [Next]_vars PROVE MutexInv'
    OBVIOUS
  <1>0. \A u \in Tp : loops[u].check \in Nat /\ loops'[u].check \in Nat
    BY FinderStep DEF FinderInv, Places
  <1>1. ASSUME NEW u \in Tp, ~(loops'[u].check <= loops[u].check) PROVE MutexInv'
    <2>1. /\ ~Locked /\ loops'[u].check = loops[u].check + 1
          /\ UNCHANGED <<childs, telling>>
          /\ \A v \in Tp : v # u => loops'[v] = loops[v]
      BY <1>1, CheckSteps
    <2>2. ~childs /\ telling = NoTp /\ \A v \in Tp : loops[v].check = 0
      BY <1>0, <2>1 DEF Locked
    <2> QED
      BY <2>1, <2>2 DEF MutexInv, Checkers
  <1>2. CASE \A u \in Tp : loops'[u].check <= loops[u].check
    <2>1. /\ \A t \in Tp : loops'[t].check <= 1
          /\ Checkers' \subseteq Checkers
      BY <1>0, <1>2 DEF MutexInv, Checkers
    <2>2. \/ UNCHANGED <<childs, telling>>
          \/ ~childs' /\ UNCHANGED telling
          \/ telling' = NoTp /\ UNCHANGED childs
          \/ ~Locked /\ (UNCHANGED childs \/ UNCHANGED telling)
      BY DEF Next, vars, FirstConnect, ReConnect, LoopConnect, LoopWake,
             LoopCheck, Drop, OnDisconnectedDropped, OnDisconnected, TellClient,
             ShutdownMissed, OnZookeeperChilds, ChildsEnd, Destroy, downVars,
             childVars
    <2>3. ~Locked => ~childs /\ telling = NoTp /\ Checkers = {}
      BY DEF Locked, Checkers
    <2> QED
      BY <2>1, <2>2, <2>3 DEF MutexInv
  <1> QED
    BY <1>1, <1>2

LEMMA ToldStep == FinderInv /\ ToldInv /\ [Next]_vars => ToldInv'
  <1> SUFFICES ASSUME FinderInv, ToldInv, [Next]_vars PROVE ToldInv'
    OBVIOUS
  <1> USE DEF FinderInv, sessionVars, downVars
  <1> DEFINE Due(t) == ended[t] + (IF est[t] THEN 1 ELSE 0)
                                + (IF telling = t THEN 1 ELSE 0)
  <1>1. ASSUME told' = told, alive' => alive,
               \A t \in Tp : Due(t)' = Due(t)
        PROVE  ToldInv'
    <2>1. ASSUME alive', NEW t \in Tp PROVE told'[t] >= Due(t)'
      <3>1. told[t] >= Due(t) /\ Due(t)' = Due(t)
        BY <1>1, <2>1 DEF ToldInv
      <3> HIDE DEF Due
      <3> QED
        BY <1>1, <3>1
    <2> QED
      BY <1>1, <2>1 DEF ToldInv
  <1>2. ASSUME UNCHANGED <<ended, telling, est, told>>, alive' => alive
        PROVE  ToldInv'
    BY <1>2 DEF ToldInv
  <1>3. ASSUME NEW t \in Tp, Established(t), UNCHANGED <<ended, telling, alive>>
        PROVE  ToldInv'
    BY <1>3 DEF Established, ToldInv
  <1>4. ASSUME NEW t \in Tp, FirstConnect(t) \/ ReConnect(t) \/ LoopConnect(t)
        PROVE  ToldInv'
    BY <1>2, <1>3, <1>4 DEF FirstConnect, ReConnect, LoopConnect
  <1>5. ASSUME NEW t \in Tp, SessionEnds(t), UNCHANGED <<alive, told, telling>>
        PROVE  ToldInv'
    <2>1. \A u \in Tp : ended'[u] = IF u = t THEN ended[u] + 1 ELSE ended[u]
      BY <1>5 DEF SessionEnds
    <2>2. ~est'[t] /\ \A u \in Tp : u # t => est'[u] = est[u]
      BY <1>5 DEF SessionEnds
    <2>3. est[t]
      BY <1>5 DEF SessionEnds
    <2>4. \A u \in Tp : Due(u)' = Due(u)
      <3> SUFFICES ASSUME NEW u \in Tp PROVE Due(u)' = Due(u)
        OBVIOUS
      <3> DEFINE tell == IF telling = u THEN 1 ELSE 0
      <3>1. tell' = tell /\ tell \in Nat /\ ended[u] \in Nat
        BY <1>5
      <3> HIDE DEF tell
      <3>2. Due(u) = ended[u] + (IF est[u] THEN 1 ELSE 0) + tell
            /\ Due(u)' = ended'[u] + (IF est'[u] THEN 1 ELSE 0) + tell'
        BY DEF tell
      <3> HIDE DEF Due
      <3>3. CASE u = t
        BY <2>1, <2>2, <2>3, <3>1, <3>2, <3>3
      <3>4. CASE u # t
        BY <2>1, <2>2, <3>1, <3>2, <3>4
      <3> QED
        BY <3>3, <3>4
    <2> HIDE DEF Due
    <2> QED
      BY <1>1, <1>5, <2>4
  <1>6. ASSUME NEW t \in Tp, Drop(t) \/ ShutdownMissed(t) PROVE ToldInv'
    BY <1>2, <1>5, <1>6 DEF Drop, ShutdownMissed
  <1>7. ASSUME NEW t \in Tp, OnDisconnectedDropped(t) PROVE ToldInv'
    <2>1. \A u \in Tp : ended'[u] = IF u = t THEN ended[u] - 1 ELSE ended[u]
      BY <1>7 DEF OnDisconnectedDropped
    <2>2. UNCHANGED <<alive, est, told, telling>>
      BY <1>7 DEF OnDisconnectedDropped
    <2> QED
      BY <2>1, <2>2 DEF ToldInv
  <1>8. ASSUME NEW t \in Tp, OnDisconnected(t) PROVE ToldInv'
    <2>1. \A u \in Tp : ended'[u] = IF u = t THEN ended[u] - 1 ELSE ended[u]
      BY <1>8 DEF OnDisconnected
    <2>2. UNCHANGED <<alive, est, told>> /\ telling = NoTp /\ telling' = t
      BY <1>8 DEF OnDisconnected, Locked
    <2>3. \A u \in Tp : Due(u)' = Due(u)
      BY <2>1, <2>2, FinderAssumption
    <2> HIDE DEF Due
    <2> QED
      BY <1>1, <2>2, <2>3
  <1>9. ASSUME NEW t \in Tp, TellClient(t) PROVE ToldInv'
    <2>1. alive /\ told[t] > 0
      BY <1>9, FinderAssumption DEF TellClient, ToldInv
    <2>2. \A u \in Tp : told'[u] = IF u = t THEN told[u] - 1 ELSE told[u]
      BY <1>9 DEF TellClient
    <2>3. told' \in [Tp -> Nat]
      BY <1>9, <2>1, <2>2 DEF TellClient, ToldInv
    <2>4. telling = t /\ telling' = NoTp /\ UNCHANGED <<alive, est, ended>>
      BY <1>9 DEF TellClient
    <2> QED
      BY <2>2, <2>3, <2>4, FinderAssumption DEF ToldInv
  <1>10. ASSUME NEW t \in Tp, LoopWake(t) \/ LoopCheck(t) PROVE ToldInv'
    BY <1>2, <1>10 DEF LoopWake, LoopCheck
  <1>11. ASSUME NEW S \in SUBSET Url, OnZookeeperChilds(S) PROVE ToldInv'
    BY <1>2, <1>11 DEF OnZookeeperChilds
  <1>12. CASE ChildsEnd \/ Destroy \/ UNCHANGED vars
    BY <1>2, <1>12 DEF ChildsEnd, Destroy, vars
  <1> QED
    BY <1>4, <1>6, <1>7, <1>8, <1>9, <1>10, <1>11, <1>12 DEF Next

LEMMA HistoryStep == FinderInv /\ HistoryInv /\ [Next]_vars => HistoryInv'
  <1> SUFFICES ASSUME FinderInv, HistoryInv, [Next]_vars PROVE HistoryInv'
    OBVIOUS
  <1> USE FinderAssumption, ModeIsFixed DEF HistoryInv, sessionVars, childVars
  <1>1. ASSUME NEW t \in Tp, Established(t),
               first' = FALSE \/ UNCHANGED first, UNCHANGED childs
        PROVE  HistoryInv'
    <2>1. sessions' \in 0..MaxSessions /\ ever' \subseteq Tp
      BY <1>1 DEF Established
    <2> QED
      BY <1>1, <2>1
  <1>2. ASSUME NEW t \in Tp, FirstConnect(t) \/ ReConnect(t) \/ LoopConnect(t)
        PROVE  HistoryInv'
    BY <1>1, <1>2 DEF FirstConnect, ReConnect, LoopConnect
  <1>3. ASSUME NEW t \in Tp,
               \/ LoopWake(t) \/ LoopCheck(t) \/ Drop(t)
               \/ OnDisconnectedDropped(t) \/ OnDisconnected(t) \/ TellClient(t)
               \/ ShutdownMissed(t)
        PROVE  HistoryInv'
    BY <1>3 DEF LoopWake, LoopCheck, Drop, OnDisconnectedDropped,
                OnDisconnected, TellClient, ShutdownMissed
  <1>4. ASSUME NEW S \in SUBSET Url, OnZookeeperChilds(S) PROVE HistoryInv'
    BY <1>4 DEF OnZookeeperChilds
  <1>5. CASE ChildsEnd \/ Destroy \/ UNCHANGED vars
    BY <1>5 DEF ChildsEnd, Destroy, vars
  <1> QED
    BY <1>2, <1>3, <1>4, <1>5 DEF Next

LEMMA MutexCount ==
  ASSUME MutexInv, childs \in BOOLEAN
  PROVE  Cardinality(Checkers) + (IF childs THEN 1 ELSE 0)
           + (IF telling = NoTp THEN 0 ELSE 1) <= 1
  <1>1. CASE Checkers = {}
    <2>1. Cardinality(Checkers) = 0
      BY <1>1, FS_EmptySet
    <2> QED
      BY <2>1 DEF MutexInv
  <1>2. CASE Checkers # {}
    <2>1. PICK t : Checkers = {t}
      BY <1>2 DEF MutexInv
    <2>2. Cardinality(Checkers) = 1
      BY <2>1, FS_Singleton
    <2> QED
      BY <1>2, <2>2 DEF MutexInv
  <1> QED
    BY <1>1, <1>2

(* The finder's types, with its mutex held by one handler at a time and the*)
(* client never told of more ends than sessions (TypeOK).                  *)
THEOREM TypesHold == Spec => []TypeOK
  <1> DEFINE Inv == FinderInv /\ MutexInv /\ ToldInv /\ HistoryInv
  <1>1. Init => Inv
    <2>1. Init => MutexInv
      BY DEF Init, MutexInv, Checkers, NoLoops
    <2>2. Init => ToldInv
      BY FinderAssumption DEF Init, ToldInv
    <2>3. Init => HistoryInv
      <3>1. Init => mode \in {"zk", "single"} /\ first \in BOOLEAN
        <4>1. Init => mode = "zk" \/ mode = "single"
          BY DEF Init
        <4>2. Init => first = (mode = "single")
          BY DEF Init
        <4>3. (mode = "single") \in BOOLEAN
          OBVIOUS
        <4>4. Init => first \in BOOLEAN
          BY <4>2, <4>3, Zenon
        <4> QED
          BY <4>1, <4>4
      <3>2. Init => ever \subseteq Tp /\ ~childs
        BY DEF Init
      <3>3. Init => sessions \in 0..MaxSessions
        BY FinderAssumption DEF Init
      <3>4. Init => childs \in BOOLEAN
        BY Zenon DEF Init
      <3> QED
        BY <3>1, <3>2, <3>3, <3>4 DEF HistoryInv
    <2> QED
      BY <2>1, <2>2, <2>3, FinderInit
  <1>2. Inv /\ [Next]_vars => Inv'
    BY FinderStep, MutexStep, ToldStep, HistoryStep
  <1>3. Inv => TypeOK
    <2> SUFFICES ASSUME Inv PROVE TypeOK
      OBVIOUS
    <2>1. \A t \in Checkers : loops[t].check = 1
      BY DEF Checkers, MutexInv, FinderInv, Places
    <2> QED
      BY <2>1, MutexCount, PlacesOfLoops
      DEF FinderInv, ToldInv, HistoryInv, TypeOK
  <1> HIDE DEF Inv
  <1> QED
    BY <1>1, <1>2, <1>3, PTL DEF Spec
-----------------------------------------------------------------------------
(* Efforts(t) > 0, without the sum.                                        *)
Trying(t) == est[t] \/ ended[t] > 0 \/ \E at \in Places : loops[t][at] > 0

(* A listed transport was created for the address it is listed under, so   *)
(* that its own callbacks find it in the list; and something is under way. *)
TryInv ==
  alive => /\ \A u \in Url : transports[u] # NoTp => urlOf[transports[u]] = u
           /\ \A t \in Tp : Owned(t) /\ (mode = "single" => t \in ever) => Trying(t)

LEMMA TryingIsEffort ==
  ASSUME FinderInv, NEW t \in Tp, Trying(t) PROVE Efforts(t) > 0
  <1>1. /\ loops[t].connect \in Nat /\ loops[t].sleep \in Nat
        /\ loops[t].check \in Nat /\ ended[t] \in Nat /\ est[t] \in BOOLEAN
    BY DEF FinderInv, Places
  <1>2. est[t] \/ ended[t] > 0 \/ loops[t].connect > 0 \/ loops[t].sleep > 0
        \/ loops[t].check > 0
    BY DEF Trying, Places
  <1> QED
    BY <1>1, <1>2 DEF Efforts, Loops

LEMMA OwnedIsWanted ==
  ASSUME TryInv, alive, NEW t \in Tp, Owned(t) PROVE Wanted(t)
  <1>1. PICK u \in Url : transports[u] = t
    BY DEF Owned
  <1>2. urlOf[t] = u /\ t # NoTp
    BY <1>1, FinderAssumption DEF TryInv
  <1> QED
    BY <1>1, <1>2 DEF Wanted

LEMMA TryInit == Init => TryInv
  <1> SUFFICES ASSUME Init PROVE TryInv
    OBVIOUS
  <1>1. CASE mode = "zk"
    <2>1. transports = [u \in Url |-> NoTp]
      BY <1>1 DEF Init
    <2> QED
      BY <1>1, <2>1, FinderAssumption DEF TryInv, Owned
  <1>2. CASE mode = "single"
    <2>1. PICK url \in Url, tp \in Tp :
            /\ transports = [u \in Url |-> IF u = url THEN tp ELSE NoTp]
            /\ urlOf = [t \in Tp |-> IF t = tp THEN url ELSE NoUrl]
      BY <1>2 DEF Init
    <2>2. \A u \in Url : transports[u] # NoTp => urlOf[transports[u]] = u
      BY <2>1
    <2>3. ever = {}
      BY DEF Init
    <2> QED
      BY <1>2, <2>2, <2>3 DEF TryInv
  <1> QED
    BY <1>1, <1>2 DEF Init

LEMMA TryStep == ~Parallel /\ FinderInv /\ TryInv /\ [Next]_vars => TryInv'
  <1> SUFFICES ASSUME ~Parallel, FinderInv, TryInv, [Next]_vars, alive'
               PROVE  TryInv'
    BY DEF TryInv
  <1> USE DEF sessionVars, downVars, childVars
  <1>0. alive /\ mode' = mode
    BY ModeIsFixed DEF Next, vars, FirstConnect, ReConnect, LoopConnect,
       LoopWake,
         LoopCheck, Drop, OnDisconnectedDropped, OnDisconnected, TellClient,
         ShutdownMissed, OnZookeeperChilds, ChildsEnd, Destroy
  (* A step of one transport that goes on trying, or is not listed.        *)
  <1>1. ASSUME NEW t \in Tp, UNCHANGED <<transports, urlOf>>,
               Owned(t) /\ (mode = "single" => t \in ever') =>
                 Trying(t)',
               \A u \in Tp : u # t => /\ est[u] => est'[u]
                                      /\ ended'[u] = ended[u]
                                      /\ loops'[u] = loops[u]
                                      /\ u \in ever' => u \in ever
        PROVE  TryInv'
    <2>1. \A u \in Tp : Owned(u)' <=> Owned(u)
      BY <1>1 DEF Owned
    <2>2. \A u \in Tp : u # t => (Trying(u) => Trying(u)')
      BY <1>1 DEF Trying
    <2>3. ASSUME NEW u \in Tp, Owned(u)', mode = "single" => u \in ever'
          PROVE  Trying(u)'
      BY <1>0, <1>1, <2>1, <2>2, <2>3 DEF TryInv
    <2> QED
      BY <1>0, <1>1, <2>3 DEF TryInv
  <1>2. ASSUME UNCHANGED <<transports, urlOf, est, ended, loops, ever>>
        PROVE  TryInv'
    BY <1>0, <1>2 DEF TryInv, Owned, Trying
  <1>3. ASSUME NEW t \in Tp, FirstConnect(t) \/ ReConnect(t) PROVE TryInv'
    <2>1. CASE Established(t)
      <3>1. est'[t] /\ \A u \in Tp : u # t => (est[u] => est'[u])
        BY <2>1 DEF Established, FinderInv
      <3>2. \A u \in Tp : u # t => (u \in ever' => u \in ever)
        BY <2>1 DEF Established
      <3>3. UNCHANGED <<transports, urlOf, ended, loops>>
        BY <1>3 DEF FirstConnect, ReConnect
      <3>4. Trying(t)'
        BY <3>1 DEF Trying
      <3>5. \A u \in Tp : u # t => /\ est[u] => est'[u]
                                   /\ ended'[u] = ended[u]
                                   /\ loops'[u] = loops[u]
                                   /\ u \in ever' => u \in ever
        BY <3>1, <3>2, <3>3
      <3> QED
        BY <1>1, <3>3, <3>4, <3>5
    <2>2. CASE UNCHANGED sessionVars
      BY <1>2, <1>3, <2>2 DEF FirstConnect, ReConnect
    <2> QED
      BY <1>3, <2>1, <2>2 DEF FirstConnect, ReConnect
  <1>4. ASSUME NEW t \in Tp, LoopConnect(t) PROVE TryInv'
    <2>1. UNCHANGED <<transports, urlOf, ended>>
      BY <1>4 DEF LoopConnect
    <2>2. CASE Established(t) /\ Move(t, "connect", "none")
      <3>1. est'[t] /\ \A u \in Tp : u # t => (est[u] => est'[u])
        BY <2>2 DEF Established, FinderInv
      <3>2. \A u \in Tp : u # t => (u \in ever' => u \in ever)
        BY <2>2 DEF Established
      <3>3. \A u \in Tp : u # t => loops'[u] = loops[u]
        BY <1>4, <2>2, MoveEffect DEF LoopConnect, Places
      <3>4. Trying(t)'
        BY <3>1 DEF Trying
      <3>5. \A u \in Tp : u # t => /\ est[u] => est'[u]
                                   /\ ended'[u] = ended[u]
                                   /\ loops'[u] = loops[u]
                                   /\ u \in ever' => u \in ever
        BY <2>1, <3>1, <3>2, <3>3
      <3> QED
        BY <1>1, <2>1, <3>4, <3>5
    <2>3. CASE UNCHANGED sessionVars /\ Move(t, "connect", "sleep")
      <3>1. /\ \A u \in Tp : u # t => loops'[u] = loops[u]
            /\ loops'[t]["sleep"] > 0
        BY <1>4, <2>3, MoveEffect DEF LoopConnect, Places
      <3>2. Trying(t)'
        BY <3>1 DEF Trying, Places
      <3> QED
        BY <1>1, <2>1, <2>3, <3>1, <3>2
    <2> QED
      BY <1>4, <2>2, <2>3 DEF LoopConnect
  <1>5. ASSUME NEW t \in Tp, LoopWake(t) PROVE TryInv'
    <2>1. ~Locked /\ loops[t].sleep > 0
      BY <1>5 DEF LoopWake, Turn
    <2>2. UNCHANGED <<transports, urlOf, est, ended, ever>>
      BY <1>5 DEF LoopWake
    <2>3. CASE est[t]
      <3>1. Move(t, "sleep", "none")
        BY <1>5, <2>3 DEF LoopWake
      <3>2. \A u \in Tp : u # t => loops'[u] = loops[u]
        BY <2>1, <3>1, MoveEffect DEF Places
      <3>3. Trying(t)'
        BY <2>2, <2>3 DEF Trying
      <3> QED
        BY <1>1, <2>2, <3>2, <3>3
    <2>4. CASE ~est[t]
      <3>1. Move(t, "sleep", "check")
        BY <1>5, <2>1, <2>4 DEF LoopWake
      <3>2. /\ \A u \in Tp : u # t => loops'[u] = loops[u]
            /\ loops'[t]["check"] > 0
        BY <2>1, <3>1, MoveEffect DEF Places
      <3>3. Trying(t)'
        BY <3>2 DEF Trying, Places
      <3> QED
        BY <1>1, <2>2, <3>2, <3>3
    <2> QED
      BY <2>3, <2>4
  <1>6. ASSUME NEW t \in Tp, LoopCheck(t) PROVE TryInv'
    <2>1. loops[t].check > 0 /\ UNCHANGED <<transports, urlOf, est, ended, ever>>
      BY <1>6 DEF LoopCheck
    <2>2. CASE Wanted(t)
      <3>1. Move(t, "check", "connect")
        BY <1>0, <1>6, <2>2 DEF LoopCheck
      <3>2. /\ \A u \in Tp : u # t => loops'[u] = loops[u]
            /\ loops'[t]["connect"] > 0
        BY <2>1, <3>1, MoveEffect DEF Places
      <3>3. Trying(t)'
        BY <3>2 DEF Trying, Places
      <3> QED
        BY <1>1, <2>1, <3>2, <3>3
    <2>3. CASE ~Wanted(t)
      <3>1. Move(t, "check", "none")
        BY <1>6, <2>3 DEF LoopCheck
      <3>2. \A u \in Tp : u # t => loops'[u] = loops[u]
        BY <2>1, <3>1, MoveEffect DEF Places
      <3>3. ~Owned(t)
        BY <1>0, <2>3, OwnedIsWanted
      <3> QED
        BY <1>1, <2>1, <3>2, <3>3
    <2> QED
      BY <2>2, <2>3
  <1>7. ASSUME NEW t \in Tp, SessionEnds(t),
               UNCHANGED <<transports, urlOf, loops, ever>>
        PROVE  TryInv'
    <2>1. ended'[t] > 0 /\ \A u \in Tp : u # t => ended'[u] = ended[u]
      BY <1>7 DEF SessionEnds, FinderInv
    <2>2. \A u \in Tp : u # t => est'[u] = est[u]
      BY <1>7 DEF SessionEnds, FinderInv
    <2>3. Trying(t)'
      BY <2>1 DEF Trying
    <2> QED
      BY <1>1, <1>7, <2>1, <2>2, <2>3
  <1>8. ASSUME NEW t \in Tp, Drop(t) \/ ShutdownMissed(t) PROVE TryInv'
    BY <1>2, <1>7, <1>8 DEF Drop, ShutdownMissed
  (* On one thread no OnDisconnected finds the mutex taken.                *)
  <1>9. ASSUME NEW t \in Tp, OnDisconnectedDropped(t) PROVE FALSE
    BY <1>0, <1>9 DEF OnDisconnectedDropped, Turn
  <1>10. ASSUME NEW t \in Tp, OnDisconnected(t) PROVE TryInv'
    <2>1. UNCHANGED <<transports, urlOf, est, ever>>
      BY <1>10 DEF OnDisconnected
    <2>2. \A u \in Tp : u # t => ended'[u] = ended[u]
      BY <1>10 DEF OnDisconnected, FinderInv
    <2>3. CASE Wanted(t)
      <3>1. Move(t, "none", "connect")
        BY <1>10, <2>3 DEF OnDisconnected
      <3>2. /\ \A u \in Tp : u # t => loops'[u] = loops[u]
            /\ loops'[t]["connect"] > 0
        BY <3>1, MoveEffect DEF Places
      <3>3. Trying(t)'
        BY <3>2 DEF Trying, Places
      <3> QED
        BY <1>1, <2>1, <2>2, <3>2, <3>3
    <2>4. CASE ~Wanted(t)
      <3>1. loops' = loops
        BY <1>10, <2>4 DEF OnDisconnected
      <3>2. ~Owned(t)
        BY <1>0, <2>4, OwnedIsWanted
      <3> QED
        BY <1>1, <2>1, <2>2, <3>1, <3>2
    <2> QED
      BY <2>3, <2>4
  <1>11. ASSUME NEW t \in Tp, TellClient(t) PROVE TryInv'
    BY <1>2, <1>11 DEF TellClient
  <1>12. ASSUME NEW S \in SUBSET Url, OnZookeeperChilds(S) PROVE TryInv'
    <2>1. PICK new \in [S \ Listed -> Unused] :
            /\ \A u, v \in DOMAIN new : u # v => new[u] # new[v]
            /\ transports' = [u \in Url |-> IF u \notin S THEN NoTp
                                ELSE IF u \in Listed THEN transports[u] ELSE new[u]]
            /\ urlOf' = [t \in Tp |-> IF \E u \in DOMAIN new : new[u] = t
                                      THEN CHOOSE u \in DOMAIN new : new[u] = t
                                      ELSE urlOf[t]]
            /\ loops' = [t \in Tp |-> IF \E u \in DOMAIN new : new[u] = t
                                      THEN [NoLoops EXCEPT !.connect = 1] ELSE loops[t]]
      BY <1>12 DEF OnZookeeperChilds
    <2>2. UNCHANGED <<est, ended, ever>> /\ mode = "zk"
      BY <1>12 DEF OnZookeeperChilds
    <2>3. ASSUME NEW t \in Tp, \E u \in DOMAIN new : new[u] = t
          PROVE  Trying(t)' /\ urlOf[t] = NoUrl
      <3>1. loops'[t] = [NoLoops EXCEPT !.connect = 1]
        BY <2>1, <2>3
      <3>2. loops'[t]["connect"] > 0
        BY <3>1 DEF NoLoops
      <3> QED
        BY <2>3, <3>2 DEF Trying, Places, Unused
    <2>4. ASSUME NEW t \in Tp, ~\E u \in DOMAIN new : new[u] = t
          PROVE  (Trying(t) => Trying(t)') /\ urlOf'[t] = urlOf[t]
      BY <2>1, <2>2, <2>4 DEF Trying
    <2>5. ASSUME NEW u \in Url, u \in S \ Listed
          PROVE  /\ urlOf'[transports'[u]] = u
                 /\ \A t \in Tp : transports'[u] = t => Trying(t)'
      <3> PICK t \in Tp : new[u] = t
        BY <2>1, <2>5 DEF Unused
      <3>1. new[u] = t /\ transports'[u] = t /\ \E v \in DOMAIN new : new[v] = t
        BY <2>1, <2>5 DEF Unused
      <3>2. urlOf'[t] = CHOOSE v \in DOMAIN new : new[v] = t
        BY <2>1, <3>1
      <3>3. \A v \in DOMAIN new : new[v] = t => v = u
        BY <2>1, <2>5
      <3>4. urlOf'[t] = u
        BY <3>1, <3>2, <3>3
      <3>5. Trying(t)'
        BY <2>3, <3>1
      <3> QED
        BY <3>1, <3>4, <3>5
    <2>6. ASSUME NEW u \in Url, u \in S \cap Listed
          PROVE  /\ urlOf'[transports'[u]] = u
                 /\ \A t \in Tp : transports'[u] = t => Trying(t)'
      <3> PICK t \in Tp : transports[u] = t
        BY <2>6 DEF Listed, FinderInv
      <3>1. transports'[u] = t /\ transports[u] = t /\ t # NoTp
        BY <2>1, <2>6 DEF Listed
      <3>2. urlOf[t] = u /\ Owned(t)
        BY <1>0, <3>1 DEF TryInv, Owned
      <3>3. ~\E v \in DOMAIN new : new[v] = t
        BY <2>3, <3>1, <3>2, FinderAssumption
      <3>4. Trying(t)
        BY <1>0, <2>2, <3>1, <3>2 DEF TryInv
      <3> QED
        BY <2>4, <3>1, <3>2, <3>3, <3>4
    <2>7. ASSUME NEW u \in Url, u \notin S PROVE transports'[u] = NoTp
      BY <2>1, <2>7
    <2>8. \A t \in Tp : Owned(t)' => Trying(t)'
      <3> SUFFICES ASSUME NEW t \in Tp, NEW u \in Url, transports'[u] = t
                   PROVE  Trying(t)'
        BY DEF Owned
      <3>1. u \in S
        BY <2>7, FinderAssumption
      <3> QED
        BY <2>5, <2>6, <3>1
    <2>9. \A u \in Url : transports'[u] # NoTp => urlOf'[transports'[u]] = u
      BY <2>5, <2>6, <2>7
    <2> QED
      BY <2>8, <2>9 DEF TryInv
  <1>13. CASE ChildsEnd \/ UNCHANGED vars
    BY <1>2, <1>13 DEF ChildsEnd, vars
  <1>14. CASE Destroy
    BY <1>14 DEF Destroy
  <1> QED
    BY <1>3, <1>4, <1>5, <1>6, <1>8, <1>9, <1>10, <1>11, <1>12, <1>13, <1>14
    DEF Next

(* On one scheduler thread no handler finds the mutex taken: a transport   *)
(* that should be connected is, or something is under way that will try    *)
(* again, until the finder is destroyed (server_finder.cpp,                *)
(* RecursiveConnect and OnDisconnected).                                   *)
THEOREM NeverGivesUp == ~Parallel => (Spec => []KeepsTrying)
  <1> SUFFICES ASSUME ~Parallel PROVE Spec => []KeepsTrying
    OBVIOUS
  <1>1. FinderInv /\ TryInv => KeepsTrying
    BY TryingIsEffort DEF TryInv, KeepsTrying
  <1>2. FinderInv /\ TryInv /\ [Next]_vars => TryInv'
    BY TryStep
  <1> QED
    BY <1>1, <1>2, TryInit, FinderInit, FinderStep, PTL DEF Spec
=============================================================================
