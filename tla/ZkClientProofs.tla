--------------------------- MODULE ZkClientProofs ---------------------------
(***************************************************************************)
(* Proofs about ZkClient.                                                  *)
(***************************************************************************)
EXTENDS ZkClient, FiniteSetTheorems, TLAPS

SessionEvent(e) == e[2] # "child"

(* Types of what TypeOK leaves out; a handle that is up has a live session.*)
TypeInv ==
  /\ TypeOK
  /\ rewatch \in BOOLEAN
  /\ late \in BOOLEAN /\ misused \in BOOLEAN
  /\ live \subseteq Handle \cup {Other}
  /\ version \in 0..MaxChanges
  /\ \A h \in Handle : hs[h] = "up" => h \in live

(* No event of a session is in the queue; one only, of h and of that kind. *)
Quiet == \A i \in DOMAIN queue : ~SessionEvent(queue[i])

Only(h, what) ==
  \E i \in DOMAIN queue :
    /\ queue[i] = <<h, what>>
    /\ \A j \in DOMAIN queue : SessionEvent(queue[j]) => j = i

(* While no event is late: no handle is open, and none is heard of ...     *)
NoneOpen == connects = 1 /\ Open = {} /\ zk = NoHandle /\ Quiet

(* ... or one is, and zk_ and the queue agree on what became of it.        *)
OneOpen(h) ==
  /\ connects = 0
  /\ Open = {h}
  /\ \/ hs[h] = "new"  /\ zk = NoHandle /\ Quiet
     \/ hs[h] = "up"   /\ zk = NoHandle /\ Only(h, "connected")
     \/ hs[h] = "up"   /\ zk = h /\ Quiet
     \/ hs[h] = "lost" /\ zk = h /\ Only(h, "gone")

HandleInv == ~late => ~misused /\ (NoneOpen \/ \E h \in Handle : OneOpen(h))

-----------------------------------------------------------------------------
(* Types *)

LEMMA Handles ==
  /\ NoHandle \notin Handle
  /\ Other \notin Handle /\ Other # NoHandle
  /\ Unheard \in 0..Unheard /\ 0 \in 0..MaxChanges
  /\ 0..MaxChanges \subseteq 0..Unheard
  BY ZkAssumption DEF NoHandle, Handle, Other, Unheard

LEMMA TakeTypes ==
  ASSUME TypeInv, NEW what, Take(what)
  PROVE  /\ queue' \in Seq(Event) /\ Len(queue') <= MaxEvents
         /\ Head(queue) \in Event /\ Head(queue)[1] \in Handle
  <1>1. queue \in Seq(Event) /\ queue # <<>> /\ queue' = Tail(queue)
    BY DEF TypeInv, TypeOK, Take
  <1>2. queue' \in Seq(Event) /\ Len(queue') = Len(queue) - 1
    BY <1>1
  <1>3. Head(queue) \in Event
    BY <1>1
  <1> QED
    BY <1>2, <1>3, ZkAssumption DEF TypeInv, TypeOK, Event

LEMMA EmitTypes ==
  ASSUME TypeInv, NEW h \in Handle, NEW what \in {"connected", "gone", "child"},
         Emit(h, what)
  PROVE  queue' \in Seq(Event) /\ Len(queue') <= MaxEvents /\ late' \in BOOLEAN
  <1>1. queue \in Seq(Event) /\ <<h, what>> \in Event
    BY DEF TypeInv, TypeOK, Event
  <1>2. queue' \in Seq(Event) /\ Len(queue') = Len(queue) + 1
    BY <1>1 DEF Emit
  <1>3. Len(queue) < MaxEvents /\ Len(queue) \in Nat
    BY <1>1 DEF Emit
  <1>4. late' \in BOOLEAN
    BY DEF Emit, TypeInv
  <1> QED
    BY <1>2, <1>3, <1>4, ZkAssumption

(* A session that a call reaches is one that zookeeper keeps.              *)
LEMMA ReachesLive ==
  ASSUME TypeInv, Reaches
  PROVE  zk \in Handle /\ zk \in live /\ hs[zk] = "up"
  BY DEF TypeInv, TypeOK, Reaches

LEMMA CallTypes ==
  ASSUME TypeInv
  PROVE  /\ Use => misused' \in BOOLEAN
         /\ \A keys : GetChildren(keys) =>
              /\ armed' \in [Handle -> 0..Unheard]
              /\ heard' \in [Key -> 0..Unheard]
              /\ misused' \in BOOLEAN
         /\ \A n \in Node, left \in Nat : DelayCreateEphemeralNode(n, left) =>
              /\ ephemeral' = ephemeral \cup {n}
              /\ owner' \in [Node -> live \cup {NoHandle}]
              /\ retries' \in [Node -> Nat]
              /\ misused' \in BOOLEAN
  <1>1. Use => misused' \in BOOLEAN
    BY DEF Use, TypeInv
  <1>2. ASSUME NEW keys, GetChildren(keys)
        PROVE  /\ armed' \in [Handle -> 0..Unheard]
               /\ heard' \in [Key -> 0..Unheard]
    <2>1. CASE Reaches
      <3>1. version \in 0..Unheard
        BY Handles DEF TypeInv
      <3> QED
        BY <1>2, <2>1, <3>1, ReachesLive DEF GetChildren, TypeInv, TypeOK
    <2>2. CASE ~Reaches
      BY <1>2, <2>2 DEF GetChildren, TypeInv, TypeOK
    <2> QED
      BY <2>1, <2>2
  <1>3. ASSUME NEW n \in Node, NEW left \in Nat, DelayCreateEphemeralNode(n, left)
        PROVE  /\ owner' \in [Node -> live \cup {NoHandle}]
               /\ retries' \in [Node -> Nat]
    BY <1>3, ReachesLive DEF DelayCreateEphemeralNode, TypeInv, TypeOK
  <1> QED
    BY <1>1, <1>2, <1>3 DEF GetChildren, DelayCreateEphemeralNode

LEMMA NodesAfterTypes ==
  ASSUME TypeInv, NEW s
  PROVE  NodesAfter(s) \in [Node -> (live \ {s}) \cup {NoHandle}]
  BY DEF NodesAfter, TypeInv, TypeOK

LEMMA TypeInit == Init => TypeInv
  <1> SUFFICES ASSUME Init PROVE TypeInv
    OBVIOUS
  <1>1. queue \in Seq(Event) /\ Len(queue) <= MaxEvents
    BY ZkAssumption DEF Init
  <1>2. \A h \in Handle : hs[h] = "unused"
    BY DEF Init
  <1> QED
    BY <1>1, <1>2, Handles DEF Init, TypeInv, TypeOK

LEMMA TypeStep == TypeInv /\ [Next]_vars => TypeInv'
  <1> SUFFICES ASSUME TypeInv, [Next]_vars PROVE TypeInv'
    OBVIOUS
  <1> USE DEF TypeInv, TypeOK, watchVars, nodeVars, zooVars
  <1>1. ASSUME NEW h \in Handle, SessionUp(h) PROVE TypeInv'
    <2>1. queue' \in Seq(Event) /\ Len(queue') <= MaxEvents /\ late' \in BOOLEAN
      BY <1>1, EmitTypes DEF SessionUp
    <2>2. CASE hs' = [hs EXCEPT ![h] = "up"] /\ live' = live \cup {h}
      BY <1>1, <2>1, <2>2 DEF SessionUp
    <2>3. CASE hs' = [hs EXCEPT ![h] = "expired"] /\ live' = live
      BY <1>1, <2>1, <2>3 DEF SessionUp
    <2> QED
      BY <1>1, <2>2, <2>3 DEF SessionUp
  <1>2. ASSUME NEW h \in Handle, SessionLost(h) PROVE TypeInv'
    <2>1. queue' \in Seq(Event) /\ Len(queue') <= MaxEvents /\ late' \in BOOLEAN
      BY <1>2, EmitTypes DEF SessionLost
    <2> QED
      BY <1>2, <2>1 DEF SessionLost
  <1>3. ASSUME NEW s \in Handle \cup {Other}, Expire(s) PROVE TypeInv'
    BY <1>3, Handles, NodesAfterTypes DEF Expire
  <1>4. CASE ChildrenChange
    BY <1>4, ZkAssumption DEF ChildrenChange
  <1>5. ASSUME NEW h \in Handle, ChildEvent(h) PROVE TypeInv'
    <2>1. queue' \in Seq(Event) /\ Len(queue') <= MaxEvents /\ late' \in BOOLEAN
      BY <1>5, EmitTypes DEF ChildEvent
    <2> QED
      BY <1>5, <2>1, Handles DEF ChildEvent
  <1>6. CASE Connect
    BY <1>6 DEF Connect
  <1>7. CASE OnConnected
    BY <1>7, TakeTypes DEF OnConnected
  <1>8. CASE Rewatch
    BY <1>8, CallTypes DEF Rewatch
  <1>9. CASE OnGone
    <2>1. queue' \in Seq(Event) /\ Len(queue') <= MaxEvents
      BY <1>9, TakeTypes DEF OnGone
    <2>2. misused' \in BOOLEAN
      BY <1>9, CallTypes DEF OnGone
    <2>3. /\ hs' \in [Handle -> {"unused", "new", "up", "lost", "expired", "closed"}]
          /\ armed' \in [Handle -> 0..Unheard]
      BY <1>9, Handles DEF OnGone
    <2>4. /\ live' \subseteq live
          /\ owner' \in [Node -> live' \cup {NoHandle}]
          /\ \A h \in Handle : hs'[h] = "up" => h \in live'
      <3>1. CASE zk = NoHandle
        BY <1>9, <3>1 DEF OnGone
      <3>2. CASE zk # NoHandle /\ hs[zk] = "up"
        BY <1>9, <3>2, NodesAfterTypes DEF OnGone
      <3>3. CASE zk # NoHandle /\ hs[zk] # "up"
        BY <1>9, <3>3 DEF OnGone
      <3> QED
        BY <3>1, <3>2, <3>3
    <2> QED
      BY <1>9, <2>1, <2>2, <2>3, <2>4 DEF OnGone
  <1>10. CASE OnChild
    BY <1>10, TakeTypes, CallTypes DEF OnChild
  <1>11. ASSUME NEW n \in Node, Recreate(n) PROVE TypeInv'
    BY <1>11, CallTypes DEF Recreate
  <1>12. ASSUME NEW k \in Key, Watch(k) PROVE TypeInv'
    BY <1>12, CallTypes DEF Watch
  <1>13. ASSUME NEW k \in Key, Unwatch(k) PROVE TypeInv'
    BY <1>13 DEF Unwatch
  <1>14. ASSUME NEW n \in Node, Register(n) PROVE TypeInv'
    BY <1>14, CallTypes DEF Register
  <1>15. ASSUME NEW n \in Node, Retry(n) PROVE TypeInv'
    <2>1. retries[n] - 1 \in Nat
      BY <1>15 DEF Retry
    <2> QED
      BY <1>15, <2>1, CallTypes DEF Retry
  <1>16. ASSUME NEW n \in Node, DeleteNode(n) PROVE TypeInv'
    BY <1>16, CallTypes DEF DeleteNode
  <1>17. CASE UNCHANGED vars
    BY <1>17 DEF vars
  <1> QED
    BY <1>1, <1>2, <1>3, <1>4, <1>5, <1>6, <1>7, <1>8, <1>9, <1>10, <1>11,
       <1>12, <1>13, <1>14, <1>15, <1>16, <1>17 DEF Next, OnWatch

(* Types hold for every number of keys, nodes, losses and changes; with    *)
(* them, that only sessions zookeeper keeps own nodes, whatever expires    *)
(* while ZookeeperClient::OnWatch and the callers use the handle.          *)
THEOREM TypesHold == Spec => []TypeOK
  <1>1. TypeInv => TypeOK
    BY DEF TypeInv
  <1> QED
    BY <1>1, TypeInit, TypeStep, PTL DEF Spec

-----------------------------------------------------------------------------
(* One handle *)

LEMMA EmitQueue ==
  ASSUME TypeInv, NEW h \in Handle, NEW what \in {"connected", "gone", "child"},
         Emit(h, what)
  PROVE  /\ DOMAIN queue' = DOMAIN queue \cup {Len(queue) + 1}
         /\ Len(queue) + 1 \notin DOMAIN queue
         /\ \A i \in DOMAIN queue : queue'[i] = queue[i]
         /\ queue'[Len(queue) + 1] = <<h, what>>
  <1>1. queue \in Seq(Event) /\ <<h, what>> \in Event /\ Len(queue) \in Nat
    BY DEF TypeInv, TypeOK, Event
  <1>2. queue' = Append(queue, <<h, what>>) /\ Len(queue') = Len(queue) + 1
    BY <1>1 DEF Emit
  <1>3. DOMAIN queue' = 1..(Len(queue) + 1) /\ DOMAIN queue = 1..Len(queue)
    BY <1>1, <1>2
  <1> QED
    BY <1>1, <1>2, <1>3

LEMMA EmitSession ==
  ASSUME TypeInv, NEW h \in Handle, NEW what \in {"connected", "gone"},
         Emit(h, what), ~late'
  PROVE  /\ ~late
         /\ Quiet => Only(h, what)'
         /\ \A w \in {"connected", "gone"} : ~Only(h, w)
  <1>1. ~late /\ \A w \in {"connected", "gone"} : ~Only(h, w)
    BY DEF Emit, Only
  <1>2. ASSUME Quiet PROVE Only(h, what)'
    BY <1>2, EmitQueue DEF Quiet, Only, SessionEvent
  <1> QED
    BY <1>1, <1>2

LEMMA EmitChild ==
  ASSUME TypeInv, NEW h \in Handle, Emit(h, "child")
  PROVE  /\ late' = late
         /\ Quiet => Quiet'
         /\ \A g, w : Only(g, w) => Only(g, w)'
  <1>1. late' = late
    BY DEF Emit, TypeInv
  <1> DEFINE n == Len(queue) + 1
  <1>2. /\ DOMAIN queue' = DOMAIN queue \cup {n}
        /\ \A i \in DOMAIN queue : queue'[i] = queue[i]
        /\ ~SessionEvent(queue'[n])
    <2>1. /\ DOMAIN queue' = DOMAIN queue \cup {n}
          /\ \A i \in DOMAIN queue : queue'[i] = queue[i]
          /\ queue'[n] = <<h, "child">>
      BY EmitQueue
    <2>2. ~SessionEvent(<<h, "child">>)
      BY DEF SessionEvent
    <2> QED
      BY <2>1, <2>2
  <1> HIDE DEF n
  <1>3. Quiet => Quiet'
    BY <1>2 DEF Quiet, SessionEvent
  <1>4. ASSUME NEW g, NEW w, Only(g, w) PROVE Only(g, w)'
    BY <1>2, <1>4 DEF Only, SessionEvent
  <1> QED
    BY <1>1, <1>3, <1>4

LEMMA TakeQueue ==
  ASSUME TypeInv, NEW what, Take(what)
  PROVE  /\ 1 \in DOMAIN queue /\ queue[1] = Head(queue)
         /\ \A i \in DOMAIN queue' : /\ i + 1 \in DOMAIN queue /\ i + 1 # 1
                                     /\ queue'[i] = queue[i + 1]
         /\ \A j \in DOMAIN queue \ {1} : /\ j - 1 \in DOMAIN queue'
                                          /\ queue'[j - 1] = queue[j]
  <1>1. queue \in Seq(Event) /\ queue # <<>> /\ queue' = Tail(queue)
    BY DEF TypeInv, TypeOK, Take
  <1>2. /\ DOMAIN queue = 1..Len(queue) /\ DOMAIN queue' = 1..(Len(queue) - 1)
        /\ Len(queue) \in Nat \ {0}
    BY <1>1
  <1> QED
    BY <1>1, <1>2

(* The one event of a session is taken: the queue is quiet after it.       *)
LEMMA TakeSession ==
  ASSUME TypeInv, NEW what \in {"connected", "gone"}, Take(what)
  PROVE  /\ ~Quiet
         /\ \A g, w : Only(g, w) => Head(queue) = <<g, w>> /\ w = what /\ Quiet'
  <1>1. SessionEvent(queue[1]) /\ 1 \in DOMAIN queue /\ queue[1][2] = what
    BY TakeQueue DEF Take, SessionEvent
  <1>2. ASSUME NEW g, NEW w, Only(g, w)
        PROVE  Head(queue) = <<g, w>> /\ w = what /\ Quiet'
    <2>1. PICK i \in DOMAIN queue :
            /\ queue[i] = <<g, w>>
            /\ \A j \in DOMAIN queue : SessionEvent(queue[j]) => j = i
      BY <1>2 DEF Only
    <2>2. i = 1
      BY <1>1, <2>1
    <2>3. Head(queue) = <<g, w>> /\ w = what
      BY <1>1, <2>1, <2>2, TakeQueue
    <2>4. Quiet'
      BY <2>1, <2>2, TakeQueue DEF Quiet, SessionEvent
    <2> QED
      BY <2>3, <2>4
  <1> QED
    BY <1>1, <1>2 DEF Quiet

LEMMA TakeChild ==
  ASSUME TypeInv, Take("child")
  PROVE  /\ Quiet => Quiet'
         /\ \A g : \A w \in {"connected", "gone"} : Only(g, w) => Only(g, w)'
  <1>1. 1 \in DOMAIN queue /\ queue[1][2] = "child"
    BY TakeQueue DEF Take
  <1>2. Quiet => Quiet'
    BY TakeQueue DEF Quiet, SessionEvent
  <1>3. ASSUME NEW g, NEW w \in {"connected", "gone"}, Only(g, w)
        PROVE  Only(g, w)'
    <2>1. PICK i \in DOMAIN queue :
            /\ queue[i] = <<g, w>>
            /\ \A j \in DOMAIN queue : SessionEvent(queue[j]) => j = i
      BY <1>3 DEF Only
    <2>2. i # 1
      BY <1>1, <2>1
    <2>3. i - 1 \in DOMAIN queue' /\ queue'[i - 1] = <<g, w>>
      BY <2>1, <2>2, TakeQueue
    <2>4. \A j \in DOMAIN queue' : SessionEvent(queue'[j]) => j = i - 1
      <3>1. SUFFICES ASSUME NEW j \in DOMAIN queue', SessionEvent(queue'[j])
                     PROVE  j = i - 1
        OBVIOUS
      <3>2. j + 1 \in DOMAIN queue /\ queue'[j] = queue[j + 1]
        BY TakeQueue
      <3>3. j + 1 = i
        BY <2>1, <3>1, <3>2 DEF SessionEvent
      <3>4. j \in Int
        BY DEF TypeInv, TypeOK, Take
      <3> QED
        BY <3>3, <3>4
    <2> QED
      BY <2>3, <2>4 DEF Only, SessionEvent
  <1> QED
    BY <1>2, <1>3

(* While no event is late, the client's handle has not been closed.        *)
LEMMA HandleUsable ==
  ASSUME TypeInv, HandleInv, ~late, Use
  PROVE  misused' = misused
  <1>1. zk = NoHandle \/ hs[zk] # "closed"
    BY DEF HandleInv, NoneOpen, OneOpen
  <1> QED
    BY <1>1 DEF Use, TypeInv

(* A step that leaves the handles alone keeps the invariant if it takes or *)
(* adds no event of a session.                                             *)
LEMMA HandlesAlone ==
  ASSUME TypeInv, HandleInv, UNCHANGED <<zk, connects, hs, late>>,
         UNCHANGED misused \/ Use,
         \/ UNCHANGED queue
         \/ Take("child")
         \/ \E h \in Handle : Emit(h, "child")
  PROVE  HandleInv'
  <1> SUFFICES ASSUME ~late PROVE HandleInv'
    BY DEF HandleInv
  <1>1. misused' = misused
    BY HandleUsable
  <1>2. /\ Quiet => Quiet'
        /\ \A g : \A w \in {"connected", "gone"} : Only(g, w) => Only(g, w)'
    <2>1. CASE UNCHANGED queue
      BY <2>1 DEF Quiet, Only
    <2>2. CASE Take("child")
      BY <2>2, TakeChild
    <2>3. CASE \E h \in Handle : Emit(h, "child")
      BY <2>3, EmitChild
    <2> QED
      BY <2>1, <2>2, <2>3
  <1>3. Open' = Open
    BY DEF Open
  <1>4. NoneOpen => NoneOpen'
    BY <1>2, <1>3 DEF NoneOpen
  <1>5. ASSUME NEW h \in Handle, OneOpen(h) PROVE OneOpen(h)'
    BY <1>2, <1>3, <1>5 DEF OneOpen
  <1> QED
    BY <1>1, <1>4, <1>5 DEF HandleInv

LEMMA HandleInit == Init => HandleInv
  <1> SUFFICES ASSUME Init PROVE HandleInv
    OBVIOUS
  <1>1. Open = {} /\ Quiet
    BY DEF Init, Open, Quiet
  <1> QED
    BY <1>1 DEF Init, HandleInv, NoneOpen

LEMMA HandleStep == TypeInv /\ HandleInv /\ [Next]_vars => HandleInv'
  <1> SUFFICES ASSUME TypeInv, HandleInv, [Next]_vars PROVE HandleInv'
    OBVIOUS
  <1> USE DEF watchVars, nodeVars, zooVars
  <1>1. ASSUME NEW h \in Handle, SessionUp(h) PROVE HandleInv'
    <2> SUFFICES ASSUME ~late' PROVE HandleInv'
      BY DEF HandleInv
    <2>1. PICK what \in {"connected", "gone"} : Emit(h, what)
      BY <1>1 DEF SessionUp
    <2>2. /\ ~late /\ ~misused /\ misused' = misused
          /\ Quiet => Only(h, what)'
          /\ \A w \in {"connected", "gone"} : ~Only(h, w)
      BY <1>1, <2>1, EmitSession DEF SessionUp, HandleInv
    <2>3. h \in Open
      BY <1>1 DEF SessionUp, Open
    <2>4. OneOpen(h)
      BY <2>2, <2>3 DEF HandleInv, NoneOpen, OneOpen
    <2>5. hs[h] = "new" /\ zk = NoHandle /\ Quiet
      BY <1>1, <2>2, <2>4 DEF SessionUp, OneOpen
    <2>6. hs' = [hs EXCEPT ![h] = "up"] /\ Emit(h, "connected")
      BY <1>1, <2>5 DEF SessionUp
    <2>7. hs'[h] = "up" /\ Only(h, "connected")'
      BY <2>2, <2>5, <2>6, EmitSession DEF TypeInv, TypeOK
    <2>8. Open' = Open
      BY <2>5, <2>6 DEF Open, TypeInv, TypeOK
    <2>9. OneOpen(h)'
      BY <1>1, <2>4, <2>5, <2>7, <2>8 DEF SessionUp, OneOpen
    <2> QED
      BY <2>2, <2>9 DEF HandleInv
  <1>2. ASSUME NEW h \in Handle, SessionLost(h) PROVE HandleInv'
    <2> SUFFICES ASSUME ~late' PROVE HandleInv'
      BY DEF HandleInv
    <2>1. /\ ~late /\ ~misused /\ misused' = misused
          /\ Quiet => Only(h, "gone")'
          /\ \A w \in {"connected", "gone"} : ~Only(h, w)
      BY <1>2, EmitSession DEF SessionLost, HandleInv
    <2>2. h \in Open
      BY <1>2 DEF SessionLost, Open
    <2>3. OneOpen(h)
      BY <2>1, <2>2 DEF HandleInv, NoneOpen, OneOpen
    <2>4. hs[h] = "up" /\ zk = h /\ Quiet
      BY <1>2, <2>1, <2>3 DEF SessionLost, OneOpen
    <2>5. hs'[h] = "lost" /\ Open' = Open
      BY <1>2, <2>4 DEF SessionLost, Open, TypeInv, TypeOK
    <2>6. OneOpen(h)'
      BY <1>2, <2>1, <2>3, <2>4, <2>5 DEF SessionLost, OneOpen
    <2> QED
      BY <2>1, <2>6 DEF HandleInv
  <1>3. ASSUME NEW s \in Handle \cup {Other}, Expire(s) PROVE HandleInv'
    BY <1>3, HandlesAlone DEF Expire
  <1>4. CASE ChildrenChange
    BY <1>4, HandlesAlone DEF ChildrenChange
  <1>5. ASSUME NEW h \in Handle, ChildEvent(h) PROVE HandleInv'
    <2>1. Emit(h, "child") /\ UNCHANGED late
      BY <1>5, EmitChild DEF ChildEvent
    <2> QED
      BY <1>5, <2>1, HandlesAlone DEF ChildEvent
  <1>6. CASE Connect
    <2> SUFFICES ASSUME ~late PROVE HandleInv'
      BY <1>6 DEF Connect, HandleInv
    <2>1. NoneOpen /\ ~misused
      BY <1>6 DEF Connect, HandleInv, OneOpen
    <2>2. PICK h \in Handle : hs[h] = "unused" /\ hs' = [hs EXCEPT ![h] = "new"]
      BY <1>6 DEF Connect
    <2>3. hs'[h] = "new" /\ Open' = {h}
      BY <2>1, <2>2 DEF NoneOpen, Open, TypeInv, TypeOK
    <2>4. OneOpen(h)'
      BY <1>6, <2>1, <2>3 DEF Connect, NoneOpen, OneOpen, Quiet
    <2> QED
      BY <1>6, <2>1, <2>4 DEF Connect, HandleInv
  <1>7. CASE OnConnected
    <2> SUFFICES ASSUME ~late PROVE HandleInv'
      BY <1>7 DEF OnConnected, HandleInv
    <2>1. /\ ~Quiet
          /\ \A g, w : Only(g, w) => /\ Head(queue) = <<g, w>>
                                     /\ w = "connected" /\ Quiet'
      BY <1>7, TakeSession DEF OnConnected
    <2>2. PICK h \in Handle : OneOpen(h)
      BY <2>1 DEF HandleInv, NoneOpen
    <2>3. hs[h] = "up" /\ Only(h, "connected")
      BY <2>1, <2>2 DEF OneOpen
    <2>4. zk' = h /\ Quiet' /\ hs' = hs /\ Open' = Open
      BY <1>7, <2>1, <2>3 DEF OnConnected, Open
    <2>5. OneOpen(h)'
      BY <1>7, <2>2, <2>3, <2>4 DEF OnConnected, OneOpen
    <2> QED
      BY <1>7, <2>5 DEF OnConnected, HandleInv
  <1>8. CASE Rewatch
    BY <1>8, HandlesAlone DEF Rewatch, GetChildren
  <1>9. CASE OnGone
    <2> SUFFICES ASSUME ~late PROVE HandleInv'
      BY <1>9 DEF OnGone, HandleInv
    <2>1. ~Quiet /\ \A g, w : Only(g, w) => w = "gone" /\ Quiet'
      BY <1>9, TakeSession DEF OnGone
    <2>2. PICK h \in Handle : OneOpen(h)
      BY <2>1 DEF HandleInv, NoneOpen
    <2>3. zk = h /\ Quiet'
      BY <2>1, <2>2 DEF OneOpen
    <2>4. hs' = [hs EXCEPT ![h] = "closed"]
      BY <1>9, <2>3, Handles DEF OnGone
    <2>5. Open' = {}
      BY <2>2, <2>4 DEF OneOpen, Open, TypeInv, TypeOK
    <2>6. misused' = misused
      BY <1>9, HandleUsable DEF OnGone
    <2>7. NoneOpen'
      BY <1>9, <2>2, <2>3, <2>5 DEF OnGone, NoneOpen, OneOpen
    <2> QED
      BY <1>9, <2>6, <2>7 DEF OnGone, HandleInv
  <1>10. CASE OnChild
    BY <1>10, HandlesAlone DEF OnChild, GetChildren
  <1>11. ASSUME NEW n \in Node, Recreate(n) PROVE HandleInv'
    BY <1>11, HandlesAlone DEF Recreate, DelayCreateEphemeralNode
  <1>12. ASSUME NEW k \in Key, Watch(k) PROVE HandleInv'
    BY <1>12, HandlesAlone DEF Watch, GetChildren
  <1>13. ASSUME NEW k \in Key, Unwatch(k) PROVE HandleInv'
    BY <1>13, HandlesAlone DEF Unwatch
  <1>14. ASSUME NEW n \in Node, Register(n) PROVE HandleInv'
    BY <1>14, HandlesAlone DEF Register, DelayCreateEphemeralNode
  <1>15. ASSUME NEW n \in Node, Retry(n) PROVE HandleInv'
    BY <1>15, HandlesAlone DEF Retry, DelayCreateEphemeralNode
  <1>16. ASSUME NEW n \in Node, DeleteNode(n) PROVE HandleInv'
    BY <1>16, HandlesAlone DEF DeleteNode
  <1>17. CASE UNCHANGED vars
    BY <1>17, HandlesAlone DEF vars
  <1> QED
    BY <1>1, <1>2, <1>3, <1>4, <1>5, <1>6, <1>7, <1>8, <1>9, <1>10, <1>11,
       <1>12, <1>13, <1>14, <1>15, <1>16, <1>17 DEF Next, OnWatch

(* However often sessions are lost, if OnWatch takes each event of one     *)
(* before the next comes, the client has one handle or one Connect to make *)
(* it, and hands no closed handle to zookeeper.                            *)
THEOREM OneHandleHolds == Spec => []OneHandle
  <1>1. HandleInv => OneHandle
    <2>1. \A h : Cardinality({h}) = 1
      BY FS_Singleton
    <2>2. Cardinality({}) = 0
      BY FS_EmptySet
    <2> QED
      BY <2>1, <2>2 DEF HandleInv, OneHandle, NoneOpen, OneOpen
  <1> QED
    BY <1>1, TypeInit, TypeStep, HandleInit, HandleStep, PTL DEF Spec
=============================================================================
