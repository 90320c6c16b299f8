------------------------ MODULE ClientSessionProofs ------------------------
(***************************************************************************)
(* Proofs about the sessions of ClientCall's transports: that a transport  *)
(* is offered and has a group exactly while it should, that no group with  *)
(* a waiting call is left without an OnDisconnected that will close it,    *)
(* and that no reply a call waits for is discarded.  They hold for clients *)
(* with and without a receive timeout, if no transport connects again      *)
(* while OnDisconnected of its last session runs.                          *)
(***************************************************************************)
EXTENDS ClientCallProofs

sessVars == <<dispatcher, channels, lastGrp, closed, est, up, down, dgrp, dslot>>

(* The phases of a session, from Connect to the end of OnDisconnected.     *)
Offered(c)  == up[c] \in {"added", "open"} \/ down[c] = "lost"
HasGroup(c) == up[c] = "open" \/ down[c] \in {"lost", "deleted"}

PhaseInv ==
  \A c \in Conn :
    /\ up[c] = "none" \/ down[c] = "none"
    /\ est[c] => up[c] # "none"
    /\ dispatcher[c] = IF Offered(c) THEN 1 ELSE 0
    /\ channels[c] # 0 <=> HasGroup(c)
    /\ dgrp[c] # 0 <=> down[c] = "closing"
    /\ down[c] # "closing" => dslot[c] = 0

(* A group belongs to one transport at most, open while it is in the table *)
(* and closed up to where OnDisconnected is; one that belongs to none is   *)
(* closed.                                                                 *)
Belongs(g, c) == g # 0 /\ (channels[c] = g \/ dgrp[c] = g)

GroupInv ==
  /\ \A c, d \in Conn, g \in Grp : Belongs(g, c) /\ Belongs(g, d) => c = d
  /\ \A c \in Conn, g \in Grp : Belongs(g, c) => g <= lastGrp
  /\ \A c \in Conn : channels[c] # 0 => closed[channels[c]] = {}
  /\ \A c \in Conn : dgrp[c] # 0 => closed[dgrp[c]] = 0..(dslot[c] - 1)
  /\ \A g \in Grp : g > lastGrp => closed[g] = {}
  /\ \A g \in Grp : g <= lastGrp /\ closed[g] # Slot =>
                      \E c \in Conn : Belongs(g, c)

(* The group a call found is its transport's, as long as it is anyone's.   *)
HolderInv ==
  \A k \in Caller :
    /\ pc[k] \notin HasGrp => grp[k] = 0
    /\ grp[k] <= lastGrp
    /\ \A c \in Conn : Belongs(grp[k], c) => c = tp[k]

(* Where the replies are that a call may wait for: a request on the wire,  *)
(* or its reply under OnResponse, was made by a call that has sent it, and *)
(* that call's group is the one OnResponse looks in.                       *)
Sent == {"count", "wait", "uncount", "erase"}
OnTheWay(c, i) == i \in wire[c] \/ (rx[c].at # "idle" /\ rx[c].rid = i)

WireInv ==
  \A c \in Conn :
    /\ up[c] = "none" => wire[c] = {}
    /\ rx[c].at # "idle" => up[c] = "open" /\ rx[c].grp = channels[c]
    /\ \A i \in MsgId : OnTheWay(c, i) =>
         /\ i <= msgId
         /\ \A k \in Caller : id[k] = i => pc[k] \in Sent
         /\ \A k \in Caller : Awaits(k, i) => tp[k] = c /\ grp[k] = channels[c]

-----------------------------------------------------------------------------
(* The steps of a session: all other steps leave the sessions alone.       *)
Connects(c) ==
  /\ Established(c)
  /\ UNCHANGED <<dispatcher, channels, lastGrp, closed, down, dgrp, dslot>>

SessionMove(c) ==
  \/ Connects(c) \/ Drop(c) \/ SessionClose(c)
  \/ OnConnectedAdd(c) \/ OnConnectedGroup(c)
  \/ OnDisconnectedDel(c) \/ OnDisconnectedErase(c) \/ OnDisconnectedClose(c)

LEMMA SessionSteps ==
  ASSUME [Next]_vars
  PROVE  UNCHANGED sessVars \/ \E c \in Conn : SessionMove(c)
  <1> USE DEF callVars, implVars, grpVars, connVars, netVars, sessVars
  <1>1. ASSUME NEW k \in Caller,
               \/ CallStart(k) \/ CallWndFull(k) \/ CallTimeout(k) \/ CallGet(k)
               \/ CallGetNone(k) \/ CallNoEstab(k) \/ CallNewId(k)
               \/ CallOneWay(k) \/ CallFind(k) \/ CallInsert(k) \/ CallSend(k)
               \/ CallCount(k) \/ CallPop(k) \/ CallUncount(k) \/ CallErase(k)
        PROVE  UNCHANGED sessVars
    BY <1>1 DEF CallStart, CallWndFull, CallTimeout, CallGet, CallGetNone,
                CallNoEstab, CallNewId, CallOneWay, CallFind, CallInsert,
                CallSend, CallCount, CallPop, CallUncount, CallErase
  <1>2. ASSUME NEW k \in Caller, CallReconnect(k)
        PROVE  UNCHANGED sessVars \/ \E c \in Conn : SessionMove(c)
    BY <1>2 DEF CallReconnect, SessionMove, Connects
  <1>3. ASSUME NEW c \in Conn, Connect(c) PROVE SessionMove(c)
    BY <1>3 DEF Connect, SessionMove, Connects
  <1>4. ASSUME NEW c \in Conn, \/ OnResponseLookup(c) \/ OnResponsePush(c)
                               \/ \E i \in MsgId : OnResponseFind(c, i)
        PROVE  UNCHANGED sessVars
    BY <1>4 DEF OnResponseLookup, OnResponsePush, OnResponseFind
  <1>5. ASSUME NEW i \in MsgId, SendFailed(i) PROVE UNCHANGED sessVars
    BY <1>5 DEF SendFailed
  <1>6. CASE UNCHANGED vars
    BY <1>6 DEF vars
  <1> QED
    BY <1>1, <1>2, <1>3, <1>4, <1>5, <1>6
    DEF Next, CallerStep, Callback, SessionMove

LEMMA PhaseStep ==
  ~Overlap /\ TypeInv /\ PhaseInv /\ [Next]_vars => PhaseInv'
  <1> SUFFICES ASSUME ~Overlap, TypeInv, PhaseInv, [Next]_vars PROVE PhaseInv'
    OBVIOUS
  <1> USE ConstAssumption DEF TypeInv, TypeOK, ImplTypeOK, ConnTypeOK, PhaseInv,
          Offered, HasGroup
  <1>1. CASE UNCHANGED sessVars
    BY <1>1 DEF sessVars
  <1>2. ASSUME NEW c \in Conn, Connects(c) PROVE PhaseInv'
    BY <1>2 DEF Connects, Established
  <1>3. ASSUME NEW c \in Conn, Drop(c) PROVE PhaseInv'
    BY <1>3 DEF Drop, implVars, grpVars
  <1>4. ASSUME NEW c \in Conn, SessionClose(c) PROVE PhaseInv'
    BY <1>4 DEF SessionClose, implVars, grpVars
  <1>5. ASSUME NEW c \in Conn, OnConnectedAdd(c) PROVE PhaseInv'
    BY <1>5 DEF OnConnectedAdd, grpVars
  <1>6. ASSUME NEW c \in Conn, OnConnectedGroup(c) PROVE PhaseInv'
    BY <1>6 DEF OnConnectedGroup
  <1>7. ASSUME NEW c \in Conn, OnDisconnectedDel(c) PROVE PhaseInv'
    BY <1>7 DEF OnDisconnectedDel, grpVars
  <1>8. ASSUME NEW c \in Conn, OnDisconnectedErase(c) PROVE PhaseInv'
    BY <1>8 DEF OnDisconnectedErase, grpVars
  <1>9. ASSUME NEW c \in Conn, OnDisconnectedClose(c) PROVE PhaseInv'
    BY <1>9 DEF OnDisconnectedClose, implVars
  <1> QED
    BY <1>1, <1>2, <1>3, <1>4, <1>5, <1>6, <1>7, <1>8, <1>9, SessionSteps
    DEF SessionMove

LEMMA UpToNext == ASSUME NEW n \in Nat PROVE (0..(n - 1)) \cup {n} = 0..n
  OBVIOUS

LEMMA GroupStep ==
  TypeInv /\ PhaseInv /\ GroupInv /\ [Next]_vars => GroupInv'
  <1> SUFFICES ASSUME TypeInv, PhaseInv, GroupInv, [Next]_vars PROVE GroupInv'
    OBVIOUS
  <1> USE ConstAssumption DEF TypeInv, TypeOK, ImplTypeOK, ConnTypeOK
  <1>1. ASSUME channels' = channels, dgrp' = dgrp, dslot' = dslot,
               closed' = closed, lastGrp' = lastGrp
        PROVE  GroupInv'
    BY <1>1 DEF GroupInv, Belongs
  <1>2. ASSUME NEW c \in Conn, OnConnectedGroup(c) PROVE GroupInv'
    <2>1. /\ channels' = [channels EXCEPT ![c] = lastGrp + 1]
          /\ lastGrp' = lastGrp + 1 /\ lastGrp + 1 \in Grp
          /\ UNCHANGED <<dgrp, dslot, closed>>
      BY <1>2 DEF OnConnectedGroup, Grp
    <2>2. channels[c] = 0
      BY <1>2 DEF OnConnectedGroup, PhaseInv, HasGroup
    <2>3. \A g \in Grp, d \in Conn :
            Belongs(g, d)' => Belongs(g, d) \/ (d = c /\ g = lastGrp + 1)
      BY <2>1 DEF Belongs
    <2>4. \A d \in Conn : ~Belongs(lastGrp + 1, d)
      BY <2>1 DEF GroupInv, Grp
    <2>5. /\ \A d, e \in Conn, g \in Grp : (Belongs(g, d) /\ Belongs(g, e))' => d = e
          /\ \A d \in Conn, g \in Grp : Belongs(g, d)' => g <= lastGrp'
      <3>1. \A d, e \in Conn, g \in Grp : (Belongs(g, d) /\ Belongs(g, e))' => d = e
        <4> SUFFICES ASSUME NEW d \in Conn, NEW e \in Conn, NEW g \in Grp,
                            Belongs(g, d)', Belongs(g, e)'
                     PROVE  d = e
          OBVIOUS
        <4>1. CASE g = lastGrp + 1
          <5>1. ~Belongs(g, d) /\ ~Belongs(g, e)
            BY <2>4, <4>1
          <5> QED
            BY <2>3, <5>1
        <4>2. CASE g # lastGrp + 1
          <5>1. Belongs(g, d) /\ Belongs(g, e)
            BY <2>3, <4>2
          <5> QED
            BY <5>1 DEF GroupInv
        <4> QED
          BY <4>1, <4>2
      <3>2. \A d \in Conn, g \in Grp : Belongs(g, d)' => g <= lastGrp'
        BY <2>1, <2>3 DEF GroupInv, Grp
      <3> QED
        BY <3>1, <3>2
    <2>6. closed[lastGrp + 1] = {}
      BY <2>1 DEF GroupInv, Grp
    <2>7. \A d \in Conn : channels'[d] # 0 => closed'[channels'[d]] = {}
      BY <2>1, <2>6 DEF GroupInv
    <2>8. \A d \in Conn : dgrp'[d] # 0 => closed'[dgrp'[d]] = 0..(dslot'[d] - 1)
      BY <2>1 DEF GroupInv
    <2>9. \A g \in Grp : g > lastGrp' => closed'[g] = {}
      BY <2>1 DEF GroupInv, Grp
    <2>10. ASSUME NEW g \in Grp, g <= lastGrp', closed'[g] # Slot
           PROVE  \E d \in Conn : Belongs(g, d)'
      <3>1. CASE g = lastGrp + 1
        BY <2>1, <3>1 DEF Belongs, Grp
      <3>2. CASE g # lastGrp + 1
        <4>1. g <= lastGrp /\ closed[g] # Slot
          BY <2>1, <2>10, <3>2 DEF Grp
        <4>2. PICK d \in Conn : Belongs(g, d)
          BY <4>1 DEF GroupInv
        <4> QED
          BY <2>1, <2>2, <4>2 DEF Belongs
      <3> QED
        BY <3>1, <3>2
    <2> QED
      BY <2>5, <2>7, <2>8, <2>9, <2>10 DEF GroupInv
  <1>3. ASSUME NEW c \in Conn, OnDisconnectedErase(c) PROVE GroupInv'
    <2>1. /\ channels' = [channels EXCEPT ![c] = 0]
          /\ dgrp' = [dgrp EXCEPT ![c] = channels[c]]
          /\ UNCHANGED <<dslot, closed, lastGrp>>
      BY <1>3 DEF OnDisconnectedErase, grpVars
    <2>2. dgrp[c] = 0 /\ dslot[c] = 0 /\ channels[c] # 0
      BY <1>3 DEF OnDisconnectedErase, PhaseInv, HasGroup
    <2>3. \A g \in Grp, d \in Conn : Belongs(g, d)' <=> Belongs(g, d)
      BY <2>1, <2>2 DEF Belongs
    <2>4. \A d \in Conn : channels'[d] # 0 => closed'[channels'[d]] = {}
      BY <2>1 DEF GroupInv
    <2>5. closed[channels[c]] = {} /\ 0..(dslot[c] - 1) = {}
      BY <2>2 DEF GroupInv
    <2>6. \A d \in Conn : dgrp'[d] # 0 => closed'[dgrp'[d]] = 0..(dslot'[d] - 1)
      BY <2>1, <2>5 DEF GroupInv
    <2> QED
      BY <2>1, <2>3, <2>4, <2>6 DEF GroupInv
  <1>4. ASSUME NEW c \in Conn, OnDisconnectedClose(c) PROVE GroupInv'
    <2> DEFINE g == dgrp[c]
               s == dslot[c]
               last == s = Slots - 1
    <2>1. /\ closed' = [closed EXCEPT ![g] = @ \cup {s}]
          /\ dslot' = [dslot EXCEPT ![c] = IF last THEN 0 ELSE s + 1]
          /\ dgrp' = [dgrp EXCEPT ![c] = IF last THEN 0 ELSE g]
          /\ UNCHANGED <<channels, lastGrp>>
      BY <1>4 DEF OnDisconnectedClose, implVars
    <2>2. /\ g \in Grp /\ Belongs(g, c) /\ channels[c] = 0
          /\ s \in Nat /\ g <= lastGrp /\ g # 0
      <3>1. g \in Grp /\ g # 0 /\ channels[c] = 0
        BY <1>4 DEF OnDisconnectedClose, PhaseInv, HasGroup, Grp
      <3>2. s \in Nat
        BY DEF Slot
      <3>3. Belongs(g, c)
        BY <3>1 DEF Belongs
      <3> QED
        BY <3>1, <3>2, <3>3 DEF GroupInv
    <2>3. closed[g] = 0..(s - 1)
      BY <2>2 DEF GroupInv
    <2>4. closed'[g] = 0..s
      <3>1. closed'[g] = closed[g] \cup {s}
        BY <2>1, <2>2
      <3>2. (0..(s - 1)) \cup {s} = 0..s
        BY <2>2, UpToNext
      <3> QED
        BY <2>3, <3>1, <3>2
    <2>5. \A h \in Grp : h # g => closed'[h] = closed[h]
      BY <2>1
    <2>6. \A h \in Grp, d \in Conn : Belongs(h, d)' => Belongs(h, d)
      BY <2>1, <2>2 DEF Belongs
    <2>7. \A h \in Grp, d \in Conn : h # g /\ Belongs(h, d) => Belongs(h, d)'
      BY <2>1, <2>2 DEF Belongs
    <2>8. \A d \in Conn : channels'[d] # 0 => closed'[channels'[d]] = {}
      <3> SUFFICES ASSUME NEW d \in Conn, channels[d] # 0
                   PROVE  closed'[channels[d]] = {}
        BY <2>1
      <3>1. channels[d] # g
        BY <2>2 DEF GroupInv, Belongs
      <3> QED
        BY <2>5, <3>1 DEF GroupInv
    <2>9. ASSUME NEW d \in Conn, dgrp'[d] # 0
          PROVE  closed'[dgrp'[d]] = 0..(dslot'[d] - 1)
      <3>1. CASE d = c
        <4>1. dgrp'[d] = g /\ dslot'[d] = s + 1 /\ (s + 1) - 1 = s
          BY <2>1, <2>2, <2>9, <3>1
        <4> QED
          BY <2>4, <4>1
      <3>2. CASE d # c
        <4>1. dgrp'[d] = dgrp[d] /\ dslot'[d] = dslot[d] /\ dgrp[d] \in Grp
          BY <2>1, <2>9, <3>2
        <4>2. dgrp[d] # g
          BY <2>2, <2>9, <3>2, <4>1 DEF GroupInv, Belongs
        <4> QED
          BY <2>5, <2>9, <4>1, <4>2 DEF GroupInv
      <3> QED
        BY <3>1, <3>2
    <2>10. ASSUME NEW h \in Grp, h > lastGrp' PROVE closed'[h] = {}
      <3>1. h # g /\ h > lastGrp
        BY <2>1, <2>2, <2>10 DEF Grp
      <3> QED
        BY <2>5, <3>1 DEF GroupInv
    <2>11. ASSUME NEW h \in Grp, h <= lastGrp', closed'[h] # Slot
           PROVE  \E d \in Conn : Belongs(h, d)'
      <3>1. CASE h # g
        <4>1. h <= lastGrp /\ closed[h] # Slot
          BY <2>1, <2>5, <2>11, <3>1
        <4> QED
          BY <2>7, <3>1, <4>1 DEF GroupInv
      <3>2. CASE h = g
        <4>1. ~last
          BY <2>4, <2>11, <3>2 DEF Slot
        <4> QED
          BY <2>1, <2>2, <3>2, <4>1 DEF Belongs, Grp
      <3> QED
        BY <3>1, <3>2
    <2>12. /\ \A d, e \in Conn, h \in Grp : (Belongs(h, d) /\ Belongs(h, e))' => d = e
           /\ \A d \in Conn, h \in Grp : Belongs(h, d)' => h <= lastGrp'
      BY <2>1, <2>6 DEF GroupInv
    <2> QED
      BY <2>8, <2>9, <2>10, <2>11, <2>12 DEF GroupInv
  <1>5. ASSUME NEW c \in Conn, \/ Connects(c) \/ Drop(c) \/ SessionClose(c)
                               \/ OnConnectedAdd(c) \/ OnDisconnectedDel(c)
        PROVE  GroupInv'
    BY <1>1, <1>5 DEF Connects, Drop, SessionClose, OnConnectedAdd,
                      OnDisconnectedDel, implVars, grpVars
  <1> QED
    BY <1>1, <1>2, <1>3, <1>4, <1>5, SessionSteps DEF SessionMove, sessVars

LEMMA SessionInit == Init => PhaseInv /\ GroupInv
  BY ConstAssumption DEF Init, PhaseInv, GroupInv, Offered, HasGroup, Belongs,
     Grp

(* The dispatcher, the table of groups and the transports agree whenever no*)
(* callback is running (DispatcherAgrees): for clients with and without a  *)
(* receive timeout.                                                        *)
THEOREM TablesAgree == ~Overlap => (Spec => []DispatcherAgrees)
  <1> SUFFICES ASSUME ~Overlap PROVE Spec => []DispatcherAgrees
    OBVIOUS
  <1> DEFINE Inv == TypeInv /\ PhaseInv /\ GroupInv
  <1>1. Init => Inv
    BY TypeInit, SessionInit
  <1>2. Inv /\ [Next]_vars => Inv'
    BY TypeStep, PhaseStep, GroupStep
  <1>3. Inv => DispatcherAgrees
    BY DEF PhaseInv, GroupInv, Offered, HasGroup, DispatcherAgrees
  <1> HIDE DEF Inv
  <1> QED
    BY <1>1, <1>2, <1>3, PTL DEF Spec

-----------------------------------------------------------------------------
(* Groups and the calls that hold them: groups get no new owner.           *)
LEMMA BelongsStep ==
  ASSUME TypeInv, PhaseInv, [Next]_vars
  PROVE  /\ lastGrp' >= lastGrp
         /\ \A g \in Grp, c \in Conn :
              g <= lastGrp /\ Belongs(g, c)' => Belongs(g, c)
  <1> USE ConstAssumption DEF TypeInv, TypeOK, ImplTypeOK, ConnTypeOK, Belongs
  <1>1. CASE channels' = channels /\ dgrp' = dgrp /\ lastGrp' = lastGrp
    BY <1>1
  <1>2. ASSUME NEW c \in Conn, OnConnectedGroup(c)
        PROVE  /\ lastGrp' >= lastGrp
               /\ \A g \in Grp, d \in Conn :
                    g <= lastGrp /\ Belongs(g, d)' => Belongs(g, d)
    BY <1>2 DEF OnConnectedGroup, Grp
  <1>3. ASSUME NEW c \in Conn, OnDisconnectedErase(c) \/ OnDisconnectedClose(c)
        PROVE  /\ lastGrp' >= lastGrp
               /\ \A g \in Grp, d \in Conn :
                    g <= lastGrp /\ Belongs(g, d)' => Belongs(g, d)
    <2>1. lastGrp' = lastGrp
      BY <1>3 DEF OnDisconnectedErase, OnDisconnectedClose, grpVars
    <2>2. \A g \in Grp, d \in Conn : Belongs(g, d)' => Belongs(g, d)
      BY <1>3 DEF OnDisconnectedErase, OnDisconnectedClose, implVars
    <2> QED
      BY <2>1, <2>2
  <1>4. ASSUME NEW c \in Conn, \/ Connects(c) \/ Drop(c) \/ SessionClose(c)
                               \/ OnConnectedAdd(c) \/ OnDisconnectedDel(c)
        PROVE  channels' = channels /\ dgrp' = dgrp /\ lastGrp' = lastGrp
    BY <1>4 DEF Connects, Drop, SessionClose, OnConnectedAdd,
                OnDisconnectedDel, implVars, grpVars
  <1> QED
    BY <1>1, <1>2, <1>3, <1>4, SessionSteps DEF SessionMove, sessVars

(* A call gets its group by CallFind and keeps it, and its transport, until*)
(* it returns.                                                             *)
Keeps(k) ==
  /\ grp'[k] = grp[k] /\ tp'[k] = tp[k]
  /\ pc[k] \in HasGrp /\ pc'[k] \in HasGrp
Finds(k) ==
  /\ pc[k] = "find" /\ pc'[k] = "insert"
  /\ tp[k] \in Conn /\ channels[tp[k]] # 0
  /\ grp'[k] = channels[tp[k]] /\ tp'[k] = tp[k]
  /\ UNCHANGED sessVars

LEMMA HolderSteps ==
  ASSUME TypeInv, HolderInv, [Next]_vars, NEW j \in Caller
  PROVE  \/ grp'[j] = 0 /\ pc'[j] \notin HasGrp
         \/ Keeps(j) \/ Finds(j)
  <1> USE DEF TypeInv, TypeOK, CallTypeOK, HolderInv, HasGrp, Keeps, callVars
  <1> DEFINE Goal == \/ grp'[j] = 0 /\ pc'[j] \notin HasGrp
                     \/ Keeps(j) \/ Finds(j)
  <1>1. CASE UNCHANGED <<pc, tp, grp>>
    BY <1>1
  <1>2. ASSUME NEW k \in Caller,
               \/ CallStart(k) \/ CallWndFull(k) \/ CallTimeout(k) \/ CallGet(k)
               \/ CallGetNone(k) \/ CallReconnect(k) \/ CallNoEstab(k)
               \/ CallNewId(k) \/ CallOneWay(k) \/ CallInsert(k) \/ CallSend(k)
               \/ CallCount(k) \/ CallPop(k) \/ CallUncount(k) \/ CallErase(k)
        PROVE  Goal
    BY <1>2 DEF CallStart, CallWndFull, CallTimeout, CallGet, CallGetNone,
                CallReconnect, CallNoEstab, CallNewId, CallOneWay, CallInsert,
                CallSend, CallCount, CallPop, CallUncount, CallErase, Return,
                Goto
  <1>3. ASSUME NEW k \in Caller, CallFind(k) PROVE Goal
    BY <1>3 DEF CallFind, Return, Goto, Finds, Locals, HasTp, sessVars,
                implVars, grpVars, connVars
  <1>4. ASSUME NEW c \in Conn, \/ Connect(c) \/ Drop(c) \/ Callback(c)
                               \/ \E i \in MsgId : OnResponseFind(c, i)
        PROVE  UNCHANGED <<pc, tp, grp>>
    BY <1>4 DEF Callback, Connect, Drop, SessionClose, OnConnectedAdd,
                OnConnectedGroup, OnDisconnectedDel, OnDisconnectedErase,
                OnDisconnectedClose, OnResponseLookup, OnResponsePush,
                OnResponseFind
  <1>5. ASSUME NEW i \in MsgId, SendFailed(i) PROVE UNCHANGED <<pc, tp, grp>>
    BY <1>5 DEF SendFailed
  <1>6. CASE UNCHANGED vars
    BY <1>1, <1>6 DEF vars
  <1> QED
    BY <1>1, <1>2, <1>3, <1>4, <1>5, <1>6 DEF Next, CallerStep

LEMMA HolderStep ==
  TypeInv /\ PhaseInv /\ GroupInv /\ HolderInv /\ [Next]_vars => HolderInv'
  <1> SUFFICES ASSUME TypeInv, PhaseInv, GroupInv, HolderInv, [Next]_vars,
                      NEW j \in Caller
               PROVE  (/\ pc[j] \notin HasGrp => grp[j] = 0
                       /\ grp[j] <= lastGrp
                       /\ \A c \in Conn : Belongs(grp[j], c) => c = tp[j])'
    BY DEF HolderInv
  <1>0. lastGrp \in Nat /\ lastGrp' \in Nat /\ grp[j] \in Grp \cup {0}
    BY TypeStep DEF TypeInv, TypeOK, ImplTypeOK, CallTypeOK
  <1>1. CASE grp'[j] = 0 /\ pc'[j] \notin HasGrp
    BY <1>0, <1>1 DEF Belongs
  <1>2. CASE Keeps(j)
    <2>1. grp[j] \in Grp /\ grp[j] <= lastGrp
      BY <1>2 DEF HolderInv, TypeInv, Locals, Keeps
    <2>2. \A c \in Conn : Belongs(grp[j], c)' => c = tp[j]
      <3>1. \A c \in Conn : Belongs(grp[j], c)' => Belongs(grp[j], c)
        <4>1. PICK g \in Grp : g = grp[j] /\ g = grp'[j]
          BY <1>2, <2>1 DEF Keeps
        <4>2. \A c \in Conn : Belongs(g, c)' => Belongs(g, c)
          BY <2>1, <4>1, BelongsStep
        <4> QED
          BY <4>1, <4>2 DEF Belongs
      <3> QED
        BY <1>2, <3>1 DEF HolderInv, Keeps
    <2>3. grp[j] <= lastGrp'
      BY <1>0, <2>1, BelongsStep DEF Grp
    <2> QED
      BY <1>2, <2>2, <2>3 DEF Keeps
  <1>3. CASE Finds(j)
    <2> DEFINE g == channels[tp[j]]
    <2>1. g \in Grp /\ Belongs(g, tp[j])
      BY <1>3 DEF Finds, TypeInv, TypeOK, ImplTypeOK, Belongs
    <2>2. g <= lastGrp /\ \A c \in Conn : Belongs(g, c) => c = tp[j]
      BY <1>3, <2>1 DEF GroupInv, Finds
    <2> QED
      BY <1>3, <2>1, <2>2 DEF Finds, Belongs, sessVars, HasGrp
  <1> QED
    BY <1>1, <1>2, <1>3, HolderSteps

LEMMA HolderInit == Init => HolderInv
  BY ConstAssumption DEF Init, HolderInv, HasGrp, Belongs

(* The group of a call that waits belongs to the call's transport: if it   *)
(* belonged to none, it would be closed, and the call answered.            *)
LEMMA WaitedGroup ==
  ASSUME TypeInv, GroupInv, HolderInv, ClosedMeansAnswered,
         NEW k \in Caller, Awaits(k, id[k])
  PROVE  tp[k] \in Conn /\ grp[k] \in Grp /\ Belongs(grp[k], tp[k])
  <1>1. tp[k] \in Conn /\ id[k] \in MsgId /\ grp[k] \in Grp
    BY DEF Awaits, TypeInv, Locals, HasTp, HasId, HasGrp
  <1>2. SlotOf(id[k]) \notin closed[grp[k]]
    BY DEF ClosedMeansAnswered
  <1>3. SlotOf(id[k]) \in Slot
    BY <1>1, ConstAssumption DEF SlotOf, Slot, MsgId
  <1>4. PICK c \in Conn : Belongs(grp[k], c)
    BY <1>1, <1>2, <1>3 DEF GroupInv, HolderInv
  <1> QED
    BY <1>1, <1>4 DEF HolderInv

LEMMA NotOrphan ==
  TypeInv /\ PhaseInv /\ GroupInv /\ HolderInv /\ ClosedMeansAnswered
    => NoOrphanGroup
  <1> SUFFICES ASSUME TypeInv, PhaseInv, GroupInv, HolderInv,
                      ClosedMeansAnswered, NEW k \in Caller, Awaits(k, id[k])
               PROVE  \E c \in Conn : \/ channels[c] = grp[k]
                                      \/ /\ down[c] = "closing"
                                         /\ dgrp[c] = grp[k]
                                         /\ dslot[c] <= SlotOf(id[k])
    BY DEF NoOrphanGroup
  <1> DEFINE c == tp[k]
             s == SlotOf(id[k])
  <1>1. c \in Conn /\ Belongs(grp[k], c)
    BY WaitedGroup
  <1>2. CASE dgrp[c] = grp[k] /\ grp[k] # 0
    <2>1. down[c] = "closing" /\ closed[grp[k]] = 0..(dslot[c] - 1)
      BY <1>1, <1>2 DEF PhaseInv, GroupInv
    <2>2. s \notin 0..(dslot[c] - 1)
      BY <2>1 DEF ClosedMeansAnswered
    <2>3. s \in Nat /\ dslot[c] \in Nat
      BY <1>1, ConstAssumption
      DEF SlotOf, MsgId, Slot, Awaits, TypeInv, TypeOK, ConnTypeOK, Locals,
          HasTp, HasId
    <2>4. dslot[c] <= s
      BY <2>2, <2>3
    <2> QED
      BY <1>1, <1>2, <2>1, <2>4
  <1> QED
    BY <1>1, <1>2 DEF Belongs

(* A group that callers may still wait in is in the table, or a running    *)
(* OnDisconnected will come to their slot (NoOrphanGroup).                 *)
THEOREM NoGroupIsOrphan == ~Overlap => (Spec => []NoOrphanGroup)
  <1> SUFFICES ASSUME ~Overlap PROVE Spec => []NoOrphanGroup
    OBVIOUS
  <1> DEFINE Inv == TypeInv /\ PhaseInv /\ GroupInv /\ HolderInv
  <1>1. Init => Inv
    BY TypeInit, SessionInit, HolderInit
  <1>2. Inv /\ [Next]_vars => Inv'
    BY TypeStep, PhaseStep, GroupStep, HolderStep
  <1>3. Inv /\ ClosedMeansAnswered => NoOrphanGroup
    BY NotOrphan
  <1> HIDE DEF Inv
  <1> QED
    BY <1>1, <1>2, <1>3, NoCallStranded, PTL DEF Spec

-----------------------------------------------------------------------------
(* Replies on their way *)

(* The transport's table entry stays while the session is open.            *)
LEMMA EntryStays ==
  ASSUME TypeInv, PhaseInv, [Next]_vars, NEW c \in Conn, up[c] # "none",
         channels[c] # 0
  PROVE  channels'[c] = channels[c] /\ (up'[c] = up[c] \/ SessionClose(c))
  <1> USE DEF TypeInv, TypeOK, ImplTypeOK, ConnTypeOK, PhaseInv, HasGroup
  <1>1. CASE UNCHANGED sessVars
    BY <1>1 DEF sessVars
  <1>2. ASSUME NEW d \in Conn,
               \/ Connects(d) \/ Drop(d) \/ SessionClose(d) \/ OnConnectedAdd(d)
               \/ OnDisconnectedDel(d) \/ OnDisconnectedClose(d)
        PROVE  channels'[c] = channels[c] /\ (up'[c] = up[c] \/ SessionClose(c))
    BY <1>2 DEF Connects, Established, Drop, SessionClose, OnConnectedAdd,
                OnDisconnectedDel, OnDisconnectedClose, implVars
  <1>3. ASSUME NEW d \in Conn, OnConnectedGroup(d) \/ OnDisconnectedErase(d)
        PROVE  channels'[c] = channels[c] /\ up'[c] = up[c]
    BY <1>3 DEF OnConnectedGroup, OnDisconnectedErase
  <1> QED
    BY <1>1, <1>2, <1>3, SessionSteps DEF SessionMove

(* What becomes of the requests on the wire, and of the reply in hand.     *)
LEMMA WireSteps ==
  ASSUME TypeInv, [Next]_vars, NEW c \in Conn
  PROVE  \/ /\ wire'[c] \subseteq wire[c]
            /\ \/ rx'[c] = rx[c]
               \/ rx'[c].at = "idle"
               \/ /\ rx[c].at # "idle"
                  /\ rx'[c].rid = rx[c].rid /\ rx'[c].grp = rx[c].grp
                  /\ UNCHANGED sessVars
               \/ /\ up[c] = "open" /\ rx'[c].rid \in wire[c]
                  /\ rx'[c].grp = channels[c] /\ UNCHANGED sessVars
         \/ \E k \in Caller : /\ CallSend(k) /\ tp[k] = c /\ est[c]
                              /\ wire'[c] = wire[c] \cup {id[k]}
                              /\ rx'[c] = rx[c]
  <1> USE DEF TypeInv, TypeOK, ConnTypeOK
  <1>1. CASE UNCHANGED <<wire, rx>>
    BY <1>1
  <1>2. ASSUME NEW k \in Caller,
               \/ CallStart(k) \/ CallWndFull(k) \/ CallTimeout(k) \/ CallGet(k)
               \/ CallGetNone(k) \/ CallReconnect(k) \/ CallNoEstab(k)
               \/ CallNewId(k) \/ CallOneWay(k) \/ CallFind(k) \/ CallInsert(k)
               \/ CallCount(k) \/ CallPop(k) \/ CallUncount(k) \/ CallErase(k)
        PROVE  UNCHANGED <<wire, rx>>
    BY <1>2 DEF CallStart, CallWndFull, CallTimeout, CallGet, CallGetNone,
                CallReconnect, CallNoEstab, CallNewId, CallOneWay, CallFind,
                CallInsert, CallCount, CallPop, CallUncount, CallErase,
                connVars, netVars
  <1>3. ASSUME NEW k \in Caller, CallSend(k)
        PROVE  \/ UNCHANGED <<wire[c], rx[c]>>
               \/ /\ tp[k] = c /\ est[c] /\ rx'[c] = rx[c]
                  /\ wire'[c] = wire[c] \cup {id[k]}
    BY <1>3 DEF CallSend, connVars
  <1>4. ASSUME NEW d \in Conn,
               \/ Connect(d) \/ Drop(d) \/ OnConnectedAdd(d) \/ OnConnectedGroup(d)
               \/ OnDisconnectedDel(d) \/ OnDisconnectedErase(d)
               \/ OnDisconnectedClose(d)
        PROVE  UNCHANGED <<wire, rx>>
    BY <1>4 DEF Connect, Drop, OnConnectedAdd, OnConnectedGroup,
                OnDisconnectedDel, OnDisconnectedErase, OnDisconnectedClose,
                netVars
  <1>5. ASSUME NEW d \in Conn, SessionClose(d)
        PROVE  wire'[c] \subseteq wire[c] /\ rx'[c] = rx[c]
    BY <1>5 DEF SessionClose
  <1>6. ASSUME NEW d \in Conn, NEW i \in MsgId, OnResponseFind(d, i)
        PROVE  /\ wire'[c] \subseteq wire[c]
               /\ \/ rx'[c] = rx[c]
                  \/ rx'[c].at = "idle"
                  \/ /\ up[c] = "open" /\ rx'[c].rid \in wire[c]
                     /\ rx'[c].grp = channels[c] /\ UNCHANGED sessVars
    BY <1>6 DEF OnResponseFind, Idle, sessVars, implVars, grpVars
  <1>7. ASSUME NEW d \in Conn, OnResponseLookup(d)
        PROVE  /\ wire' = wire
               /\ \/ rx'[c] = rx[c]
                  \/ rx'[c].at = "idle"
                  \/ /\ rx[c].at # "idle"
                     /\ rx'[c].rid = rx[c].rid /\ rx'[c].grp = rx[c].grp
                     /\ UNCHANGED sessVars
    BY <1>7 DEF OnResponseLookup, Idle, sessVars, implVars, grpVars, netVars
  <1>8. ASSUME NEW d \in Conn, OnResponsePush(d)
        PROVE  wire' = wire /\ (rx'[c] = rx[c] \/ rx'[c].at = "idle")
    BY <1>8 DEF OnResponsePush, Idle, netVars
  <1>9. ASSUME NEW i \in MsgId, SendFailed(i) PROVE UNCHANGED <<wire, rx>>
    BY <1>9 DEF SendFailed, connVars
  <1>10. CASE UNCHANGED vars
    BY <1>1, <1>10 DEF vars, connVars, netVars
  <1> QED
    BY <1>1, <1>2, <1>3, <1>4, <1>5, <1>6, <1>7, <1>8, <1>9, <1>10
    DEF Next, CallerStep, Callback

(* A call keeps its id, once it has one, until it returns, and having sent *)
(* its request has sent it.                                                *)
LEMMA IdStays ==
  ASSUME TypeInv, [Next]_vars, NEW k \in Caller, id'[k] # 0
  PROVE  \/ id'[k] = id[k] /\ (pc[k] \in Sent => pc'[k] \in Sent)
         \/ id'[k] = msgId + 1
  <1> USE DEF TypeInv, TypeOK, CallTypeOK, Sent, callVars
  <1> DEFINE Goal == \/ id'[k] = id[k] /\ (pc[k] \in Sent => pc'[k] \in Sent)
                     \/ id'[k] = msgId + 1
  <1>1. ASSUME NEW j \in Caller,
               \/ CallStart(j) \/ CallWndFull(j) \/ CallTimeout(j) \/ CallGet(j)
               \/ CallGetNone(j) \/ CallReconnect(j) \/ CallNoEstab(j)
               \/ CallNewId(j) \/ CallOneWay(j) \/ CallFind(j) \/ CallInsert(j)
               \/ CallSend(j) \/ CallCount(j) \/ CallPop(j) \/ CallUncount(j)
               \/ CallErase(j)
        PROVE  Goal
    BY <1>1 DEF CallStart, CallWndFull, CallTimeout, CallGet, CallGetNone,
                CallReconnect, CallNoEstab, CallNewId, CallOneWay, CallFind,
                CallInsert, CallSend, CallCount, CallPop, CallUncount,
                CallErase, Return, Goto
  <1>2. ASSUME NEW c \in Conn, \/ Connect(c) \/ Drop(c) \/ Callback(c)
                               \/ \E i \in MsgId : OnResponseFind(c, i)
        PROVE  Goal
    BY <1>2 DEF Callback, Connect, Drop, SessionClose, OnConnectedAdd,
                OnConnectedGroup, OnDisconnectedDel, OnDisconnectedErase,
                OnDisconnectedClose, OnResponseLookup, OnResponsePush,
                OnResponseFind
  <1>3. ASSUME NEW i \in MsgId, SendFailed(i) PROVE Goal
    BY <1>3 DEF SendFailed
  <1>4. CASE UNCHANGED vars
    BY <1>4 DEF vars
  <1> QED
    BY <1>1, <1>2, <1>3, <1>4 DEF Next, CallerStep

(* Only CallInsert makes a call wait.                                      *)
LEMMA AwaitsStays ==
  ASSUME TypeInv, IdInv, [Next]_vars, NEW k \in Caller, NEW i \in MsgId,
         Awaits(k, i)'
  PROVE  \/ Awaits(k, i) /\ id'[k] = id[k]
         \/ pc[k] = "insert" /\ id[k] = i
  <1> USE DEF TypeInv, TypeOK, CallTypeOK, ImplTypeOK, Awaits
  <1>1. CASE Quiet
    BY <1>1 DEF Quiet, Registered, Awaiting
  <1>2. ASSUME NEW j \in Caller, CallInsert(j)
        PROVE  \/ Awaits(k, i) /\ id'[k] = id[k]
               \/ pc[k] = "insert" /\ id[k] = i
    BY <1>2 DEF CallInsert, Return, Goto
  <1>3. ASSUME NEW j \in Caller, CallPop(j)
        PROVE  Awaits(k, i) /\ id'[k] = id[k]
    <2>1. k # j /\ pc[k] \in Awaiting /\ id[k] = i /\ id' = id
      BY <1>3 DEF CallPop, Goto, Awaiting
    <2>2. id[j] # i
      BY <2>1, <1>3 DEF IdInv, MsgId, CallPop
    <2> QED
      BY <1>3, <2>1, <2>2 DEF CallPop, Awaiting
  <1>4. ASSUME NEW j \in Caller, CallErase(j)
        PROVE  Awaits(k, i) /\ id'[k] = id[k]
    BY <1>4 DEF CallErase, Return, Goto
  <1>5. ASSUME NEW c \in Conn, OnDisconnectedClose(c)
        PROVE  Awaits(k, i) /\ id'[k] = id[k]
    BY <1>5 DEF OnDisconnectedClose, callVars, NoRsp, ErrRsp
  <1> QED
    BY <1>1, <1>2, <1>3, <1>4, <1>5, StepKinds

(* A request goes out on a session only in the group of that session, or   *)
(* its caller has been answered already.                                   *)
LEMMA SentInGroup ==
  ASSUME TypeInv, PhaseInv, GroupInv, HolderInv, ClosedMeansAnswered,
         NEW k \in Caller, Awaits(k, id[k]), est[tp[k]]
  PROVE  channels[tp[k]] = grp[k] /\ grp[k] # 0
  <1>1. tp[k] \in Conn /\ Belongs(grp[k], tp[k])
    BY WaitedGroup
  <1>2. dgrp[tp[k]] = 0
    BY <1>1 DEF PhaseInv
  <1> QED
    BY <1>1, <1>2 DEF Belongs

SessInv ==
  TypeInv /\ IdInv /\ RegInv /\ ClosedMeansAnswered /\ PhaseInv /\ GroupInv
    /\ HolderInv

LEMMA WireStep == SessInv /\ WireInv /\ [Next]_vars => WireInv'
  <1> SUFFICES ASSUME SessInv, WireInv, [Next]_vars, NEW c \in Conn
               PROVE  (/\ up[c] = "none" => wire[c] = {}
                       /\ rx[c].at # "idle" => up[c] = "open" /\ rx[c].grp = channels[c]
                       /\ \A i \in MsgId : OnTheWay(c, i) =>
                            /\ i <= msgId
                            /\ \A k \in Caller : id[k] = i => pc[k] \in Sent
                            /\ \A k \in Caller : Awaits(k, i) =>
                                  tp[k] = c /\ grp[k] = channels[c])'
    BY DEF WireInv
  <1>t. TypeInv /\ IdInv /\ PhaseInv /\ GroupInv /\ HolderInv
        /\ ClosedMeansAnswered
    BY DEF SessInv
  <1>u. TypeInv'
    BY <1>t, TypeStep
  <1>1. up'[c] = "none" => wire'[c] = {}
    <2> SUFFICES ASSUME up'[c] = "none" PROVE wire'[c] = {}
      OBVIOUS
    <2>1. CASE SessionClose(c)
      BY <1>t, <2>1 DEF SessionClose, TypeInv, TypeOK, ConnTypeOK
    <2>2. CASE up[c] = "none"
      <3>1. wire[c] = {} /\ ~est[c]
        BY <1>t, <2>2 DEF WireInv, PhaseInv
      <3> QED
        BY <1>t, <3>1, WireSteps
    <2>3. up'[c] = up[c] \/ up'[c] # "none" \/ SessionClose(c)
      BY <1>t, SessionSteps
      DEF SessionMove, sessVars, Connects, Established, Drop, SessionClose,
          OnConnectedAdd, OnConnectedGroup, OnDisconnectedDel,
          OnDisconnectedErase, OnDisconnectedClose, TypeInv, TypeOK, ConnTypeOK
    <2> QED
      BY <2>1, <2>2, <2>3
  <1>2. ASSUME rx'[c].at # "idle"
        PROVE  up'[c] = "open" /\ rx'[c].grp = channels'[c]
    <2>1. CASE rx'[c] = rx[c]
      <3>1. up[c] = "open" /\ rx[c].grp = channels[c] /\ channels[c] # 0
        BY <1>t, <1>2, <2>1 DEF WireInv, PhaseInv, HasGroup
      <3>2. ~SessionClose(c)
        BY <1>2, <2>1 DEF SessionClose, Idle
      <3> QED
        BY <1>t, <2>1, <3>1, <3>2, EntryStays
    <2>2. CASE rx'[c] # rx[c]
      BY <1>t, <1>2, <2>2, WireSteps DEF WireInv, sessVars
    <2> QED
      BY <2>1, <2>2
  <1>3. ASSUME NEW i \in MsgId, OnTheWay(c, i)'
        PROVE  (/\ i <= msgId
                /\ \A k \in Caller : id[k] = i => pc[k] \in Sent
                /\ \A k \in Caller : Awaits(k, i) =>
                      tp[k] = c /\ grp[k] = channels[c])'
    <2>0. /\ msgId \in Nat /\ msgId' \in Nat /\ msgId' >= msgId
          /\ i \in Nat /\ i # 0
      <3>1. msgId \in Nat /\ msgId' \in Nat
        BY <1>t, <1>u DEF TypeInv, TypeOK, ImplTypeOK
      <3>2. msgId' = msgId \/ msgId' = msgId + 1
        BY <1>t, IdChanges
      <3> QED
        BY <3>1, <3>2 DEF MsgId
    <2>1. CASE OnTheWay(c, i)
      <3>1. i <= msgId /\ i <= msgId'
        BY <2>0, <2>1 DEF WireInv
      <3>2. ASSUME NEW k \in Caller, id'[k] = i PROVE pc'[k] \in Sent
        <4>1. id'[k] # 0 /\ id'[k] # msgId + 1
          BY <2>0, <3>1, <3>2
        <4>2. id[k] = i /\ (pc[k] \in Sent => pc'[k] \in Sent)
          BY <1>t, <3>2, <4>1, IdStays
        <4> QED
          BY <2>1, <4>2 DEF WireInv
      <3>3. ASSUME NEW k \in Caller, Awaits(k, i)'
            PROVE  tp'[k] = c /\ grp'[k] = channels'[c]
        <4>1. Awaits(k, i)
          <5>1. id[k] = i => pc[k] # "insert"
            BY <2>1 DEF WireInv, Sent
          <5> QED
            BY <1>t, <3>3, <5>1, AwaitsStays
        <4>2. tp[k] = c /\ grp[k] = channels[c] /\ grp[k] # 0
          BY <1>t, <2>1, <4>1
          DEF WireInv, Awaits, TypeInv, Locals, HasGrp, Grp
        <4>3. up[c] # "none"
          BY <1>t, <2>1 DEF OnTheWay, WireInv
        <4>4. channels'[c] = channels[c]
          BY <1>t, <4>2, <4>3, EntryStays
        <4>5. grp'[k] = grp[k] /\ tp'[k] = tp[k]
          BY <1>t, <3>3, <4>1, HolderSteps
          DEF Awaits, HasGrp, Keeps, Finds
        <4> QED
          BY <4>2, <4>4, <4>5
      <3> QED
        BY <3>1, <3>2, <3>3
    <2>2. ASSUME NEW k \in Caller, CallSend(k), tp[k] = c, est[c], i = id[k]
          PROVE  (/\ i <= msgId
                  /\ \A j \in Caller : id[j] = i => pc[j] \in Sent
                  /\ \A j \in Caller : Awaits(j, i) =>
                        tp[j] = c /\ grp[j] = channels[c])'
      <3>1. UNCHANGED <<tp, id, grp, msgId, chan, channels>> /\ pc[k] = "send"
            /\ pc'[k] = "count"
        BY <1>t, <2>2
        DEF CallSend, Goto, implVars, TypeInv, TypeOK, CallTypeOK
      <3>2. i <= msgId /\ \A j \in Caller : id[j] = i => j = k
        BY <1>t, <2>0, <2>2 DEF IdInv
      <3>3. ASSUME NEW j \in Caller, Awaits(j, i)'
            PROVE  tp'[j] = c /\ grp'[j] = channels'[c]
        <4>1. j = k /\ Awaits(k, id[k])
          BY <2>2, <3>1, <3>2, <3>3 DEF Awaits
        <4>2. channels[tp[k]] = grp[k]
          BY <1>t, <2>2, <4>1, SentInGroup
        <4> QED
          BY <2>2, <3>1, <4>1, <4>2
      <3> QED
        BY <3>1, <3>2, <3>3 DEF Sent
    <2>3. \/ OnTheWay(c, i)
          \/ \E k \in Caller : CallSend(k) /\ tp[k] = c /\ est[c] /\ i = id[k]
      BY <1>t, <1>3, WireSteps DEF OnTheWay
    <2> QED
      BY <2>1, <2>2, <2>3
  <1> QED
    BY <1>1, <1>2, <1>3

(* Only OnResponse's lookup drops a reply in hand, and only its start takes*)
(* a reply off the wire of a session that goes on.                         *)
LEMMA LookupSteps ==
  ASSUME TypeInv, [Next]_vars, NEW c \in Conn, rx[c].at = "lookup",
         rx'[c] = Idle
  PROVE  OnResponseLookup(c)
  <1> USE DEF TypeInv, TypeOK, ConnTypeOK, Idle
  <1>1. rx'[c] # rx[c]
    OBVIOUS
  <1>2. CASE \E k \in Caller : \/ CallStart(k) \/ CallWndFull(k)
                               \/ CallTimeout(k) \/ CallerStep(k)
    BY <1>1, <1>2 DEF CallerStep, CallStart, CallWndFull, CallGet, CallGetNone,
                CallReconnect, CallNoEstab, CallNewId, CallOneWay, CallFind,
                CallInsert, CallSend, CallCount, CallPop, CallTimeout,
                CallUncount, CallErase, connVars
  <1>3. ASSUME NEW d \in Conn,
               \/ Connect(d) \/ Drop(d) \/ SessionClose(d) \/ OnConnectedAdd(d)
               \/ OnConnectedGroup(d) \/ OnDisconnectedDel(d)
               \/ OnDisconnectedErase(d) \/ OnDisconnectedClose(d)
        PROVE  FALSE
    BY <1>1, <1>3 DEF Connect, Drop, SessionClose, OnConnectedAdd,
                OnConnectedGroup, OnDisconnectedDel, OnDisconnectedErase,
                OnDisconnectedClose
  <1>4. ASSUME NEW d \in Conn, \/ OnResponsePush(d)
                               \/ \E i \in MsgId : OnResponseFind(d, i)
        PROVE  FALSE
    BY <1>1, <1>4 DEF OnResponsePush, OnResponseFind
  <1>5. ASSUME NEW d \in Conn, OnResponseLookup(d) PROVE d = c
    BY <1>1, <1>5 DEF OnResponseLookup
  <1>6. ASSUME NEW i \in MsgId, SendFailed(i) PROVE FALSE
    BY <1>1, <1>6 DEF SendFailed, connVars
  <1>7. CASE UNCHANGED vars
    BY <1>1, <1>7 DEF vars, connVars
  <1> QED
    BY <1>2, <1>3, <1>4, <1>5, <1>6, <1>7 DEF Next, Callback

LEMMA LeavesWire ==
  ASSUME TypeInv, [Next]_vars, NEW c \in Conn, ~(wire[c] \subseteq wire'[c]),
         up'[c] = "open"
  PROVE  \E i \in MsgId : OnResponseFind(c, i)
  <1> USE DEF TypeInv, TypeOK, ConnTypeOK
  <1>1. wire' # wire
    OBVIOUS
  <1>2. CASE \E k \in Caller :
                \/ CallStart(k) \/ CallWndFull(k) \/ CallTimeout(k) \/ CallGet(k)
                \/ CallGetNone(k) \/ CallReconnect(k) \/ CallNoEstab(k)
                \/ CallNewId(k) \/ CallOneWay(k) \/ CallFind(k) \/ CallInsert(k)
                \/ CallCount(k) \/ CallPop(k) \/ CallUncount(k) \/ CallErase(k)
    BY <1>1, <1>2 DEF CallStart, CallWndFull, CallTimeout, CallGet,
       CallGetNone,
                CallReconnect, CallNoEstab, CallNewId, CallOneWay, CallFind,
                CallInsert, CallCount, CallPop, CallUncount, CallErase, netVars
  <1>3. ASSUME NEW k \in Caller, CallSend(k) PROVE FALSE
    BY <1>3 DEF CallSend
  <1>4. ASSUME NEW d \in Conn,
               \/ Connect(d) \/ Drop(d) \/ OnConnectedAdd(d)
               \/ OnConnectedGroup(d) \/ OnDisconnectedDel(d)
               \/ OnDisconnectedErase(d) \/ OnDisconnectedClose(d)
               \/ OnResponseLookup(d) \/ OnResponsePush(d)
        PROVE  FALSE
    BY <1>1, <1>4 DEF Connect, Drop, OnConnectedAdd, OnConnectedGroup,
                OnDisconnectedDel, OnDisconnectedErase, OnDisconnectedClose,
                OnResponseLookup, OnResponsePush, netVars
  <1>5. ASSUME NEW d \in Conn, SessionClose(d) PROVE FALSE
    BY <1>5 DEF SessionClose
  <1>6. ASSUME NEW d \in Conn, NEW i \in MsgId, OnResponseFind(d, i) PROVE d = c
    BY <1>6 DEF OnResponseFind
  <1>7. ASSUME NEW i \in MsgId, SendFailed(i) PROVE FALSE
    BY <1>1, <1>7 DEF SendFailed
  <1>8. CASE UNCHANGED vars
    BY <1>1, <1>8 DEF vars, netVars
  <1> QED
    BY <1>2, <1>3, <1>4, <1>5, <1>6, <1>7, <1>8 DEF Next, CallerStep, Callback

(* No step that discards a reply discards one that a call waits for.       *)
LEMMA DiscardStep ==
  IdsFit /\ SessInv /\ WireInv /\ [Next]_vars =>
    \A c \in Conn : \A i \in MsgId :
      Discards(c, i) => ~\E k \in Caller : Awaits(k, i)
  <1> SUFFICES ASSUME IdsFit, SessInv, WireInv, [Next]_vars,
                      NEW c \in Conn, NEW i \in MsgId, Discards(c, i),
                      NEW k \in Caller, Awaits(k, i)
               PROVE  FALSE
    OBVIOUS
  <1>t. TypeInv /\ RegInv /\ PhaseInv
    BY DEF SessInv
  <1>1. OnTheWay(c, i)
    BY DEF Discards, OnTheWay
  <1>2. tp[k] = c /\ grp[k] = channels[c] /\ id[k] = i /\ i \in maps[grp[k]]
    BY <1>t, <1>1 DEF WireInv, RegInv, Awaits, Registered
  <1>3. CASE rx[c].at = "lookup" /\ rx[c].rid = i /\ rx'[c] = Idle
    <2>1. rx[c].grp = channels[c]
      BY <1>3 DEF WireInv
    <2>2. CallId(rx[c].rid) \in maps[rx[c].grp]
      BY <1>2, <1>3, <2>1, CallIdFits
    <2>3. OnResponseLookup(c)
      BY <1>t, <1>3, LookupSteps
    <2> QED
      BY <1>t, <1>3, <2>2, <2>3
      DEF OnResponseLookup, Idle, TypeInv, TypeOK, ConnTypeOK
  <1>4. CASE /\ rx[c] = Idle /\ i \in wire[c] \ wire'[c] /\ rx'[c] = Idle
             /\ up'[c] = "open"
    <2>1. PICK j \in MsgId : OnResponseFind(c, j)
      BY <1>t, <1>4, LeavesWire
    <2>2. channels[c] # 0
      BY <1>t, <2>1 DEF OnResponseFind, PhaseInv, HasGroup
    <2> QED
      BY <1>t, <1>4, <2>1, <2>2
      DEF OnResponseFind, Idle, TypeInv, TypeOK, ConnTypeOK
  <1> QED
    BY <1>3, <1>4 DEF Discards

(* OnResponse discards only replies that no call waits for                 *)
(* (DiscardHarmless), with and without a receive timeout, as long as msg_id*)
(* fits in the header's callid and no transport connects again while       *)
(* OnDisconnected of its last session runs.                                *)
THEOREM NothingAwaitedIsDiscarded ==
  IdsFit /\ ~Overlap => (Spec => DiscardHarmless)
  <1> SUFFICES ASSUME IdsFit, ~Overlap PROVE Spec => DiscardHarmless
    OBVIOUS
  <1> DEFINE Inv == SessInv /\ WireInv
  <1>1. Init => Inv
    <2>1. Init => WireInv
      BY DEF Init, WireInv, OnTheWay, Idle
    <2> QED
      BY <2>1, TypeInit, SessionInit, HolderInit
      DEF SessInv, Init, IdInv, RegInv, ClosedMeansAnswered, Awaits, Registered
  <1>2. Inv /\ [Next]_vars => Inv'
    <2>1. SessInv /\ [Next]_vars => SessInv'
      BY TypeStep, IdStep, RegStep, ClosedStep, PhaseStep, GroupStep,
         HolderStep DEF SessInv
    <2> QED
      BY <2>1, WireStep
  <1>3. Inv /\ [Next]_vars =>
          [\A c \in Conn : \A i \in MsgId :
             Discards(c, i) => ~\E k \in Caller : Awaits(k, i)]_vars
    BY DiscardStep
  <1> HIDE DEF Inv
  <1> QED
    BY <1>1, <1>2, <1>3, PTL DEF Spec, DiscardHarmless
=============================================================================
