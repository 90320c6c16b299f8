-------------------------- MODULE ClientCallProofs --------------------------
(***************************************************************************)
(* Proofs about ClientCall, for every number of callers, transports,       *)
(* slots, requests and sessions, whether or not sessions overlap.  They    *)
(* hold with and without a receive timeout, but for those on the window    *)
(* and on dead entries, which a timeout breaks.                            *)
(***************************************************************************)
EXTENDS ClientCall, FiniteSetTheorems, TLAPS

(* Where a call has its locals: the transport, the id, the group.          *)
HasTp  == {"estab", "find", "insert", "send", "count", "wait", "uncount", "erase", "ack"}
HasId  == HasTp \ {"estab"}
HasGrp == {"insert", "send", "count", "wait", "uncount", "erase"}
Registered == {"send", "count", "wait", "uncount", "erase"}

Locals ==
  \A k \in Caller :
    /\ pc[k] \in HasTp  => tp[k] \in Conn
    /\ pc[k] \in HasId  => id[k] \in MsgId
    /\ pc[k] \in HasGrp => grp[k] \in Grp

TypeInv == TypeOK /\ Locals

(* The types, with the locals each call must have where it is.             *)
LEMMA TypeInit == Init => TypeInv
  BY ConstAssumption DEF Init, Idle, NoRet, TypeInv, TypeOK, CallTypeOK,
     ImplTypeOK, ConnTypeOK, Locals, HasTp, HasId, HasGrp, Rsp, MsgId, Grp, Slot,
     PC, Codes, Up, Down, NoRsp

(* What a return does to the locals of the calls.                          *)
LEMMA ReturnTypes ==
  ASSUME CallTypeOK, Locals, NEW k \in Caller, NEW code \in Codes,
         NEW rid \in Rsp, Return(k, code, rid)
  PROVE  CallTypeOK' /\ Locals'
  BY DEF CallTypeOK, Locals, Return, Goto, PC, Rsp, NoRsp, HasTp, HasId, HasGrp

LEMMA TypeStep == TypeInv /\ [Next]_vars => TypeInv'
  <1> SUFFICES ASSUME TypeInv, [Next]_vars PROVE TypeInv'
    OBVIOUS
  <1> USE ConstAssumption DEF TypeInv, TypeOK
  <1> USE DEF callVars, implVars, grpVars, connVars, netVars
  <1>1. ASSUME NEW k \in Caller, CallStart(k) PROVE TypeInv'
    <2>1. CallTypeOK' /\ Locals'
      BY <1>1 DEF CallStart, Goto, NoRet, CallTypeOK, Locals, HasTp, HasId,
         HasGrp, PC, Codes, Rsp, MsgId, Grp, NoRsp, ErrRsp
    <2>2. ImplTypeOK'
      BY <1>1 DEF CallStart, Goto, NoRet, ImplTypeOK, Rsp, MsgId, Grp, Slot,
         NoRsp, ErrRsp
    <2>3. ConnTypeOK'
      BY <1>1 DEF CallStart, Goto, NoRet, ConnTypeOK, Up, Down, MsgId, Grp,
         Slot, Idle
    <2> QED
      BY <2>1, <2>2, <2>3
  <1>2. ASSUME NEW k \in Caller, CallWndFull(k) PROVE TypeInv'
    <2>1. CallTypeOK' /\ Locals'
      BY <1>2, ReturnTypes DEF CallWndFull, Goto, CallTypeOK, Locals, HasTp,
         HasId, HasGrp, PC, Codes, Rsp, MsgId, Grp, NoRsp, ErrRsp
    <2>2. ImplTypeOK'
      BY <1>2 DEF CallWndFull, Goto, ImplTypeOK, Rsp, MsgId, Grp, Slot, NoRsp,
         ErrRsp
    <2>3. ConnTypeOK'
      BY <1>2 DEF CallWndFull, Goto, ConnTypeOK, Up, Down, MsgId, Grp, Slot,
         Idle
    <2> QED
      BY <2>1, <2>2, <2>3
  <1>3. ASSUME NEW k \in Caller, CallGet(k) PROVE TypeInv'
    <2>1. CallTypeOK' /\ Locals'
      BY <1>3 DEF CallGet, Goto, CallTypeOK, Locals, HasTp, HasId, HasGrp, PC,
         Codes, Rsp, MsgId, Grp, NoRsp, ErrRsp
    <2>2. ImplTypeOK'
      BY <1>3 DEF CallGet, Goto, ImplTypeOK, Rsp, MsgId, Grp, Slot, NoRsp,
         ErrRsp
    <2>3. ConnTypeOK'
      BY <1>3 DEF CallGet, Goto, ConnTypeOK, Up, Down, MsgId, Grp, Slot, Idle
    <2> QED
      BY <2>1, <2>2, <2>3
  <1>4. ASSUME NEW k \in Caller, CallGetNone(k) PROVE TypeInv'
    <2>1. CallTypeOK' /\ Locals'
      BY <1>4, ReturnTypes DEF CallGetNone, Goto, CallTypeOK, Locals, HasTp,
         HasId, HasGrp, PC, Codes, Rsp, MsgId, Grp, NoRsp, ErrRsp
    <2>2. ImplTypeOK'
      BY <1>4 DEF CallGetNone, Goto, ImplTypeOK, Rsp, MsgId, Grp, Slot, NoRsp,
         ErrRsp
    <2>3. ConnTypeOK'
      BY <1>4 DEF CallGetNone, Goto, ConnTypeOK, Up, Down, MsgId, Grp, Slot,
         Idle
    <2> QED
      BY <2>1, <2>2, <2>3
  <1>5. ASSUME NEW k \in Caller, CallReconnect(k) PROVE TypeInv'
    <2>1. CallTypeOK' /\ Locals'
      BY <1>5, ReturnTypes DEF CallReconnect, Goto, Established, CallTypeOK,
         Locals, HasTp, HasId, HasGrp, PC, Codes, Rsp, MsgId, Grp, NoRsp,
         ErrRsp
    <2>2. ImplTypeOK'
      BY <1>5 DEF CallReconnect, Goto, Established, ImplTypeOK, Rsp, MsgId,
         Grp, Slot, NoRsp, ErrRsp
    <2>3. ConnTypeOK'
      BY <1>5 DEF CallReconnect, Goto, Established, ConnTypeOK, Up, Down,
         MsgId, Grp, Slot, Idle
    <2> QED
      BY <2>1, <2>2, <2>3
  <1>6. ASSUME NEW k \in Caller, CallNoEstab(k) PROVE TypeInv'
    <2>1. CallTypeOK' /\ Locals'
      BY <1>6, ReturnTypes DEF CallNoEstab, Goto, CallTypeOK, Locals, HasTp,
         HasId, HasGrp, PC, Codes, Rsp, MsgId, Grp, NoRsp, ErrRsp
    <2>2. ImplTypeOK'
      BY <1>6 DEF CallNoEstab, Goto, ImplTypeOK, Rsp, MsgId, Grp, Slot, NoRsp,
         ErrRsp
    <2>3. ConnTypeOK'
      BY <1>6 DEF CallNoEstab, Goto, ConnTypeOK, Up, Down, MsgId, Grp, Slot,
         Idle
    <2> QED
      BY <2>1, <2>2, <2>3
  <1>7. ASSUME NEW k \in Caller, CallNewId(k) PROVE TypeInv'
    <2>1. CallTypeOK' /\ Locals'
      BY <1>7 DEF CallNewId, Goto, CallTypeOK, Locals, HasTp, HasId, HasGrp,
         PC, Codes, Rsp, MsgId, Grp, NoRsp, ErrRsp, ImplTypeOK
    <2>2. ImplTypeOK'
      BY <1>7 DEF CallNewId, Goto, ImplTypeOK, Rsp, MsgId, Grp, Slot, NoRsp,
         ErrRsp
    <2>3. ConnTypeOK'
      BY <1>7 DEF CallNewId, Goto, ConnTypeOK, Up, Down, MsgId, Grp, Slot, Idle
    <2> QED
      BY <2>1, <2>2, <2>3
  <1>8. ASSUME NEW k \in Caller, CallOneWay(k) PROVE TypeInv'
    <2>1. CallTypeOK' /\ Locals'
      BY <1>8, ReturnTypes DEF CallOneWay, Goto, CallTypeOK, Locals, HasTp,
         HasId, HasGrp, PC, Codes, Rsp, MsgId, Grp, NoRsp, ErrRsp
    <2>2. ImplTypeOK'
      BY <1>8 DEF CallOneWay, Goto, ImplTypeOK, Rsp, MsgId, Grp, Slot, NoRsp,
         ErrRsp
    <2>3. ConnTypeOK'
      BY <1>8 DEF CallOneWay, Goto, ConnTypeOK, Up, Down, MsgId, Grp, Slot,
         Idle
    <2> QED
      BY <2>1, <2>2, <2>3
  <1>9. ASSUME NEW k \in Caller, CallFind(k) PROVE TypeInv'
    <2>1. CallTypeOK' /\ Locals'
      BY <1>9, ReturnTypes DEF CallFind, Goto, CallTypeOK, Locals, HasTp,
         HasId, HasGrp, PC, Codes, Rsp, MsgId, Grp, NoRsp, ErrRsp, ImplTypeOK
    <2>2. ImplTypeOK'
      BY <1>9 DEF CallFind, Goto, ImplTypeOK, Rsp, MsgId, Grp, Slot, NoRsp,
         ErrRsp
    <2>3. ConnTypeOK'
      BY <1>9 DEF CallFind, Goto, ConnTypeOK, Up, Down, MsgId, Grp, Slot, Idle
    <2> QED
      BY <2>1, <2>2, <2>3
  <1>10. ASSUME NEW k \in Caller, CallInsert(k) PROVE TypeInv'
    <2>1. CallTypeOK' /\ Locals'
      BY <1>10, ReturnTypes DEF CallInsert, Goto, CallTypeOK, Locals, HasTp,
         HasId, HasGrp, PC, Codes, Rsp, MsgId, Grp, NoRsp, ErrRsp
    <2>2. ImplTypeOK'
      <3>1. id[k] \in MsgId
        BY <1>10 DEF CallInsert, Locals, HasTp, HasId
      <3>2. maps' \in [Grp -> SUBSET MsgId]
        BY <1>10, <3>1 DEF CallInsert, ImplTypeOK
      <3> QED
        BY <1>10, <3>2 DEF CallInsert, ImplTypeOK
    <2>3. ConnTypeOK'
      BY <1>10 DEF CallInsert, Goto, ConnTypeOK, Up, Down, MsgId, Grp, Slot,
         Idle
    <2> QED
      BY <2>1, <2>2, <2>3
  <1>11. ASSUME NEW k \in Caller, CallSend(k) PROVE TypeInv'
    <2>1. CallTypeOK' /\ Locals'
      BY <1>11 DEF CallSend, Goto, CallTypeOK, Locals, HasTp, HasId, HasGrp,
         PC, Codes, Rsp, MsgId, Grp, NoRsp, ErrRsp
    <2>2. ImplTypeOK'
      BY <1>11 DEF CallSend, Goto, ImplTypeOK, Rsp, MsgId, Grp, Slot, NoRsp,
         ErrRsp
    <2>3. ConnTypeOK'
      <3>1. id[k] \in MsgId
        BY <1>11 DEF CallSend, Locals, HasTp, HasId
      <3>2. wire' \in [Conn -> SUBSET MsgId] /\ sndErr' \subseteq MsgId
        BY <1>11, <3>1 DEF CallSend, ConnTypeOK
      <3> QED
        BY <1>11, <3>2 DEF CallSend, ConnTypeOK
    <2> QED
      BY <2>1, <2>2, <2>3
  <1>12. ASSUME NEW k \in Caller, CallCount(k) PROVE TypeInv'
    <2>1. CallTypeOK' /\ Locals'
      BY <1>12 DEF CallCount, Goto, CallTypeOK, Locals, HasTp, HasId, HasGrp,
         PC, Codes, Rsp, MsgId, Grp, NoRsp, ErrRsp
    <2>2. ImplTypeOK'
      BY <1>12 DEF CallCount, Goto, ImplTypeOK, Rsp, MsgId, Grp, Slot, NoRsp,
         ErrRsp
    <2>3. ConnTypeOK'
      BY <1>12 DEF CallCount, Goto, ConnTypeOK, Up, Down, MsgId, Grp, Slot,
         Idle
    <2> QED
      BY <2>1, <2>2, <2>3
  <1>13. ASSUME NEW k \in Caller, CallPop(k) PROVE TypeInv'
    <2>1. CallTypeOK' /\ Locals'
      BY <1>13 DEF CallPop, Goto, CallTypeOK, Locals, HasTp, HasId, HasGrp, PC,
         Codes, Rsp, MsgId, Grp, NoRsp, ErrRsp, ImplTypeOK
    <2>2. ImplTypeOK'
      BY <1>13 DEF CallPop, Goto, ImplTypeOK, Rsp, MsgId, Grp, Slot, NoRsp,
         ErrRsp, CallTypeOK, Locals, HasTp, HasId, HasGrp
    <2>3. ConnTypeOK'
      BY <1>13 DEF CallPop, Goto, ConnTypeOK, Up, Down, MsgId, Grp, Slot, Idle
    <2> QED
      BY <2>1, <2>2, <2>3
  <1>14. ASSUME NEW k \in Caller, CallTimeout(k) PROVE TypeInv'
    <2>1. CallTypeOK' /\ Locals'
      BY <1>14, ReturnTypes DEF CallTimeout, Goto, CallTypeOK, Locals, HasTp,
         HasId, HasGrp, PC, Codes, Rsp, MsgId, Grp, NoRsp, ErrRsp
    <2>2. ImplTypeOK'
      BY <1>14 DEF CallTimeout, Goto, ImplTypeOK, Rsp, MsgId, Grp, Slot, NoRsp,
         ErrRsp
    <2>3. ConnTypeOK'
      BY <1>14 DEF CallTimeout, Goto, ConnTypeOK, Up, Down, MsgId, Grp, Slot,
         Idle
    <2> QED
      BY <2>1, <2>2, <2>3
  <1>15. ASSUME NEW k \in Caller, CallUncount(k) PROVE TypeInv'
    <2>1. CallTypeOK' /\ Locals'
      BY <1>15 DEF CallUncount, Goto, CallTypeOK, Locals, HasTp, HasId, HasGrp,
         PC, Codes, Rsp, MsgId, Grp, NoRsp, ErrRsp
    <2>2. ImplTypeOK'
      BY <1>15 DEF CallUncount, Goto, ImplTypeOK, Rsp, MsgId, Grp, Slot, NoRsp,
         ErrRsp
    <2>3. ConnTypeOK'
      BY <1>15 DEF CallUncount, Goto, ConnTypeOK, Up, Down, MsgId, Grp, Slot,
         Idle
    <2> QED
      BY <2>1, <2>2, <2>3
  <1>16. ASSUME NEW k \in Caller, CallErase(k) PROVE TypeInv'
    <2>1. CallTypeOK' /\ Locals'
      BY <1>16, ReturnTypes DEF CallErase, Goto, CallTypeOK, Locals, HasTp,
         HasId, HasGrp, PC, Codes, Rsp, MsgId, Grp, NoRsp, ErrRsp
    <2>2. ImplTypeOK'
      BY <1>16 DEF CallErase, Goto, ImplTypeOK, Rsp, MsgId, Grp, Slot, NoRsp,
         ErrRsp, CallTypeOK, Locals, HasTp, HasId, HasGrp
    <2>3. ConnTypeOK'
      BY <1>16 DEF CallErase, Goto, ConnTypeOK, Up, Down, MsgId, Grp, Slot,
         Idle
    <2> QED
      BY <2>1, <2>2, <2>3
  <1>17. ASSUME NEW c \in Conn, Connect(c) PROVE TypeInv'
    <2>1. CallTypeOK' /\ Locals'
      BY <1>17 DEF Connect, CallTypeOK, Locals
    <2>2. ImplTypeOK'
      BY <1>17 DEF Connect, Established, ImplTypeOK, Rsp, MsgId, Grp, Slot,
         NoRsp, ErrRsp
    <2>3. ConnTypeOK'
      BY <1>17 DEF Connect, Established, ConnTypeOK, Up, Down, MsgId, Grp,
         Slot, Idle
    <2> QED
      BY <2>1, <2>2, <2>3
  <1>18. ASSUME NEW c \in Conn, Drop(c) PROVE TypeInv'
    <2>1. CallTypeOK' /\ Locals'
      BY <1>18 DEF Drop, CallTypeOK, Locals
    <2>2. ImplTypeOK'
      BY <1>18 DEF Drop, ImplTypeOK, Rsp, MsgId, Grp, Slot, NoRsp, ErrRsp
    <2>3. ConnTypeOK'
      BY <1>18 DEF Drop, ConnTypeOK, Up, Down, MsgId, Grp, Slot, Idle
    <2> QED
      BY <2>1, <2>2, <2>3
  <1>19. ASSUME NEW c \in Conn, SessionClose(c) PROVE TypeInv'
    <2>1. CallTypeOK' /\ Locals'
      BY <1>19 DEF SessionClose, CallTypeOK, Locals
    <2>2. ImplTypeOK'
      BY <1>19 DEF SessionClose, ImplTypeOK, Rsp, MsgId, Grp, Slot, NoRsp,
         ErrRsp
    <2>3. ConnTypeOK'
      BY <1>19 DEF SessionClose, ConnTypeOK, Up, Down, MsgId, Grp, Slot, Idle
    <2> QED
      BY <2>1, <2>2, <2>3
  <1>20. ASSUME NEW c \in Conn, OnConnectedAdd(c) PROVE TypeInv'
    <2>1. CallTypeOK' /\ Locals'
      BY <1>20 DEF OnConnectedAdd, CallTypeOK, Locals
    <2>2. ImplTypeOK'
      BY <1>20 DEF OnConnectedAdd, ImplTypeOK, Rsp, MsgId, Grp, Slot, NoRsp,
         ErrRsp
    <2>3. ConnTypeOK'
      BY <1>20 DEF OnConnectedAdd, ConnTypeOK, Up, Down, MsgId, Grp, Slot, Idle
    <2> QED
      BY <2>1, <2>2, <2>3
  <1>21. ASSUME NEW c \in Conn, OnConnectedGroup(c) PROVE TypeInv'
    <2>1. CallTypeOK' /\ Locals'
      BY <1>21 DEF OnConnectedGroup, CallTypeOK, Locals
    <2>2. ImplTypeOK'
      BY <1>21 DEF OnConnectedGroup, ImplTypeOK, Rsp, MsgId, Grp, Slot, NoRsp,
         ErrRsp
    <2>3. ConnTypeOK'
      BY <1>21 DEF OnConnectedGroup, ConnTypeOK, Up, Down, MsgId, Grp, Slot,
         Idle
    <2> QED
      BY <2>1, <2>2, <2>3
  <1>22. ASSUME NEW c \in Conn, OnDisconnectedDel(c) PROVE TypeInv'
    <2>1. CallTypeOK' /\ Locals'
      BY <1>22 DEF OnDisconnectedDel, CallTypeOK, Locals
    <2>2. ImplTypeOK'
      BY <1>22 DEF OnDisconnectedDel, ImplTypeOK, Rsp, MsgId, Grp, Slot, NoRsp,
         ErrRsp
    <2>3. ConnTypeOK'
      BY <1>22 DEF OnDisconnectedDel, ConnTypeOK, Up, Down, MsgId, Grp, Slot,
         Idle
    <2> QED
      BY <2>1, <2>2, <2>3
  <1>23. ASSUME NEW c \in Conn, OnDisconnectedErase(c) PROVE TypeInv'
    <2>1. CallTypeOK' /\ Locals'
      BY <1>23 DEF OnDisconnectedErase, CallTypeOK, Locals
    <2>2. ImplTypeOK'
      BY <1>23 DEF OnDisconnectedErase, ImplTypeOK, Rsp, MsgId, Grp, Slot,
         NoRsp, ErrRsp
    <2>3. ConnTypeOK'
      BY <1>23 DEF OnDisconnectedErase, ConnTypeOK, Up, Down, MsgId, Grp, Slot,
         Idle, ImplTypeOK
    <2> QED
      BY <2>1, <2>2, <2>3
  <1>24. ASSUME NEW c \in Conn, OnDisconnectedClose(c) PROVE TypeInv'
    <2>1. CallTypeOK' /\ Locals'
      BY <1>24 DEF OnDisconnectedClose, CallTypeOK, Locals
    <2>2. ImplTypeOK'
      <3>1. dslot[c] \in Slot
        BY DEF ConnTypeOK
      <3>2. closed' \in [Grp -> SUBSET Slot]
        BY <1>24, <3>1 DEF OnDisconnectedClose, ImplTypeOK
      <3>3. chan' \in [MsgId -> Rsp]
        BY <1>24 DEF OnDisconnectedClose, ImplTypeOK, Rsp, NoRsp, ErrRsp
      <3> QED
        BY <1>24, <3>2, <3>3 DEF OnDisconnectedClose, ImplTypeOK
    <2>3. ConnTypeOK'
      <3>1. (IF dslot[c] = Slots - 1 THEN 0 ELSE dslot[c] + 1) \in Slot
        BY DEF ConnTypeOK, Slot
      <3>2. dslot' \in [Conn -> Slot]
        BY <1>24, <3>1 DEF OnDisconnectedClose, ConnTypeOK
      <3>3. dgrp' \in [Conn -> Grp \cup {0}] /\ down' \in [Conn -> Down]
        BY <1>24 DEF OnDisconnectedClose, ConnTypeOK, Down
      <3> QED
        BY <1>24, <3>2, <3>3 DEF OnDisconnectedClose, ConnTypeOK
    <2> QED
      BY <2>1, <2>2, <2>3
  <1>25. ASSUME NEW c \in Conn, OnResponseLookup(c) PROVE TypeInv'
    <2>1. CallTypeOK' /\ Locals'
      BY <1>25 DEF OnResponseLookup, CallTypeOK, Locals
    <2>2. ImplTypeOK'
      BY <1>25 DEF OnResponseLookup, ImplTypeOK, Rsp, MsgId, Grp, Slot, NoRsp,
         ErrRsp
    <2>3. ConnTypeOK'
      BY <1>25 DEF OnResponseLookup, ConnTypeOK, Up, Down, MsgId, Grp, Slot,
         Idle
    <2> QED
      BY <2>1, <2>2, <2>3
  <1>26. ASSUME NEW c \in Conn, OnResponsePush(c) PROVE TypeInv'
    <2>1. CallTypeOK' /\ Locals'
      BY <1>26 DEF OnResponsePush, CallTypeOK, Locals
    <2>2. ImplTypeOK'
      BY <1>26 DEF OnResponsePush, TryPush, ImplTypeOK, Rsp, MsgId, Grp, Slot,
         NoRsp, ErrRsp, ConnTypeOK
    <2>3. ConnTypeOK'
      BY <1>26 DEF OnResponsePush, TryPush, ConnTypeOK, Up, Down, MsgId, Grp,
         Slot, Idle
    <2> QED
      BY <2>1, <2>2, <2>3
  <1>27. ASSUME NEW c \in Conn, NEW i \in MsgId, OnResponseFind(c, i) PROVE TypeInv'
    <2>1. CallTypeOK' /\ Locals'
      BY <1>27 DEF OnResponseFind, CallTypeOK, Locals
    <2>2. ImplTypeOK'
      BY <1>27 DEF OnResponseFind, ImplTypeOK, Rsp, MsgId, Grp, Slot, NoRsp,
         ErrRsp
    <2>3. ConnTypeOK'
      BY <1>27 DEF OnResponseFind, ConnTypeOK, Up, Down, MsgId, Grp, Slot,
         Idle, ImplTypeOK
    <2> QED
      BY <2>1, <2>2, <2>3
  <1>28. ASSUME NEW i \in MsgId, SendFailed(i) PROVE TypeInv'
    <2>1. CallTypeOK' /\ Locals'
      BY <1>28 DEF SendFailed, CallTypeOK, Locals
    <2>2. ImplTypeOK'
      BY <1>28 DEF SendFailed, TryPush, ImplTypeOK, Rsp, MsgId, Grp, Slot,
         NoRsp, ErrRsp
    <2>3. ConnTypeOK'
      BY <1>28 DEF SendFailed, TryPush, ConnTypeOK, Up, Down, MsgId, Grp, Slot,
         Idle
    <2> QED
      BY <2>1, <2>2, <2>3
  <1>29. CASE UNCHANGED vars
    BY <1>29 DEF vars, CallTypeOK, ImplTypeOK, ConnTypeOK, Locals
  <1> QED
    BY <1>1, <1>2, <1>3, <1>4, <1>5, <1>6, <1>7, <1>8, <1>9, <1>10, <1>11,
       <1>12, <1>13, <1>14, <1>15, <1>16, <1>17, <1>18, <1>19, <1>20, <1>21,
       <1>22, <1>23, <1>24, <1>25, <1>26, <1>27, <1>28, <1>29
    DEF Next, CallerStep, Callback

(* Every variable of ClientImpl keeps its type (TypeOK).                   *)
THEOREM TypeCorrect == Spec => []TypeOK
  <1>1. TypeInv => TypeOK
    BY DEF TypeInv
  <1>2. QED
    BY TypeInit, TypeStep, <1>1, PTL DEF Spec

-----------------------------------------------------------------------------
(* Steps that leave the registered calls, the groups and the answers that  *)
(* calls were given as they are.                                           *)
Awaiting == {"send", "count", "wait"}

Quiet ==
  /\ \A k \in Caller :
       /\ pc'[k] \in Registered =>
            pc[k] \in Registered /\ id'[k] = id[k] /\ grp'[k] = grp[k]
       /\ pc'[k] \in Awaiting => pc[k] \in Awaiting
  /\ maps' = maps /\ closed' = closed
  /\ \A i \in MsgId : chan'[i] = NoRsp => chan[i] = NoRsp

(* All other steps register a call, take its answer, erase its entry or    *)
(* close a slot.                                                           *)
LEMMA StepKinds ==
  ASSUME TypeInv, [Next]_vars
  PROVE  \/ Quiet
         \/ \E k \in Caller : CallInsert(k) \/ CallPop(k) \/ CallErase(k)
         \/ \E c \in Conn : OnDisconnectedClose(c)
  <1> USE DEF TypeInv, TypeOK, callVars, implVars, grpVars, connVars, netVars
  <1>1. ASSUME NEW k \in Caller, CallStart(k) PROVE Quiet
    BY <1>1 DEF CallStart, Return, Goto, CallTypeOK, Quiet, Registered,
       Awaiting
  <1>2. ASSUME NEW k \in Caller, CallWndFull(k) PROVE Quiet
    BY <1>2 DEF CallWndFull, Return, Goto, CallTypeOK, Quiet, Registered,
       Awaiting
  <1>3. ASSUME NEW k \in Caller, CallGet(k) PROVE Quiet
    BY <1>3 DEF CallGet, Return, Goto, CallTypeOK, Quiet, Registered, Awaiting
  <1>4. ASSUME NEW k \in Caller, CallGetNone(k) PROVE Quiet
    BY <1>4 DEF CallGetNone, Return, Goto, CallTypeOK, Quiet, Registered,
       Awaiting
  <1>5. ASSUME NEW k \in Caller, CallReconnect(k) PROVE Quiet
    BY <1>5 DEF CallReconnect, Return, Goto, CallTypeOK, Quiet, Registered,
       Awaiting
  <1>6. ASSUME NEW k \in Caller, CallNoEstab(k) PROVE Quiet
    BY <1>6 DEF CallNoEstab, Return, Goto, CallTypeOK, Quiet, Registered,
       Awaiting
  <1>7. ASSUME NEW k \in Caller, CallNewId(k) PROVE Quiet
    BY <1>7 DEF CallNewId, Return, Goto, CallTypeOK, Quiet, Registered,
       Awaiting
  <1>8. ASSUME NEW k \in Caller, CallOneWay(k) PROVE Quiet
    BY <1>8 DEF CallOneWay, Return, Goto, CallTypeOK, Quiet, Registered,
       Awaiting
  <1>9. ASSUME NEW k \in Caller, CallFind(k) PROVE Quiet
    BY <1>9 DEF CallFind, Return, Goto, CallTypeOK, Quiet, Registered, Awaiting
  <1>10. ASSUME NEW k \in Caller, CallSend(k) PROVE Quiet
    BY <1>10 DEF CallSend, Return, Goto, CallTypeOK, Quiet, Registered,
       Awaiting
  <1>11. ASSUME NEW k \in Caller, CallCount(k) PROVE Quiet
    BY <1>11 DEF CallCount, Return, Goto, CallTypeOK, Quiet, Registered,
       Awaiting
  <1>12. ASSUME NEW k \in Caller, CallTimeout(k) PROVE Quiet
    BY <1>12 DEF CallTimeout, Return, Goto, CallTypeOK, Quiet, Registered,
       Awaiting
  <1>13. ASSUME NEW k \in Caller, CallUncount(k) PROVE Quiet
    BY <1>13 DEF CallUncount, Return, Goto, CallTypeOK, Quiet, Registered,
       Awaiting
  <1>14. ASSUME NEW c \in Conn, Connect(c) PROVE Quiet
    BY <1>14 DEF Connect, Quiet
  <1>15. ASSUME NEW c \in Conn, Drop(c) PROVE Quiet
    BY <1>15 DEF Drop, Quiet
  <1>16. ASSUME NEW c \in Conn, SessionClose(c) PROVE Quiet
    BY <1>16 DEF SessionClose, Quiet
  <1>17. ASSUME NEW c \in Conn, OnConnectedAdd(c) PROVE Quiet
    BY <1>17 DEF OnConnectedAdd, Quiet
  <1>18. ASSUME NEW c \in Conn, OnConnectedGroup(c) PROVE Quiet
    BY <1>18 DEF OnConnectedGroup, Quiet
  <1>19. ASSUME NEW c \in Conn, OnDisconnectedDel(c) PROVE Quiet
    BY <1>19 DEF OnDisconnectedDel, Quiet
  <1>20. ASSUME NEW c \in Conn, OnDisconnectedErase(c) PROVE Quiet
    BY <1>20 DEF OnDisconnectedErase, Quiet
  <1>21. ASSUME NEW c \in Conn, OnResponseLookup(c) PROVE Quiet
    BY <1>21 DEF OnResponseLookup, Quiet
  <1>22. ASSUME NEW c \in Conn, OnResponsePush(c) PROVE Quiet
    BY <1>22 DEF OnResponsePush, Quiet, TryPush, ImplTypeOK
  <1>23. ASSUME NEW c \in Conn, NEW i \in MsgId, OnResponseFind(c, i) PROVE Quiet
    BY <1>23 DEF OnResponseFind, Quiet
  <1>24. ASSUME NEW i \in MsgId, SendFailed(i) PROVE Quiet
    BY <1>24 DEF SendFailed, Quiet, TryPush, ImplTypeOK
  <1>90. CASE UNCHANGED vars
    BY <1>90 DEF vars, Quiet
  <1> QED
    BY <1>1, <1>2, <1>3, <1>4, <1>5, <1>6, <1>7, <1>8, <1>9, <1>10, <1>11,
       <1>12, <1>13, <1>14, <1>15, <1>16, <1>17, <1>18, <1>19, <1>20, <1>21,
       <1>22, <1>23, <1>24, <1>90 DEF Next, CallerStep, Callback

-----------------------------------------------------------------------------
(* Every call has an id of its own.                                        *)
IdInv ==
  /\ \A k \in Caller : id[k] <= msgId
  /\ \A j, k \in Caller : j # k /\ id[j] = id[k] => id[k] = 0

LEMMA IdChanges ==
  ASSUME [Next]_vars, TypeInv
  PROVE  \/ id' = id /\ msgId' = msgId
         \/ \E k \in Caller : id' = [id EXCEPT ![k] = 0] /\ msgId' = msgId
         \/ \E k \in Caller : id' = [id EXCEPT ![k] = msgId + 1] /\ msgId' = msgId + 1
  <1> USE DEF callVars, implVars, Return
  <1>1. ASSUME NEW k \in Caller, CallStart(k) \/ CallTimeout(k) \/ CallWndFull(k) \/ CallerStep(k)
        PROVE  \/ id' = id /\ msgId' = msgId
               \/ id' = [id EXCEPT ![k] = 0] /\ msgId' = msgId
               \/ id' = [id EXCEPT ![k] = msgId + 1] /\ msgId' = msgId + 1
    BY <1>1 DEF CallerStep, CallStart, CallWndFull, CallGet, CallGetNone,
       CallReconnect, CallNoEstab, CallNewId, CallOneWay, CallFind, CallInsert,
       CallSend, CallCount, CallPop, CallTimeout, CallUncount, CallErase
  <1>2. ASSUME NEW c \in Conn, \/ Connect(c) \/ Drop(c) \/ Callback(c)
                                \/ \E i \in MsgId : OnResponseFind(c, i)
        PROVE  id' = id /\ msgId' = msgId
    BY <1>2 DEF Callback, Connect, Drop, SessionClose, OnConnectedAdd,
       OnConnectedGroup, OnDisconnectedDel, OnDisconnectedErase,
       OnDisconnectedClose, OnResponseLookup, OnResponsePush, OnResponseFind
  <1>3. ASSUME NEW i \in MsgId, SendFailed(i) PROVE id' = id /\ msgId' = msgId
    BY <1>3 DEF SendFailed
  <1>90. CASE UNCHANGED vars
    BY <1>90 DEF vars
  <1> QED
    BY <1>1, <1>2, <1>3, <1>90 DEF Next

LEMMA IdStep == TypeInv /\ IdInv /\ [Next]_vars => IdInv'
  <1> SUFFICES ASSUME TypeInv, IdInv, [Next]_vars PROVE IdInv'
    OBVIOUS
  <1> id \in [Caller -> MsgId \cup {0}] /\ msgId \in 0..MaxMsg /\ MaxMsg \in Nat
    BY ConstAssumption DEF TypeInv, TypeOK, CallTypeOK, ImplTypeOK
  <1>1. CASE id' = id /\ msgId' = msgId
    BY <1>1 DEF IdInv
  <1>2. ASSUME NEW k \in Caller, id' = [id EXCEPT ![k] = 0], msgId' = msgId
        PROVE  IdInv'
    BY <1>2 DEF IdInv, MsgId
  <1>3. ASSUME NEW k \in Caller, id' = [id EXCEPT ![k] = msgId + 1],
               msgId' = msgId + 1
        PROVE  IdInv'
    BY <1>3 DEF IdInv, MsgId
  <1> QED
    BY <1>1, <1>2, <1>3, IdChanges

-----------------------------------------------------------------------------
(* A call that registered has its entry in the group it registered in.     *)
RegInv == \A k \in Caller : pc[k] \in Registered => id[k] \in maps[grp[k]]

LEMMA RegStep == TypeInv /\ IdInv /\ RegInv /\ [Next]_vars => RegInv'
  <1> SUFFICES ASSUME TypeInv, IdInv, RegInv, [Next]_vars,
                      NEW j \in Caller, pc'[j] \in Registered
               PROVE  id'[j] \in maps'[grp'[j]]
    BY DEF RegInv
  <1> USE DEF TypeInv, TypeOK, CallTypeOK, ImplTypeOK, Locals, HasTp, HasId,
              HasGrp, Registered, RegInv
  <1>1. CASE Quiet
    BY <1>1 DEF Quiet
  <1>2. ASSUME NEW k \in Caller, CallInsert(k)
        PROVE  id'[j] \in maps'[grp'[j]]
    BY <1>2 DEF CallInsert, Return, Goto
  <1>3. ASSUME NEW k \in Caller, CallPop(k)
        PROVE  id'[j] \in maps'[grp'[j]]
    BY <1>3 DEF CallPop, Goto, grpVars
  <1>4. ASSUME NEW k \in Caller, CallErase(k)
        PROVE  id'[j] \in maps'[grp'[j]]
    <2>1. j # k /\ pc[j] \in Registered /\ id'[j] = id[j] /\ grp'[j] = grp[j]
      BY <1>4 DEF CallErase, Return, Goto
    <2>2. id[j] # id[k]
      BY <2>1, <1>4 DEF IdInv, MsgId, CallErase
    <2> QED
      BY <1>4, <2>1, <2>2 DEF CallErase
  <1>5. ASSUME NEW c \in Conn, OnDisconnectedClose(c)
        PROVE  id'[j] \in maps'[grp'[j]]
    BY <1>5 DEF OnDisconnectedClose, callVars
  <1> QED
    BY <1>1, <1>2, <1>3, <1>4, <1>5, StepKinds

-----------------------------------------------------------------------------
(* No call is left waiting in a closed slot (ClosedMeansAnswered): if it   *)
(* registered before the slot was closed, OnDisconnected found its entry.  *)
LEMMA ClosedStep ==
  TypeInv /\ IdInv /\ RegInv /\ ClosedMeansAnswered /\ [Next]_vars
    => ClosedMeansAnswered'
  <1> SUFFICES ASSUME TypeInv, IdInv, RegInv, ClosedMeansAnswered, [Next]_vars,
                      NEW j \in Caller, Awaits(j, id[j])'
               PROVE  SlotOf(id'[j]) \notin closed'[grp'[j]]
    BY DEF ClosedMeansAnswered
  <1> USE DEF TypeInv, TypeOK, CallTypeOK, ImplTypeOK, Locals, HasTp, HasId,
              HasGrp, Awaits, ClosedMeansAnswered
  <1>1. CASE Quiet
    BY <1>1 DEF Quiet, Registered, Awaiting
  <1>2. ASSUME NEW k \in Caller, CallInsert(k)
        PROVE  SlotOf(id'[j]) \notin closed'[grp'[j]]
    <2>1. CASE j = k
      BY <1>2, <2>1 DEF CallInsert, Return, Goto
    <2>2. CASE j # k
      BY <1>2, <2>2 DEF CallInsert, Return, Goto
    <2> QED
      BY <2>1, <2>2
  <1>3. ASSUME NEW k \in Caller, CallPop(k)
        PROVE  SlotOf(id'[j]) \notin closed'[grp'[j]]
    <2>1. j # k /\ pc[j] \in Awaiting /\ id'[j] = id[j] /\ grp'[j] = grp[j]
      BY <1>3 DEF CallPop, Goto, Awaiting
    <2>2. id[j] # id[k]
      BY <2>1, <1>3 DEF IdInv, MsgId, CallPop, Awaiting
    <2>3. chan[id[j]] = NoRsp
      BY <1>3, <2>1, <2>2 DEF CallPop, Awaiting
    <2> QED
      BY <1>3, <2>1, <2>3 DEF CallPop, Awaiting, grpVars
  <1>4. ASSUME NEW k \in Caller, CallErase(k)
        PROVE  SlotOf(id'[j]) \notin closed'[grp'[j]]
    BY <1>4 DEF CallErase, Return, Goto
  <1>5. ASSUME NEW c \in Conn, OnDisconnectedClose(c)
        PROVE  SlotOf(id'[j]) \notin closed'[grp'[j]]
    <2>1. /\ pc[j] \in Awaiting /\ id'[j] = id[j] /\ grp'[j] = grp[j]
          /\ id[j] \in MsgId /\ grp[j] \in Grp /\ id[j] \in maps[grp[j]]
      BY <1>5 DEF OnDisconnectedClose, callVars, Awaiting, Registered, RegInv
    <2>2. chan[id[j]] = NoRsp
          /\ ~(id[j] \in maps[dgrp[c]] /\ SlotOf(id[j]) = dslot[c])
      BY <1>5, <2>1 DEF OnDisconnectedClose, NoRsp, ErrRsp
    <2>3. SlotOf(id[j]) \notin closed[grp[j]]
      BY <2>1, <2>2 DEF Awaiting
    <2> QED
      BY <1>5, <2>1, <2>2, <2>3 DEF OnDisconnectedClose
  <1> QED
    BY <1>1, <1>2, <1>3, <1>4, <1>5, StepKinds

(* OnDisconnected and Call never leave a registered call in a closed slot  *)
(* without its answer (ClosedMeansAnswered).                               *)
THEOREM NoCallStranded == Spec => []ClosedMeansAnswered
  <1> DEFINE Inv == TypeInv /\ IdInv /\ RegInv /\ ClosedMeansAnswered
  <1>1. Init => Inv
    BY TypeInit DEF Init, IdInv, RegInv, ClosedMeansAnswered, Awaits,
       Registered
  <1>2. Inv /\ [Next]_vars => Inv'
    BY TypeStep, IdStep, RegStep, ClosedStep
  <1> HIDE DEF Inv
  <1>3. Spec => []Inv
    BY <1>1, <1>2, PTL DEF Spec
  <1>4. Inv => ClosedMeansAnswered
    BY DEF Inv
  <1> QED
    BY <1>3, <1>4, PTL

-----------------------------------------------------------------------------
(* As long as msg_id_ fits in the header's callid, what is in a response   *)
(* channel, and what Call took out of it, is an error or the reply to the  *)
(* call's own request.                                                     *)
IdsFit == MaxMsg < IdMod

AnswerInv ==
  /\ \A i \in MsgId : chan[i] \in {NoRsp, ErrRsp, i}
  /\ \A k \in Caller : IF pc[k] \in {"uncount", "erase"}
                        THEN rsp[k] \in {ErrRsp, id[k]}
                        ELSE rsp[k] = NoRsp
  /\ OwnReply

LEMMA CallIdFits == ASSUME IdsFit, NEW i \in MsgId PROVE CallId(i) = i
  BY ConstAssumption DEF IdsFit, MsgId, CallId

LEMMA AnswerStep == IdsFit /\ TypeInv /\ AnswerInv /\ [Next]_vars => AnswerInv'
  <1> SUFFICES ASSUME IdsFit, TypeInv, AnswerInv, [Next]_vars PROVE AnswerInv'
    OBVIOUS
  <1> USE DEF TypeInv, TypeOK, CallTypeOK, ImplTypeOK, AnswerInv, OwnReply,
              callVars, implVars, grpVars, connVars, netVars
  <1>1. ASSUME NEW k \in Caller, CallPop(k) PROVE AnswerInv'
    <2>1. chan[id[k]] \in {ErrRsp, id[k]} /\ id[k] \in MsgId
      BY <1>1 DEF CallPop, Locals, HasId, HasTp
    <2> QED
      BY <1>1, <2>1 DEF CallPop, Goto
  <1>2. ASSUME NEW k \in Caller, CallErase(k) PROVE AnswerInv'
    <2>1. rsp[k] \in {ErrRsp, id[k]} /\ chan' = chan
      BY <1>2 DEF CallErase
    <2>2. \E code \in Codes, rid \in {0, id[k]} :
            Return(k, code, rid) /\ (code = "ok" => rid = id[k])
      BY <1>2, <2>1 DEF CallErase, Codes
    <2>3. PICK code \in Codes, rid \in {0, id[k]} :
            Return(k, code, rid) /\ (code = "ok" => rid = id[k])
      BY <2>2
    <2>4. OwnReply'
      BY <2>3 DEF Return
    <2>5. \A j \in Caller : IF pc'[j] \in {"uncount", "erase"}
                            THEN rsp'[j] \in {ErrRsp, id'[j]}
                            ELSE rsp'[j] = NoRsp
      BY <2>3 DEF Return, Goto
    <2> QED
      BY <2>1, <2>4, <2>5
  <1>3. ASSUME NEW k \in Caller,
               \/ CallStart(k) \/ CallWndFull(k) \/ CallTimeout(k) \/ CallGet(k)
               \/ CallGetNone(k) \/ CallReconnect(k) \/ CallNoEstab(k) \/ CallNewId(k)
               \/ CallOneWay(k) \/ CallFind(k) \/ CallInsert(k) \/ CallSend(k)
               \/ CallCount(k) \/ CallUncount(k)
        PROVE  AnswerInv'
    <2>1. chan' = chan
      BY <1>3 DEF CallStart, CallWndFull, CallTimeout, CallGet, CallGetNone,
                  CallReconnect, CallNoEstab, CallNewId, CallOneWay, CallFind,
                  CallInsert, CallSend, CallCount, CallUncount
    <2>2. \A j \in Caller : IF pc'[j] \in {"uncount", "erase"}
                            THEN rsp'[j] \in {ErrRsp, id'[j]}
                            ELSE rsp'[j] = NoRsp
      BY <1>3 DEF CallStart, CallWndFull, CallTimeout, CallGet, CallGetNone,
                  CallReconnect, CallNoEstab, CallNewId, CallOneWay, CallFind,
                  CallInsert, CallSend, CallCount, CallUncount, Return, Goto
    <2>3. OwnReply'
      BY <1>3 DEF CallStart, CallWndFull, CallTimeout, CallGet, CallGetNone,
                  CallReconnect, CallNoEstab, CallNewId, CallOneWay, CallFind,
                  CallInsert, CallSend, CallCount, CallUncount, Return, NoRet
    <2> QED
      BY <2>1, <2>2, <2>3
  <1>4. ASSUME NEW c \in Conn, OnResponsePush(c) PROVE AnswerInv'
    <2>1. rx[c].rid \in MsgId => CallId(rx[c].rid) = rx[c].rid
      BY CallIdFits
    <2>2. rx[c].rid \in MsgId \cup {0}
      BY DEF ConnTypeOK
    <2>3. \A i \in MsgId : chan'[i] \in {NoRsp, ErrRsp, i}
      BY <1>4, <2>1, <2>2 DEF OnResponsePush, TryPush, NoRsp
    <2> QED
      BY <1>4, <2>3 DEF OnResponsePush
  <1>5. ASSUME NEW i \in MsgId, SendFailed(i) PROVE AnswerInv'
    BY <1>5 DEF SendFailed, TryPush
  <1>6. ASSUME NEW c \in Conn, OnDisconnectedClose(c) PROVE AnswerInv'
    BY <1>6 DEF OnDisconnectedClose
  <1>7. ASSUME NEW c \in Conn,
               \/ Connect(c) \/ Drop(c) \/ SessionClose(c) \/ OnConnectedAdd(c)
               \/ OnConnectedGroup(c) \/ OnDisconnectedDel(c) \/ OnDisconnectedErase(c)
               \/ OnResponseLookup(c) \/ \E i \in MsgId : OnResponseFind(c, i)
        PROVE  AnswerInv'
    BY <1>7 DEF Connect, Drop, SessionClose, OnConnectedAdd, OnConnectedGroup,
                OnDisconnectedDel, OnDisconnectedErase, OnResponseLookup,
                OnResponseFind
  <1>8. CASE UNCHANGED vars
    BY <1>8 DEF vars
  <1> QED
    BY <1>1, <1>2, <1>3, <1>4, <1>5, <1>6, <1>7, <1>8
    DEF Next, CallerStep, Callback

(* A call that succeeds returns the reply to its own request (OwnReply), as*)
(* long as no more requests were made than the header's callid can tell    *)
(* apart.                                                                  *)
THEOREM RepliesMatch == IdsFit => (Spec => []OwnReply)
  <1> SUFFICES ASSUME IdsFit PROVE Spec => []OwnReply
    OBVIOUS
  <1> DEFINE Inv == TypeInv /\ AnswerInv
  <1>1. Init => Inv
    BY TypeInit DEF Init, AnswerInv, OwnReply, NoRet
  <1>2. Inv /\ [Next]_vars => Inv'
    BY TypeStep, AnswerStep
  <1>3. Inv => OwnReply
    BY DEF AnswerInv
  <1> HIDE DEF Inv
  <1> QED
    BY <1>1, <1>2, <1>3, PTL DEF Spec

-----------------------------------------------------------------------------
(* Without a receive timeout wnd_size_ counts the calls in flight.         *)
InFlight == {k \in Caller : pc[k] \in {"wait", "uncount"}}
WndInv == IsFiniteSet(InFlight) /\ wndSize = Cardinality(InFlight)

(* A step counts a call that joins those in flight, discounts one that     *)
(* leaves them, or leaves the window as it is.                             *)
Counts(k) ==
  k \notin InFlight /\ InFlight' = InFlight \cup {k} /\ wndSize' = wndSize + 1
Discounts(k) ==
  k \in InFlight /\ InFlight' = InFlight \ {k} /\ wndSize' = wndSize - 1
SameWindow == InFlight' = InFlight /\ wndSize' = wndSize

LEMMA WindowSteps ==
  ASSUME ~HasTimeout, TypeInv, [Next]_vars
  PROVE  SameWindow \/ \E k \in Caller : Counts(k) \/ Discounts(k)
  <1> USE DEF TypeInv, TypeOK, callVars, implVars
  <1>1. ASSUME NEW k \in Caller, CallCount(k) PROVE Counts(k)
    BY <1>1 DEF CallCount, Goto, CallTypeOK, Counts, InFlight
  <1>2. ASSUME NEW k \in Caller, CallUncount(k) PROVE Discounts(k)
    BY <1>2 DEF CallUncount, Goto, CallTypeOK, Discounts, InFlight
  <1>3. ASSUME NEW k \in Caller,
               \/ CallStart(k) \/ CallWndFull(k) \/ CallGet(k) \/ CallGetNone(k)
               \/ CallReconnect(k) \/ CallNoEstab(k) \/ CallNewId(k)
               \/ CallOneWay(k) \/ CallFind(k) \/ CallInsert(k) \/ CallSend(k)
               \/ CallPop(k) \/ CallErase(k)
        PROVE  SameWindow
    <2>1. wndSize' = wndSize
      BY <1>3 DEF CallStart, CallWndFull, CallGet, CallGetNone, CallReconnect,
                  CallNoEstab, CallNewId, CallOneWay, CallFind, CallInsert,
                  CallSend, CallPop, CallErase
    <2>2. \E l \in PC : pc' = [pc EXCEPT ![k] = l]
                        /\ (l \in {"wait", "uncount"}
                              <=> pc[k] \in {"wait", "uncount"})
      BY <1>3 DEF CallStart, CallWndFull, CallGet, CallGetNone, CallReconnect,
                  CallNoEstab, CallNewId, CallOneWay, CallFind, CallInsert,
                  CallSend, CallPop, CallErase, Return, Goto, PC
    <2>3. InFlight' = InFlight
      BY <2>2 DEF CallTypeOK, InFlight
    <2> QED
      BY <2>1, <2>3 DEF SameWindow
  <1>4. ASSUME NEW c \in Conn, \/ Connect(c) \/ Drop(c) \/ Callback(c)
                               \/ \E i \in MsgId : OnResponseFind(c, i)
        PROVE  SameWindow
    BY <1>4 DEF Callback, Connect, Drop, SessionClose, OnConnectedAdd,
                OnConnectedGroup, OnDisconnectedDel, OnDisconnectedErase,
                OnDisconnectedClose, OnResponseLookup, OnResponsePush,
                OnResponseFind, SameWindow, InFlight
  <1>5. ASSUME NEW i \in MsgId, SendFailed(i) PROVE SameWindow
    BY <1>5 DEF SendFailed, SameWindow, InFlight
  <1>6. CASE UNCHANGED vars
    BY <1>6 DEF vars, SameWindow, InFlight
  <1>7. ASSUME NEW k \in Caller PROVE ~CallTimeout(k)
    BY DEF CallTimeout
  <1> QED
    BY <1>1, <1>2, <1>3, <1>4, <1>5, <1>6, <1>7 DEF Next, CallerStep

LEMMA WndStep == ~HasTimeout /\ TypeInv /\ WndInv /\ [Next]_vars => WndInv'
  <1> SUFFICES ASSUME ~HasTimeout, TypeInv, WndInv, [Next]_vars PROVE WndInv'
    OBVIOUS
  <1>1. CASE SameWindow
    BY <1>1 DEF SameWindow, WndInv
  <1>2. ASSUME NEW k \in Caller, Counts(k) PROVE WndInv'
    <2>1. /\ IsFiniteSet(InFlight \cup {k})
          /\ Cardinality(InFlight \cup {k}) = Cardinality(InFlight) + 1
      BY <1>2, FS_AddElement DEF WndInv, Counts
    <2> QED
      BY <1>2, <2>1 DEF WndInv, Counts
  <1>3. ASSUME NEW k \in Caller, Discounts(k) PROVE WndInv'
    <2>1. /\ IsFiniteSet(InFlight \ {k})
          /\ Cardinality(InFlight \ {k}) = Cardinality(InFlight) - 1
      BY <1>3, FS_RemoveElement DEF WndInv, Discounts
    <2> QED
      BY <1>3, <2>1 DEF WndInv, Discounts
  <1> QED
    BY <1>1, <1>2, <1>3, WindowSteps

LEMMA WndInit == Init => WndInv
  <1> SUFFICES ASSUME Init PROVE WndInv
    OBVIOUS
  <1>1. InFlight = {}
    BY DEF Init, InFlight
  <1> QED
    BY <1>1, FS_EmptySet DEF Init, WndInv

(* Without a receive timeout no path through Call loses or keeps a place   *)
(* in the request window (WndAccounting).                                  *)
THEOREM WindowIsExact == ~HasTimeout => (Spec => []WndAccounting)
  <1> SUFFICES ASSUME ~HasTimeout PROVE Spec => []WndAccounting
    OBVIOUS
  <1> DEFINE Inv == TypeInv /\ WndInv
  <1>1. Init => Inv
    BY TypeInit, WndInit
  <1>2. Inv /\ [Next]_vars => Inv'
    BY TypeStep, WndStep
  <1>3. Inv => WndAccounting
    BY DEF WndInv, WndAccounting, InFlight
  <1> HIDE DEF Inv
  <1> QED
    BY <1>1, <1>2, <1>3, PTL DEF Spec

(* Only the check at the top of Call returns "full".                       *)
LEMMA FullSteps ==
  ASSUME TypeInv, [Next]_vars, NEW k \in Caller,
         ret[k].code # "full", ret'[k].code = "full"
  PROVE  CallWndFull(k)
  <1> USE DEF TypeInv, TypeOK, CallTypeOK, callVars, implVars
  <1>1. ASSUME NEW j \in Caller, CallWndFull(j) PROVE j = k
    BY <1>1 DEF CallWndFull, Return
  <1>2. ASSUME NEW j \in Caller, CallStart(j) \/ CallTimeout(j) \/ CallerStep(j)
        PROVE  FALSE
    <2>1. \/ ret' = ret \/ ret' = [ret EXCEPT ![j] = NoRet]
          \/ \E code \in Codes \ {"full"}, i \in MsgId \cup {0}, rid \in Rsp :
               ret' = [ret EXCEPT ![j] = [code |-> code, id |-> i, rid |-> rid]]
      BY <1>2 DEF CallerStep, CallStart, CallGet, CallGetNone, CallReconnect,
                  CallNoEstab, CallNewId, CallOneWay, CallFind, CallInsert,
                  CallSend, CallCount, CallPop, CallTimeout, CallUncount,
                  CallErase, Return, Codes, Rsp, NoRsp
    <2> QED
      BY <2>1 DEF NoRet
  <1>3. ASSUME NEW c \in Conn, \/ Connect(c) \/ Drop(c) \/ Callback(c)
                               \/ \E i \in MsgId : OnResponseFind(c, i)
        PROVE  FALSE
    BY <1>3 DEF Callback, Connect, Drop, SessionClose, OnConnectedAdd,
                OnConnectedGroup, OnDisconnectedDel, OnDisconnectedErase,
                OnDisconnectedClose, OnResponseLookup, OnResponsePush,
                OnResponseFind
  <1>4. ASSUME NEW i \in MsgId, SendFailed(i) PROVE FALSE
    BY <1>4 DEF SendFailed
  <1>5. CASE UNCHANGED vars
    BY <1>5 DEF vars
  <1> QED
    BY <1>1, <1>2, <1>3, <1>4, <1>5 DEF Next

(* Without a receive timeout a call is refused only while more requests    *)
(* than the window admits are in flight (FullMeansFull): what the run      *)
(* full_window refutes for clients that have one.                          *)
THEOREM RefusedOnlyWhenFull == ~HasTimeout => (Spec => FullMeansFull)
  <1> SUFFICES ASSUME ~HasTimeout PROVE Spec => FullMeansFull
    OBVIOUS
  <1> DEFINE Inv == TypeInv /\ WndInv
             Full == \A k \in Caller :
                       (ret[k].code # "full" /\ ret'[k].code = "full") =>
                         Cardinality(InFlight) > WndSize
  <1>1. Init => Inv
    BY TypeInit, WndInit
  <1>2. Inv /\ [Next]_vars => Inv'
    BY TypeStep, WndStep
  <1>3. Inv /\ [Next]_vars => Full
    BY FullSteps DEF WndInv, CallWndFull
  <1>4. Inv /\ [Next]_vars => [Full]_vars
    BY <1>3
  <1>5. Inv /\ [Next]_vars =>
          [\A k \in Caller :
             (ret[k].code # "full" /\ ret'[k].code = "full") =>
               Cardinality({j \in Caller : pc[j] \in {"wait", "uncount"}})
                 > WndSize]_vars
    BY <1>4 DEF InFlight
  <1> HIDE DEF Inv
  <1> QED
    BY <1>1, <1>2, <1>5, PTL DEF Spec, FullMeansFull

-----------------------------------------------------------------------------
(* Without a receive timeout every entry belongs to a registered call.     *)
Owns(k, g, i) == id[k] = i /\ grp[k] = g /\ pc[k] \in Registered

EntryInv ==
  \A g \in Grp : \A i \in maps[g] : \E k \in Caller : Owns(k, g, i)

(* Only CallErase ends a registered call then.                             *)
LEMMA EntriesKept ==
  ASSUME ~HasTimeout, TypeInv, [Next]_vars
  PROVE  \/ \E k \in Caller : CallErase(k)
         \/ /\ \A k \in Caller, g \in Grp, i \in MsgId :
                 Owns(k, g, i) => Owns(k, g, i)'
            /\ maps' = maps \/ \E k \in Caller : CallInsert(k)
  <1> USE DEF TypeInv, TypeOK, CallTypeOK, callVars, implVars, grpVars
  <1> DEFINE Kept == \A k \in Caller, g \in Grp, i \in MsgId :
                       Owns(k, g, i) => Owns(k, g, i)'
  <1>1. ASSUME NEW k \in Caller,
               \/ CallStart(k) \/ CallWndFull(k) \/ CallGet(k) \/ CallGetNone(k)
               \/ CallReconnect(k) \/ CallNoEstab(k) \/ CallNewId(k)
               \/ CallOneWay(k) \/ CallFind(k) \/ CallSend(k) \/ CallCount(k)
               \/ CallPop(k) \/ CallUncount(k)
        PROVE  Kept /\ maps' = maps
    BY <1>1 DEF CallStart, CallWndFull, CallGet, CallGetNone, CallReconnect,
                CallNoEstab, CallNewId, CallOneWay, CallFind, CallSend,
                CallCount, CallPop, CallUncount, Return, Goto, Owns, Registered
  <1>2. ASSUME NEW k \in Caller, CallInsert(k) PROVE Kept
    BY <1>2 DEF CallInsert, Return, Goto, Owns, Registered
  <1>3. ASSUME NEW c \in Conn, \/ Connect(c) \/ Drop(c) \/ Callback(c)
                               \/ \E i \in MsgId : OnResponseFind(c, i)
        PROVE  Kept /\ maps' = maps
    BY <1>3 DEF Callback, Connect, Drop, SessionClose, OnConnectedAdd,
                OnConnectedGroup, OnDisconnectedDel, OnDisconnectedErase,
                OnDisconnectedClose, OnResponseLookup, OnResponsePush,
                OnResponseFind, Owns
  <1>4. ASSUME NEW i \in MsgId, SendFailed(i) PROVE Kept /\ maps' = maps
    BY <1>4 DEF SendFailed, Owns
  <1>5. CASE UNCHANGED vars
    BY <1>5 DEF vars, Owns
  <1>6. ASSUME NEW k \in Caller PROVE ~CallTimeout(k)
    BY DEF CallTimeout
  <1> QED
    BY <1>1, <1>2, <1>3, <1>4, <1>5, <1>6 DEF Next, CallerStep

LEMMA EntryStep ==
  ~HasTimeout /\ TypeInv /\ EntryInv /\ [Next]_vars => EntryInv'
  <1> SUFFICES ASSUME ~HasTimeout, TypeInv, EntryInv, [Next]_vars,
                      NEW g \in Grp, NEW i \in maps'[g]
               PROVE  \E k \in Caller : Owns(k, g, i)'
    BY DEF EntryInv
  <1> USE DEF TypeInv, TypeOK, CallTypeOK, ImplTypeOK
  <1>0. maps' \in [Grp -> SUBSET MsgId]
    BY TypeStep
  <1>1. ASSUME NEW k \in Caller, CallErase(k)
        PROVE  \E j \in Caller : Owns(j, g, i)'
    <2>1. /\ i \in maps[g] /\ ~(g = grp[k] /\ i = id[k])
          /\ \A j \in Caller \ {k} :
               pc'[j] = pc[j] /\ id'[j] = id[j] /\ grp'[j] = grp[j]
      BY <1>1 DEF CallErase, Return, Goto
    <2>2. PICK j \in Caller : Owns(j, g, i)
      BY <2>1 DEF EntryInv
    <2> QED
      BY <2>1, <2>2 DEF Owns
  <1>2. ASSUME NEW k \in Caller, CallInsert(k), i \notin maps[g]
        PROVE  Owns(k, g, i)'
    BY <1>2 DEF CallInsert, Goto, Owns, Registered
  <1>3. CASE i \in maps[g] /\ ~\E k \in Caller : CallErase(k)
    BY <1>0, <1>3, EntriesKept DEF EntryInv
  <1> QED
    BY <1>1, <1>2, <1>3, EntriesKept

(* Without a receive timeout every entry of a group belongs to a call in   *)
(* progress (NoDeadEntries).                                               *)
THEOREM NoEntryLeaks == ~HasTimeout => (Spec => []NoDeadEntries)
  <1> SUFFICES ASSUME ~HasTimeout PROVE Spec => []NoDeadEntries
    OBVIOUS
  <1> DEFINE Inv == TypeInv /\ EntryInv
  <1>1. Init => Inv
    BY TypeInit DEF Init, EntryInv
  <1>2. Inv /\ [Next]_vars => Inv'
    BY TypeStep, EntryStep
  <1>3. Inv => NoDeadEntries
    BY DEF EntryInv, Owns, NoDeadEntries
  <1> HIDE DEF Inv
  <1> QED
    BY <1>1, <1>2, <1>3, PTL DEF Spec

-----------------------------------------------------------------------------
(* ClientImpl implements RpcCall: a call has an id exactly from its request*)
(* on.                                                                     *)
RequestInv == \A k \in Caller : pc[k] \notin HasId => id[k] = 0

LEMMA RequestStep == TypeInv /\ RequestInv /\ [Next]_vars => RequestInv'
  <1> SUFFICES ASSUME TypeInv, RequestInv, [Next]_vars PROVE RequestInv'
    OBVIOUS
  <1> USE DEF TypeInv, TypeOK, CallTypeOK, RequestInv, HasId, HasTp, callVars
  <1>1. ASSUME NEW k \in Caller, CallStart(k) \/ CallTimeout(k)
                                 \/ CallWndFull(k) \/ CallerStep(k)
        PROVE  RequestInv'
    BY <1>1 DEF CallerStep, CallStart, CallWndFull, CallGet, CallGetNone,
                CallReconnect, CallNoEstab, CallNewId, CallOneWay, CallFind,
                CallInsert, CallSend, CallCount, CallPop, CallTimeout,
                CallUncount, CallErase, Return, Goto
  <1>2. ASSUME NEW c \in Conn, \/ Connect(c) \/ Drop(c) \/ Callback(c)
                               \/ \E i \in MsgId : OnResponseFind(c, i)
        PROVE  RequestInv'
    BY <1>2 DEF Callback, Connect, Drop, SessionClose, OnConnectedAdd,
                OnConnectedGroup, OnDisconnectedDel, OnDisconnectedErase,
                OnDisconnectedClose, OnResponseLookup, OnResponsePush,
                OnResponseFind
  <1>3. ASSUME NEW i \in MsgId, SendFailed(i) PROVE RequestInv'
    BY <1>3 DEF SendFailed
  <1>4. CASE UNCHANGED vars
    BY <1>4 DEF vars
  <1> QED
    BY <1>1, <1>2, <1>3, <1>4 DEF Next

(* What RpcCall sees of the calls.                                         *)
rpcCall == [k \in Caller |-> [at |-> RpcPhase(k), id |-> id[k]]]

LEMMA RpcReturn ==
  ASSUME TypeInv, RequestInv, NEW k \in Caller, NEW code, NEW rid,
         Return(k, code, rid), msgId' = msgId
  PROVE  Rpc!End(k, code, rid)
  <1> USE DEF TypeInv, TypeOK, CallTypeOK, Return, Goto
  <1>1. rpcCall' = [rpcCall EXCEPT ![k] = [at |-> "idle", id |-> 0]]
    BY DEF rpcCall, RpcPhase
  <1> QED
    BY <1>1 DEF rpcCall, Rpc!End, Rpc!NoCall

LEMMA RpcQuiet ==
  ASSUME TypeInv, RequestInv, NEW k \in Caller, NEW l \in PC \ {"idle", "ack"},
         pc[k] \notin {"idle", "ack"}, Goto(k, l), id' = id
  PROVE  rpcCall' = rpcCall
  BY DEF TypeInv, TypeOK, CallTypeOK, Goto, rpcCall, RpcPhase

LEMMA RpcStep ==
  IdsFit /\ TypeInv /\ RequestInv /\ AnswerInv /\ [Next]_vars
    => [Rpc!Next]_(Rpc!rpcVars)
  <1> SUFFICES ASSUME IdsFit, TypeInv, RequestInv, AnswerInv, [Next]_vars
               PROVE  [Rpc!Next]_(Rpc!rpcVars)
    OBVIOUS
  <1> USE DEF callVars, implVars
  <1>1. ASSUME NEW k \in Caller, CallStart(k) PROVE Rpc!Begin(k)
    <2>1. rpcCall[k].at = "idle"
      BY <1>1 DEF CallStart, rpcCall, RpcPhase
    <2>2. rpcCall' = [rpcCall EXCEPT ![k].at = "called"]
      BY <1>1 DEF CallStart, Goto, rpcCall, RpcPhase, RequestInv, HasId, HasTp,
                  TypeInv, TypeOK, CallTypeOK
    <2> QED
      BY <1>1, <2>1, <2>2 DEF CallStart, rpcCall, Rpc!Begin, Rpc!NoRet, NoRet
  <1>2. ASSUME NEW k \in Caller, CallWndFull(k) PROVE Rpc!Refuse(k)
    <2>1. Rpc!End(k, "full", 0)
      BY <1>2, RpcReturn DEF CallWndFull
    <2> QED
      BY <1>2, <2>1 DEF CallWndFull, RpcPhase, Rpc!Refuse
  <1>3. ASSUME NEW k \in Caller, CallNewId(k) PROVE Rpc!Request(k)
    <2>1. id[k] = 0 /\ msgId \in Nat /\ msgId + 1 \in MsgId \ (1..msgId)
      BY <1>3, ConstAssumption DEF CallNewId, RequestInv, HasId, HasTp,
         TypeInv,
                  TypeOK, ImplTypeOK, MsgId
    <2>2. PICK next \in {"find", "ack"} : Goto(k, next)
      BY <1>3 DEF CallNewId
    <2>3. rpcCall[k].at = "called"
      BY <1>3, <2>1 DEF CallNewId, rpcCall, RpcPhase
    <2> DEFINE kind == IF next = "ack" THEN "oneway" ELSE "twoway"
    <2>4. rpcCall' = [rpcCall EXCEPT ![k] = [at |-> kind, id |-> msgId + 1]]
      <3>0. msgId + 1 # 0
        BY <2>1
      <3>1. id' = [id EXCEPT ![k] = msgId + 1] /\ pc' = [pc EXCEPT ![k] = next]
        BY <1>3, <2>2 DEF CallNewId, Goto
      <3>2. rpcCall'[k] = [at |-> kind, id |-> msgId + 1]
        BY <3>0, <3>1, <2>2 DEF rpcCall, RpcPhase, TypeInv, TypeOK, CallTypeOK
      <3>3. \A j \in Caller \ {k} : rpcCall'[j] = rpcCall[j]
        BY <3>1 DEF rpcCall, RpcPhase, TypeInv, TypeOK, CallTypeOK
      <3> QED
        BY <3>2, <3>3 DEF rpcCall
    <2>5. 1..msgId' = (1..msgId) \cup {msgId + 1}
      BY <1>3, <2>1 DEF CallNewId
    <2> QED
      BY <1>3, <2>1, <2>3, <2>4, <2>5 DEF CallNewId, rpcCall, Rpc!Request
  <1>4. ASSUME NEW k \in Caller,
               \/ CallGet(k) \/ CallGetNone(k) \/ CallReconnect(k)
               \/ CallNoEstab(k) \/ CallFind(k) \/ CallInsert(k) \/ CallSend(k)
               \/ CallCount(k) \/ CallPop(k) \/ CallUncount(k)
        PROVE  Rpc!NoConnection(k) \/ Rpc!NetError(k) \/ UNCHANGED Rpc!rpcVars
    <2>1. pc[k] \notin {"idle", "ack"} /\ msgId' = msgId
      BY <1>4 DEF CallGet, CallGetNone, CallReconnect, CallNoEstab, CallFind,
                  CallInsert, CallSend, CallCount, CallPop, CallUncount
    <2>2. \/ Return(k, "no_estab", 0)
          \/ Return(k, "net_error", 0)
          \/ /\ \E l \in PC \ {"idle", "ack"} : Goto(k, l)
             /\ id' = id /\ ret' = ret
      BY <1>4 DEF CallGet, CallGetNone, CallReconnect, CallNoEstab, CallFind,
                  CallInsert, CallSend, CallCount, CallPop, CallUncount, PC
    <2>3. rpcCall[k].at \in {"called", "twoway"}
      BY <2>1 DEF rpcCall, RpcPhase
    <2>4. CASE Return(k, "no_estab", 0)
      BY <2>1, <2>3, <2>4, RpcReturn DEF rpcCall, Rpc!NoConnection
    <2>5. CASE Return(k, "net_error", 0)
      BY <2>1, <2>3, <2>5, RpcReturn DEF rpcCall, Rpc!NetError
    <2>6. CASE /\ \E l \in PC \ {"idle", "ack"} : Goto(k, l)
               /\ id' = id /\ ret' = ret
      <3>1. rpcCall' = rpcCall
        BY <2>1, <2>6, RpcQuiet
      <3> QED
        BY <2>1, <2>6, <3>1 DEF rpcCall, Rpc!rpcVars
    <2> QED
      BY <2>2, <2>4, <2>5, <2>6
  <1>5. ASSUME NEW k \in Caller, CallOneWay(k) PROVE Rpc!Sent(k) \/ Rpc!NetError(k)
    <2>1. rpcCall[k].at = "oneway"
      BY <1>5, ConstAssumption DEF CallOneWay, rpcCall, RpcPhase, TypeInv,
                  Locals, HasId, HasTp, MsgId
    <2> QED
      BY <1>5, <2>1, RpcReturn DEF CallOneWay, rpcCall, Rpc!Sent, Rpc!NetError
  <1>6. ASSUME NEW k \in Caller, CallTimeout(k) PROVE Rpc!Timeout(k)
    <2>1. rpcCall[k].at = "twoway"
      BY <1>6, ConstAssumption DEF CallTimeout, rpcCall, RpcPhase, TypeInv,
                  Locals, HasId, HasTp, MsgId
    <2> QED
      BY <1>6, <2>1, RpcReturn DEF CallTimeout, rpcCall, Rpc!Timeout
  <1>7. ASSUME NEW k \in Caller, CallErase(k) PROVE Rpc!NetError(k) \/ Rpc!Reply(k)
    <2>1. rpcCall[k].at = "twoway" /\ rpcCall[k].id = id[k]
      BY <1>7, ConstAssumption DEF CallErase, rpcCall, RpcPhase, TypeInv,
                  Locals, HasId, HasTp, MsgId
    <2>2. msgId' = msgId /\ rsp[k] \in {ErrRsp, id[k]}
      BY <1>7 DEF CallErase, AnswerInv
    <2>3. CASE rsp[k] = ErrRsp
      BY <1>7, <2>1, <2>2, <2>3, RpcReturn DEF CallErase, rpcCall, Rpc!NetError
    <2>4. CASE rsp[k] # ErrRsp
      <3>1. \E code \in {"ok", "parse_error"} : Return(k, code, id[k])
        BY <1>7, <2>2, <2>4 DEF CallErase
      <3>2. rpcCall' = [rpcCall EXCEPT ![k] = Rpc!NoCall]
        BY <3>1 DEF Return, Goto, rpcCall, RpcPhase, TypeInv, TypeOK,
           CallTypeOK,
                    Rpc!NoCall
      <3>3. \E code \in {"ok", "parse_error"} : Rpc!End(k, code, rpcCall[k].id)
        BY <2>1, <2>2, <3>1, <3>2 DEF Return, rpcCall, Rpc!End
      <3>4. Rpc!Reply(k)
        BY <2>1, <3>3 DEF rpcCall, Rpc!Reply
      <3> QED
        BY <3>4
    <2> QED
      BY <2>3, <2>4
  <1>8. ASSUME UNCHANGED callVars, msgId' = msgId PROVE UNCHANGED Rpc!rpcVars
    <2>1. rpcCall' = rpcCall
      BY <1>8 DEF rpcCall, RpcPhase
    <2> QED
      BY <1>8, <2>1 DEF rpcCall, Rpc!rpcVars
  <1>9. ASSUME NEW c \in Conn, \/ Connect(c) \/ Drop(c) \/ Callback(c)
                               \/ \E i \in MsgId : OnResponseFind(c, i)
        PROVE  UNCHANGED callVars /\ msgId' = msgId
    BY <1>9 DEF Callback, Connect, Drop, SessionClose, OnConnectedAdd,
                OnConnectedGroup, OnDisconnectedDel, OnDisconnectedErase,
                OnDisconnectedClose, OnResponseLookup, OnResponsePush,
                OnResponseFind
  <1>10. ASSUME NEW i \in MsgId, SendFailed(i)
         PROVE  UNCHANGED callVars /\ msgId' = msgId
    BY <1>10 DEF SendFailed
  <1>11. CASE UNCHANGED vars
    BY <1>8, <1>11 DEF vars
  <1> QED
    BY <1>1, <1>2, <1>3, <1>4, <1>5, <1>6, <1>7, <1>8, <1>9, <1>10, <1>11
    DEF Next, CallerStep, Rpc!Next, Rpc!Ends

(* ClientImpl keeps what RpcCall promises (RpcSpec), as long as msg_id_    *)
(* fits in the header's callid: each call returns once, with an error or   *)
(* with the reply to its own request, whose id no other request had.       *)
THEOREM ClientIsRpc == IdsFit => (Spec => RpcSpec)
  <1> SUFFICES ASSUME IdsFit PROVE Spec => RpcSpec
    OBVIOUS
  <1> DEFINE Inv == TypeInv /\ RequestInv /\ AnswerInv
  <1>1. Init => Inv
    BY TypeInit DEF Init, RequestInv, AnswerInv, OwnReply, NoRet
  <1>2. Inv /\ [Next]_vars => Inv'
    BY TypeStep, RequestStep, AnswerStep
  <1>3. Init => Rpc!Init
    BY DEF Init, Rpc!Init, Rpc!NoCall, Rpc!NoRet, NoRet, RpcPhase
  <1>4. Inv /\ [Next]_vars => [Rpc!Next]_(Rpc!rpcVars)
    BY RpcStep
  <1> HIDE DEF Inv
  <1> QED
    BY <1>1, <1>2, <1>3, <1>4, PTL DEF Spec, RpcSpec, Rpc!Spec
=============================================================================
