----------------------------- MODULE ClientCall -----------------------------
(***************************************************************************)
(* ucorf::ClientImpl (ucorf/client_impl.{h,cpp}): the life of an RPC on    *)
(* the client.  Coroutines (Caller) run ClientImpl::Call concurrently, on  *)
(* several scheduler threads, while the transports (Conn) run the          *)
(* callbacks OnConnected, OnDisconnected and OnReceiveData/OnResponse.     *)
(*                                                                         *)
(* One action is one access to shared state: a section under channel_mtx_  *)
(* or under a group's mutex, one atomic counter operation, one operation   *)
(* on a response channel, one call into the dispatcher or the transport.   *)
(* What a coroutine does between two of them is local and belongs to the   *)
(* action before.                                                          *)
(*                                                                         *)
(* A RspChanGroup is a number in Grp; the RspChan that a call creates is   *)
(* named by the call's msg_id, as it is created with it and never shared   *)
(* with another call.  The dispatcher is the multiset of transports it     *)
(* holds: which one Get returns is the algorithms' business (see modules   *)
(* RobinDispatcher and ConHash).                                           *)
(***************************************************************************)
EXTENDS Integers, FiniteSets

CONSTANTS
  Caller,      \* coroutines that issue calls
  Conn,        \* transports (ITransportClient objects)
  NoConn,      \* the null transport
  WndSize,     \* Option::request_wnd_size
  HasTimeout,  \* Option::rcv_timeout_ms # 0
  Slots,       \* e_chan_group_count
  IdMod,       \* number of values of UcorfHead::callid (2^32)
  Overlap,     \* may a transport connect again while OnDisconnected runs?
  MaxMsg,      \* bound on msg_id_
  MaxGrp       \* bound on the number of sessions

ASSUME ConstAssumption ==
  /\ NoConn \notin Conn
  /\ WndSize \in Nat
  /\ HasTimeout \in BOOLEAN
  /\ Slots \in Nat \ {0}
  /\ IdMod \in Nat \ {0}
  /\ Overlap \in BOOLEAN
  /\ MaxMsg \in Nat
  /\ MaxGrp \in Nat

MsgId == 1..MaxMsg
Grp   == 1..MaxGrp
Slot  == 0..(Slots - 1)

(* A mistake for CallId: the header is reused and keeps its first id.      *)
StaleCallId(i) == 1

SlotOf(i) == i % Slots       \* msg_id & (e_chan_group_count - 1)
CallId(i) == i % IdMod       \* the id as the header carries it

(* The content of a response channel: empty, an error, or the reply to a   *)
(* request, which is named by the request's msg_id.                        *)
NoRsp  == 0
ErrRsp == -1
Rsp    == {NoRsp, ErrRsp} \cup MsgId

VARIABLES
  pc,          \* where each caller is in Call
  tp, id, grp, \* Call's locals tp, msg_id and chan_grp
  rsp,         \* Call's local rsp
  ret,         \* what the caller's last Call returned
  wndSize, msgId, dispatcher, channels,      \* members of ClientImpl
  lastGrp,     \* number of RspChanGroups created so far
  maps, closed,                              \* members of RspChanGroup
  chan,        \* content of each response channel
  est,         \* ITransportClient::IsEstab()
  up,          \* progress of OnConnected for the current session
  down,        \* progress of OnDisconnected for the last ended session
  dgrp, dslot, \* OnDisconnected's locals chan_grp and i
  rx,          \* progress of OnResponse
  wire,        \* requests sent on the current session and not answered yet
  sndErr       \* requests whose send callback will report an error

callVars == <<pc, tp, id, grp, rsp, ret>>
implVars == <<wndSize, msgId, dispatcher, channels>>
grpVars  == <<lastGrp, maps, closed>>
connVars == <<est, up, down, dgrp, dslot, rx>>
netVars  == <<wire, sndErr>>
vars     == <<callVars, implVars, grpVars, chan, connVars, netVars>>

PC == {"idle", "get", "reconnect", "regain", "estab", "find", "insert",
       "send", "count", "wait", "uncount", "erase", "ack"}
Up   == {"none", "connected", "added", "open"}
Down == {"none", "lost", "deleted", "closing"}
Idle   == [at |-> "idle", rid |-> 0, grp |-> 0]
Codes  == {"none", "ok", "sent", "full", "no_estab", "timeout", "parse_error",
           "net_error"}
NoRet  == [code |-> "none", id |-> 0, rid |-> 0]

Init ==
  /\ pc  = [k \in Caller |-> "idle"]
  /\ tp  = [k \in Caller |-> NoConn]
  /\ id  = [k \in Caller |-> 0]
  /\ grp = [k \in Caller |-> 0]
  /\ rsp = [k \in Caller |-> NoRsp]
  /\ ret = [k \in Caller |-> NoRet]
  /\ wndSize = 0
  /\ msgId = 0
  /\ dispatcher = [c \in Conn |-> 0]
  /\ channels = [c \in Conn |-> 0]
  /\ lastGrp = 0
  /\ maps   = [g \in Grp |-> {}]
  /\ closed = [g \in Grp |-> {}]
  /\ chan = [i \in MsgId |-> NoRsp]
  /\ est  = [c \in Conn |-> FALSE]
  /\ up   = [c \in Conn |-> "none"]
  /\ down = [c \in Conn |-> "none"]
  /\ dgrp  = [c \in Conn |-> 0]
  /\ dslot = [c \in Conn |-> 0]
  /\ rx = [c \in Conn |-> Idle]
  /\ wire = [c \in Conn |-> {}]
  /\ sndErr = {}

-----------------------------------------------------------------------------
(* Helpers *)

Goto(k, l) == pc' = [pc EXCEPT ![k] = l]

(* Call returns: its locals go away.                                       *)
Return(k, code, rid) ==
  /\ Goto(k, "idle")
  /\ tp'  = [tp EXCEPT ![k] = NoConn]
  /\ id'  = [id EXCEPT ![k] = 0]
  /\ grp' = [grp EXCEPT ![k] = 0]
  /\ rsp' = [rsp EXCEPT ![k] = NoRsp]
  /\ ret' = [ret EXCEPT ![k] = [code |-> code, id |-> id[k], rid |-> rid]]

(* The bounds, counting what started operations will still use, so that    *)
(* a bound only keeps calls and sessions from starting.                    *)
RoomForCall ==
  msgId + Cardinality({k \in Caller : pc[k] \in {"get", "reconnect", "regain", "estab"}})
    < MaxMsg
RoomForSession ==
  lastGrp + Cardinality({c \in Conn : up[c] \in {"connected", "added"}}) < MaxGrp

(* co_chan::TryPush on a channel of capacity 1.                            *)
TryPush(i, v) ==
  chan' = IF chan[i] = NoRsp THEN [chan EXCEPT ![i] = v] ELSE chan

-----------------------------------------------------------------------------
(* Mistakes one could make in the actions below; no specification uses     *)
(* them, and each breaks a property stated at the end of the module.       *)

(* ++msg_id_ on a counter that is not atomic may lose the increment.       *)
RacyNewId(k) ==
  /\ pc[k] = "estab"
  /\ est[tp[k]]
  /\ msgId < MaxMsg
  /\ msgId' \in {msgId, msgId + 1}
  /\ id' = [id EXCEPT ![k] = msgId + 1]
  /\ Goto(k, "find")
  /\ UNCHANGED <<tp, grp, rsp, ret, wndSize, dispatcher, channels, grpVars,
                 chan, connVars, netVars>>

(* Call registers without looking at closed.                               *)
InsertUnchecked(k) ==
  /\ pc[k] = "insert"
  /\ maps' = [maps EXCEPT ![grp[k]] = @ \cup {id[k]}]
  /\ Goto(k, "send")
  /\ UNCHANGED <<tp, id, grp, rsp, ret, implVars, lastGrp, closed, chan,
                 connVars, netVars>>

(* Call returns an error before it has left the window.                    *)
PopErrorEarly(k) ==
  /\ pc[k] = "wait"
  /\ chan[id[k]] # NoRsp
  /\ chan' = [chan EXCEPT ![id[k]] = NoRsp]
  /\ IF chan[id[k]] = ErrRsp
     THEN Return(k, "net_error", 0)
     ELSE /\ rsp' = [rsp EXCEPT ![k] = chan[id[k]]]
          /\ Goto(k, "uncount")
          /\ UNCHANGED <<tp, id, grp, ret>>
  /\ UNCHANGED <<implVars, grpVars, connVars, netVars>>

(* Call returns an error before it has erased its entry.                   *)
EraseOnSuccess(k) ==
  /\ pc[k] = "erase"
  /\ IF rsp[k] = ErrRsp
     THEN Return(k, "net_error", 0) /\ UNCHANGED maps
     ELSE /\ maps' = [maps EXCEPT ![grp[k]] = @ \ {id[k]}]
          /\ Return(k, "ok", rsp[k])
  /\ UNCHANGED <<implVars, lastGrp, closed, chan, connVars, netVars>>

(* TimedPop fails and Call waits on.                                       *)
TimeoutRetries(k) ==
  /\ HasTimeout
  /\ pc[k] = "wait"
  /\ chan[id[k]] = NoRsp
  /\ UNCHANGED vars

(* The dispatcher keeps a transport that went down.                        *)
DelNothing(c) ==
  /\ down[c] = "lost"
  /\ down' = [down EXCEPT ![c] = "deleted"]
  /\ UNCHANGED <<callVars, implVars, grpVars, chan, est, up, dgrp, dslot, rx,
                 netVars>>

(* OnDisconnected takes the group out of the table and returns.            *)
EraseOnly(c) ==
  /\ down[c] = "deleted"
  /\ down' = [down EXCEPT ![c] = "none"]
  /\ channels' = [channels EXCEPT ![c] = 0]
  /\ UNCHANGED <<callVars, wndSize, msgId, dispatcher, grpVars, chan, est, up,
                 dgrp, dslot, rx, netVars>>

(* i <= e_chan_group_count in OnDisconnected's loop.                       *)
CloseOneTooMany(c) ==
  LET last == dslot[c] = Slots
  IN /\ down[c] = "closing"
     /\ closed' = [closed EXCEPT ![dgrp[c]] = @ \cup {dslot[c]}]
     /\ dslot' = [dslot EXCEPT ![c] = IF last THEN 0 ELSE @ + 1]
     /\ dgrp'  = [dgrp EXCEPT ![c] = IF last THEN 0 ELSE @]
     /\ down'  = [down EXCEPT ![c] = IF last THEN "none" ELSE @]
     /\ UNCHANGED <<callVars, implVars, lastGrp, maps, chan, est, up, rx, netVars>>

-----------------------------------------------------------------------------
(* ClientImpl::Call *)

(* The window check at the top of Call.                                    *)
CallStart(k) ==
  /\ pc[k] = "idle"
  /\ RoomForCall
  /\ wndSize <= WndSize
  /\ Goto(k, "get")
  /\ ret' = [ret EXCEPT ![k] = NoRet]
  /\ UNCHANGED <<tp, id, grp, rsp, implVars, grpVars, chan, connVars, netVars>>

CallWndFull(k) ==
  /\ pc[k] = "idle"
  /\ wndSize > WndSize
  /\ Return(k, "full", 0)
  /\ UNCHANGED <<implVars, grpVars, chan, connVars, netVars>>

(* dispatcher_->Get returns some transport it holds, or null if there is   *)
(* none; the second Get, after a reconnect, gives up on null.              *)
CallGet(k) ==
  /\ pc[k] \in {"get", "regain"}
  /\ \E c \in Conn : /\ dispatcher[c] > 0
                     /\ tp' = [tp EXCEPT ![k] = c]
  /\ Goto(k, "estab")
  /\ UNCHANGED <<id, grp, rsp, ret, implVars, grpVars, chan, connVars, netVars>>

CallGetNone(k) ==
  /\ \A c \in Conn : dispatcher[c] = 0
  /\ \/ pc[k] = "get" /\ Goto(k, "reconnect") /\ UNCHANGED <<tp, id, grp, rsp, ret>>
     \/ pc[k] = "regain" /\ Return(k, "no_estab", 0)
  /\ UNCHANGED <<implVars, grpVars, chan, connVars, netVars>>

(* ITransportClient::Connect succeeds.                                     *)
Established(c) ==
  /\ ~est[c]
  /\ up[c] = "none"
  /\ Overlap \/ down[c] = "none"
  /\ RoomForSession
  /\ est' = [est EXCEPT ![c] = TRUE]
  /\ up'  = [up EXCEPT ![c] = "connected"]

(* The ReConnect loop over the finders: every finder fails (a zk finder    *)
(* always does), or one finds its transport established or connects it.    *)
CallReconnect(k) ==
  /\ pc[k] = "reconnect"
  /\ \/ /\ Return(k, "net_error", 0)
        /\ UNCHANGED connVars
     \/ /\ \E c \in Conn : est[c]
        /\ Goto(k, "regain")
        /\ UNCHANGED <<tp, id, grp, rsp, ret, connVars>>
     \/ /\ \E c \in Conn : Established(c)
        /\ Goto(k, "regain")
        /\ UNCHANGED <<tp, id, grp, rsp, ret, down, dgrp, dslot, rx>>
  /\ UNCHANGED <<implVars, grpVars, chan, netVars>>

(* The IsEstab check, the new msg_id, and for a one-way request            *)
(* (response = NULL) the send, whose callback Call then waits for.         *)
CallNoEstab(k) ==
  /\ pc[k] = "estab"
  /\ ~est[tp[k]]
  /\ Return(k, "no_estab", 0)
  /\ UNCHANGED <<implVars, grpVars, chan, connVars, netVars>>

CallNewId(k) ==
  /\ pc[k] = "estab"
  /\ est[tp[k]]
  /\ msgId < MaxMsg
  /\ msgId' = msgId + 1
  /\ id' = [id EXCEPT ![k] = msgId + 1]
  /\ \E next \in {"find", "ack"} : Goto(k, next)
  /\ UNCHANGED <<tp, grp, rsp, ret, wndSize, dispatcher, channels, grpVars,
                 chan, connVars, netVars>>

(* A one-way call returns what its send callback was given.                *)
CallOneWay(k) ==
  /\ pc[k] = "ack"
  /\ \/ Return(k, "sent", 0)
     \/ Return(k, "net_error", 0)
  /\ UNCHANGED <<implVars, grpVars, chan, connVars, netVars>>

(* channels_.find(tp) under channel_mtx_.                                  *)
CallFind(k) ==
  /\ pc[k] = "find"
  /\ IF channels[tp[k]] = 0
     THEN Return(k, "no_estab", 0)
     ELSE /\ grp' = [grp EXCEPT ![k] = channels[tp[k]]]
          /\ Goto(k, "insert")
          /\ UNCHANGED <<tp, id, rsp, ret>>
  /\ UNCHANGED <<implVars, grpVars, chan, connVars, netVars>>

(* Under the group's mutex: give up on a closed slot, else register.       *)
CallInsert(k) ==
  /\ pc[k] = "insert"
  /\ IF SlotOf(id[k]) \in closed[grp[k]]
     THEN Return(k, "no_estab", 0) /\ UNCHANGED maps
     ELSE /\ maps' = [maps EXCEPT ![grp[k]] = @ \cup {id[k]}]
          /\ Goto(k, "send")
          /\ UNCHANGED <<tp, id, grp, rsp, ret>>
  /\ UNCHANGED <<implVars, lastGrp, closed, chan, connVars, netVars>>

(* tp->Send: the request goes out on the transport's current session, or   *)
(* the send callback will report an error.                                 *)
CallSend(k) ==
  /\ pc[k] = "send"
  /\ \/ /\ est[tp[k]]
        /\ wire' = [wire EXCEPT ![tp[k]] = @ \cup {id[k]}]
        /\ UNCHANGED sndErr
     \/ /\ sndErr' = sndErr \cup {id[k]}
        /\ UNCHANGED wire
  /\ Goto(k, "count")
  /\ UNCHANGED <<tp, id, grp, rsp, ret, implVars, grpVars, chan, connVars>>

CallCount(k) ==
  /\ pc[k] = "count"
  /\ wndSize' = wndSize + 1
  /\ Goto(k, "wait")
  /\ UNCHANGED <<tp, id, grp, rsp, ret, msgId, dispatcher, channels, grpVars,
                 chan, connVars, netVars>>

(* chan >> rsp, or the TimedPop that succeeds.                             *)
CallPop(k) ==
  /\ pc[k] = "wait"
  /\ chan[id[k]] # NoRsp
  /\ rsp'  = [rsp EXCEPT ![k] = chan[id[k]]]
  /\ chan' = [chan EXCEPT ![id[k]] = NoRsp]
  /\ Goto(k, "uncount")
  /\ UNCHANGED <<tp, id, grp, ret, implVars, grpVars, connVars, netVars>>

(* TimedPop fails: Call returns at once, without --wnd_size_ and without   *)
(* taking its entry out of the map.                                        *)
CallTimeout(k) ==
  /\ HasTimeout
  /\ pc[k] = "wait"
  /\ chan[id[k]] = NoRsp
  /\ Return(k, "timeout", 0)
  /\ UNCHANGED <<implVars, grpVars, chan, connVars, netVars>>

CallUncount(k) ==
  /\ pc[k] = "uncount"
  /\ wndSize' = wndSize - 1
  /\ Goto(k, "erase")
  /\ UNCHANGED <<tp, id, grp, rsp, ret, msgId, dispatcher, channels, grpVars,
                 chan, connVars, netVars>>

(* The entry is erased, and Call returns the error, or the reply if it     *)
(* parses.                                                                 *)
CallErase(k) ==
  /\ pc[k] = "erase"
  /\ maps' = [maps EXCEPT ![grp[k]] = @ \ {id[k]}]
  /\ IF rsp[k] = ErrRsp
     THEN Return(k, "net_error", 0)
     ELSE \E code \in {"ok", "parse_error"} : Return(k, code, rsp[k])
  /\ UNCHANGED <<implVars, lastGrp, closed, chan, connVars, netVars>>

-----------------------------------------------------------------------------
(* The transport: external, modelled from how client_impl.cpp and          *)
(* server_finder.cpp use ITransportClient.  A session runs its connected   *)
(* callback, then receives, and after it went down and its last receive    *)
(* callback returned runs its disconnected callback.                       *)

Connect(c) ==
  /\ Established(c)
  /\ UNCHANGED <<callVars, implVars, grpVars, chan, down, dgrp, dslot, rx, netVars>>

(* The session goes down: peer, network or Shutdown().                     *)
Drop(c) ==
  /\ est[c]
  /\ est' = [est EXCEPT ![c] = FALSE]
  /\ UNCHANGED <<callVars, implVars, grpVars, chan, up, down, dgrp, dslot, rx, netVars>>

SessionClose(c) ==
  /\ ~est[c]
  /\ up[c] = "open"
  /\ rx[c] = Idle
  /\ down[c] = "none"
  /\ up'   = [up EXCEPT ![c] = "none"]
  /\ down' = [down EXCEPT ![c] = "lost"]
  /\ wire' = [wire EXCEPT ![c] = {}]
  /\ UNCHANGED <<callVars, implVars, grpVars, chan, est, dgrp, dslot, rx, sndErr>>

(* The callback that Call gave to Send reports an error.                   *)
SendFailed(i) ==
  /\ i \in sndErr
  /\ sndErr' = sndErr \ {i}
  /\ TryPush(i, ErrRsp)
  /\ UNCHANGED <<callVars, implVars, grpVars, connVars, wire>>

-----------------------------------------------------------------------------
(* ClientImpl::OnConnected *)

OnConnectedAdd(c) ==
  /\ up[c] = "connected"
  /\ dispatcher' = [dispatcher EXCEPT ![c] = @ + 1]
  /\ up' = [up EXCEPT ![c] = "added"]
  /\ UNCHANGED <<callVars, wndSize, msgId, channels, grpVars, chan, est, down,
                 dgrp, dslot, rx, netVars>>

OnConnectedGroup(c) ==
  /\ up[c] = "added"
  /\ lastGrp < MaxGrp
  /\ lastGrp' = lastGrp + 1
  /\ channels' = [channels EXCEPT ![c] = lastGrp + 1]
  /\ up' = [up EXCEPT ![c] = "open"]
  /\ UNCHANGED <<callVars, wndSize, msgId, dispatcher, maps, closed, chan, est,
                 down, dgrp, dslot, rx, netVars>>

-----------------------------------------------------------------------------
(* ClientImpl::OnDisconnected *)

OnDisconnectedDel(c) ==
  /\ down[c] = "lost"
  /\ dispatcher' = [dispatcher EXCEPT ![c] = IF @ > 0 THEN @ - 1 ELSE @]
  /\ down' = [down EXCEPT ![c] = "deleted"]
  /\ UNCHANGED <<callVars, wndSize, msgId, channels, grpVars, chan, est, up,
                 dgrp, dslot, rx, netVars>>

(* Under channel_mtx_: return if the transport has no group, else take it  *)
(* out of the table.                                                       *)
OnDisconnectedErase(c) ==
  /\ down[c] = "deleted"
  /\ down' = [down EXCEPT ![c] = IF channels[c] = 0 THEN "none" ELSE "closing"]
  /\ dgrp' = [dgrp EXCEPT ![c] = channels[c]]
  /\ channels' = [channels EXCEPT ![c] = 0]
  /\ UNCHANGED <<callVars, wndSize, msgId, dispatcher, grpVars, chan, est, up,
                 dslot, rx, netVars>>

(* One turn of the loop over the slots, under the slot's mutex.            *)
OnDisconnectedClose(c) ==
  LET g == dgrp[c]
      s == dslot[c]
      last == s = Slots - 1
  IN /\ down[c] = "closing"
     /\ closed' = [closed EXCEPT ![g] = @ \cup {s}]
     /\ chan' = [i \in MsgId |->
                   IF i \in maps[g] /\ SlotOf(i) = s /\ chan[i] = NoRsp
                   THEN ErrRsp ELSE chan[i]]
     /\ dslot' = [dslot EXCEPT ![c] = IF last THEN 0 ELSE s + 1]
     /\ dgrp'  = [dgrp EXCEPT ![c] = IF last THEN 0 ELSE g]
     /\ down'  = [down EXCEPT ![c] = IF last THEN "none" ELSE "closing"]
     /\ UNCHANGED <<callVars, implVars, lastGrp, maps, est, up, rx, netVars>>

-----------------------------------------------------------------------------
(* ClientImpl::OnReceiveData and OnResponse: the reply to request i comes  *)
(* in on c.  A reply is discarded when the transport has no group, or the  *)
(* group no entry for the id in the header.                                *)

OnResponseFind(c, i) ==
  /\ up[c] = "open"
  /\ rx[c] = Idle
  /\ i \in wire[c]
  /\ wire' = [wire EXCEPT ![c] = @ \ {i}]
  /\ rx' = [rx EXCEPT ![c] = IF channels[c] = 0 THEN Idle
                             ELSE [at |-> "lookup", rid |-> i, grp |-> channels[c]]]
  /\ UNCHANGED <<callVars, implVars, grpVars, chan, est, up, down, dgrp, dslot, sndErr>>

OnResponseLookup(c) ==
  /\ rx[c].at = "lookup"
  /\ rx' = [rx EXCEPT ![c] = IF CallId(rx[c].rid) \in maps[rx[c].grp]
                             THEN [@ EXCEPT !.at = "push"] ELSE Idle]
  /\ UNCHANGED <<callVars, implVars, grpVars, chan, est, up, down, dgrp, dslot, netVars>>

OnResponsePush(c) ==
  /\ rx[c].at = "push"
  /\ TryPush(CallId(rx[c].rid), rx[c].rid)
  /\ rx' = [rx EXCEPT ![c] = Idle]
  /\ UNCHANGED <<callVars, implVars, grpVars, est, up, down, dgrp, dslot, netVars>>

-----------------------------------------------------------------------------
(* Every step a caller takes by itself once it has started a call.         *)
CallerStep(k) ==
  \/ CallGet(k) \/ CallGetNone(k) \/ CallReconnect(k) \/ CallNoEstab(k)
  \/ CallNewId(k) \/ CallOneWay(k) \/ CallFind(k) \/ CallInsert(k) \/ CallSend(k)
  \/ CallCount(k) \/ CallPop(k) \/ CallUncount(k) \/ CallErase(k)

(* The callbacks the transport's coroutines run.                           *)
Callback(c) ==
  \/ OnConnectedAdd(c) \/ OnConnectedGroup(c) \/ SessionClose(c)
  \/ OnDisconnectedDel(c) \/ OnDisconnectedErase(c) \/ OnDisconnectedClose(c)
  \/ OnResponseLookup(c) \/ OnResponsePush(c)

Next ==
  \/ \E k \in Caller : \/ CallStart(k) \/ CallWndFull(k) \/ CallTimeout(k)
                       \/ CallerStep(k)
  \/ \E c \in Conn : \/ Connect(c) \/ Drop(c) \/ Callback(c)
                     \/ \E i \in MsgId : OnResponseFind(c, i)
  \/ \E i \in MsgId : SendFailed(i)

Spec == Init /\ [][Next]_vars

(* The scheduler runs every coroutine that can go on, and the transport    *)
(* runs every callback it owes.  Nothing makes callers start calls,        *)
(* sessions come up or go down, or servers answer.  A timer that was set   *)
(* may fire; only EveryCallReturns assumes that it does.                   *)
Fairness ==
  /\ \A k \in Caller : WF_vars(CallerStep(k))
  /\ \A c \in Conn : WF_vars(Callback(c))
  /\ \A i \in MsgId : WF_vars(SendFailed(i))

FairSpec == Spec /\ Fairness

-----------------------------------------------------------------------------
(* Properties *)

CallTypeOK ==
  /\ pc  \in [Caller -> PC]
  /\ tp  \in [Caller -> Conn \cup {NoConn}]
  /\ id  \in [Caller -> MsgId \cup {0}]
  /\ grp \in [Caller -> Grp \cup {0}]
  /\ rsp \in [Caller -> Rsp]
  /\ ret \in [Caller -> [code : Codes, id : MsgId \cup {0}, rid : Rsp]]

ImplTypeOK ==
  /\ wndSize \in Int
  /\ msgId \in 0..MaxMsg
  /\ dispatcher \in [Conn -> Nat]
  /\ channels \in [Conn -> Grp \cup {0}]
  /\ lastGrp \in 0..MaxGrp
  /\ maps   \in [Grp -> SUBSET MsgId]
  /\ closed \in [Grp -> SUBSET Slot]
  /\ chan \in [MsgId -> Rsp]

ConnTypeOK ==
  /\ est  \in [Conn -> BOOLEAN]
  /\ up   \in [Conn -> Up]
  /\ down \in [Conn -> Down]
  /\ dgrp  \in [Conn -> Grp \cup {0}]
  /\ dslot \in [Conn -> Slot]
  /\ rx \in [Conn -> [at : {"idle", "lookup", "push"}, rid : MsgId \cup {0},
                     grp : Grp \cup {0}]]
  /\ wire \in [Conn -> SUBSET MsgId]
  /\ sndErr \subseteq MsgId

TypeOK == CallTypeOK /\ ImplTypeOK /\ ConnTypeOK

(* Caller k has registered request i and has been given nothing yet.       *)
Awaits(k, i) ==
  pc[k] \in {"send", "count", "wait"} /\ id[k] = i /\ chan[i] = NoRsp

(* A call that succeeds returns the reply to its own request, whatever     *)
(* timeouts, late replies, reconnects and concurrent calls did meanwhile   *)
(* (client_impl.cpp, OnResponse's lookup by msg_id).                       *)
OwnReply == \A k \in Caller : ret[k].code = "ok" => ret[k].rid = ret[k].id

(* OnDisconnected closes each slot and answers the calls in it under the   *)
(* slot's mutex, and Call registers under the same mutex only in an open   *)
(* slot: a call registered in a closed slot has its answer.                *)
ClosedMeansAnswered ==
  \A k \in Caller : Awaits(k, id[k]) => SlotOf(id[k]) \notin closed[grp[k]]

(* Every entry of a RspChanGroup belongs to a call in progress: an entry   *)
(* of a call that returned is a leak, and a late reply to it is not        *)
(* discarded (client_impl.cpp, the erase at the end of Call).              *)
NoDeadEntries ==
  \A g \in Grp : \A i \in maps[g] :
    \E k \in Caller : id[k] = i /\ grp[k] = g

(* wnd_size_ counts the calls between their send and their response, so    *)
(* no path through Call, of those without timeout, leaks a place in the    *)
(* request window.                                                         *)
WndAccounting ==
  wndSize = Cardinality({k \in Caller : pc[k] \in {"wait", "uncount"}})

(* The dispatcher, the table of groups and the transport agree when no     *)
(* callback is running: a transport that is up is offered once and has a   *)
(* group that no slot of was closed, one that is down is not offered and   *)
(* has no group.                                                           *)
DispatcherAgrees ==
  \A c \in Conn : down[c] = "none" =>
    /\ up[c] = "open" => /\ dispatcher[c] = 1
                         /\ channels[c] # 0
                         /\ closed[channels[c]] = {}
    /\ up[c] = "none" => dispatcher[c] = 0 /\ channels[c] = 0

(* A group that callers may still be registered in is either the one its   *)
(* transport's next OnDisconnected will close or one that an OnDisconnected*)
(* is closing: what makes a call without timeout return when its           *)
(* connection is lost.                                                     *)
NoOrphanGroup ==
  \A k \in Caller : Awaits(k, id[k]) =>
    \E c \in Conn : \/ channels[c] = grp[k]
                    \/ /\ down[c] = "closing"
                       /\ dgrp[c] = grp[k]
                       /\ dslot[c] <= SlotOf(id[k])

(* OnResponse discards a reply ("because connection was disconnected",     *)
(* "because stub was timeout") only if the caller that made the request    *)
(* no longer waits for it.                                                 *)
Discards(c, i) ==
  \/ rx[c].at = "lookup" /\ rx[c].rid = i /\ rx'[c] = Idle
  \/ rx[c] = Idle /\ i \in wire[c] \ wire'[c] /\ rx'[c] = Idle /\ up'[c] = "open"
DiscardHarmless ==
  [][\A c \in Conn : \A i \in MsgId :
       Discards(c, i) => ~\E k \in Caller : Awaits(k, i)]_vars

(* A call is refused with "request window was full" (error.cpp) only while *)
(* more than WndSize requests are in flight.                               *)
FullMeansFull ==
  [][\A k \in Caller :
       (ret[k].code # "full" /\ ret'[k].code = "full") =>
         Cardinality({j \in Caller : pc[j] \in {"wait", "uncount"}}) > WndSize]_vars

(* ClientImpl keeps what RpcCall promises.                                 *)
RpcPhase(k) ==
  IF pc[k] = "idle" THEN "idle"
  ELSE IF id[k] = 0 THEN "called"
  ELSE IF pc[k] = "ack" THEN "oneway" ELSE "twoway"

Rpc == INSTANCE RpcCall WITH
         Id   <- MsgId,
         call <- [k \in Caller |-> [at |-> RpcPhase(k), id |-> id[k]]],
         used <- 1..msgId

RpcSpec == Rpc!Spec

(* A caller whose connection is lost is woken by OnDisconnected, or was    *)
(* answered before, even if it has no timer or the timer does not fire: as *)
(* long as no session of the transport comes up while OnDisconnected of the*)
(* one before still runs.                                                  *)
Overlapping(c) == est[c] /\ down[c] # "none"

LostCallReturns ==
  \A c \in Conn :
    []~Overlapping(c) =>
      \A k \in Caller : (pc[k] = "wait" /\ tp[k] = c /\ ~est[c]) ~> pc[k] # "wait"

(* With a receive timeout that fires every call returns, whatever the      *)
(* sessions and the server do.                                             *)
EveryCallReturns ==
  (\A k \in Caller : WF_vars(CallTimeout(k)))
    => \A k \in Caller : pc[k] # "idle" ~> pc[k] = "idle"
=============================================================================
