---------------------------- MODULE ServerFinder ----------------------------
(***************************************************************************)
(* ucorf::ServerFinder (ucorf/server_finder.{h,cpp}): it connects the one  *)
(* transport of a fixed address, or one transport per node that zookeeper  *)
(* lists, reconnects those whose session ended, and tells the    *)
(* client of sessions that come up and end.                                *)
(*                                                                         *)
(* OnZookeeperChilds, OnDisconnected and RecursiveConnect try to lock      *)
(* destroy_mutex_ and give up if it is taken; they hold it from their first*)
(* step to their last.  With one scheduler thread (~Parallel) nothing runs *)
(* in between, as none of them blocks: the mutex is then never found taken.*)
(*                                                                         *)
(* RecursiveConnect coroutines of a transport are all alike and counted.   *)
(* transports_ and single_tp_ are one map here.  Connect, Shutdown and the *)
(* session are external, as in ClientCall; on_connect_ and on_disconnect_  *)
(* are what the client counts in told (see SessionEvents).                 *)
(***************************************************************************)
EXTENDS Integers, FiniteSets

CONSTANTS
  Url,         \* addresses
  NoUrl,       \* the address of a transport not created yet
  Tp,          \* transports
  NoTp,        \* no transport
  Parallel,    \* do several threads run coroutines?
  MaxSessions  \* bound on the number of sessions

ASSUME FinderAssumption ==
  /\ NoUrl \notin Url
  /\ NoTp \notin Tp
  /\ Parallel \in BOOLEAN
  /\ MaxSessions \in Nat

VARIABLES
  alive,     \* *token_
  mode,      \* mode_, which Init sets
  transports,\* transports_, or single_tp_ under its address
  urlOf,     \* the url that each transport's callbacks were bound to
  first,     \* is Init's ReConnect coroutine still to run?
  est,       \* IsEstab()
  loops,     \* RecursiveConnect coroutines by where they are
  ended,     \* calls of OnDisconnected that are still to come
  telling,   \* the transport whose OnDisconnected holds the mutex, or NoTp
  childs,    \* does OnZookeeperChilds hold the mutex?
  missed,    \* its local tp_group: transports still to shut down
  told,      \* on_connect_ less on_disconnect_ calls
  ever,      \* history: transports that ever had a session
  sessions   \* number of sessions so far

sessionVars == <<est, told, ever, sessions>>
downVars    == <<ended, telling>>
childVars   == <<transports, urlOf, childs, missed>>
vars == <<alive, mode, first, loops, sessionVars, downVars, childVars>>

NoLoops == [connect |-> 0, sleep |-> 0, check |-> 0]

Init ==
  /\ alive = TRUE
  /\ \/ /\ mode = "zk"
        /\ transports = [u \in Url |-> NoTp]
        /\ urlOf = [t \in Tp |-> NoUrl]
     \/ /\ mode = "single"
        /\ \E url \in Url, tp \in Tp :
             /\ transports = [u \in Url |-> IF u = url THEN tp ELSE NoTp]
             /\ urlOf = [t \in Tp |-> IF t = tp THEN url ELSE NoUrl]
  /\ first = (mode = "single")
  /\ est = [t \in Tp |-> FALSE]
  /\ loops = [t \in Tp |-> NoLoops]
  /\ ended = [t \in Tp |-> 0]
  /\ telling = NoTp
  /\ childs = FALSE
  /\ missed = {}
  /\ told = [t \in Tp |-> 0]
  /\ ever = {}
  /\ sessions = 0

-----------------------------------------------------------------------------
(* destroy_mutex_ is taken.                                                *)
Locked ==
  \/ childs
  \/ telling # NoTp
  \/ \E t \in Tp : loops[t].check > 0

(* With one thread, a coroutine gets its turn when no handler is at work.  *)
Turn == Parallel \/ ~Locked

(* mode_ == eMode::single || transports_.count(url)                        *)
Wanted(t) == mode = "single" \/ transports[urlOf[t]] # NoTp

(* One coroutine of t goes from one place to another; "none" is outside.   *)
Move(t, from, to) ==
  loops' = [loops EXCEPT ![t] =
              [at \in DOMAIN NoLoops |->
                 loops[t][at] + (IF at = to THEN 1 ELSE 0)
                              - (IF at = from THEN 1 ELSE 0)]]

(* A session comes up, and on_connect_ is called: through a finder that is *)
(* gone, if it was destroyed, which may do anything to the client's count. *)
Established(t) ==
  /\ ~est[t]
  /\ sessions < MaxSessions
  /\ est' = [est EXCEPT ![t] = TRUE]
  /\ \/ told' = [told EXCEPT ![t] = @ + 1]
     \/ ~alive /\ UNCHANGED told
  /\ ever' = ever \cup {t}
  /\ sessions' = sessions + 1

-----------------------------------------------------------------------------
(* Mistakes for the actions below; no specification uses them.             *)

(* RecursiveConnect tries twice at most.                                   *)
LoopCheckOnce(t) ==
  /\ loops[t].check > 0
  /\ Move(t, "check", "none")
  /\ UNCHANGED <<alive, mode, first, sessionVars, downVars, childVars>>

(* RecursiveConnect goes on after it has connected.                        *)
LoopConnectStays(t) ==
  /\ Turn
  /\ loops[t].connect > 0
  /\ Established(t) \/ UNCHANGED sessionVars
  /\ Move(t, "connect", "sleep")
  /\ UNCHANGED <<alive, mode, first, downVars, childVars>>

(* RecursiveConnect goes on without the mutex.                             *)
LoopWakeUnlocked(t) ==
  /\ Turn
  /\ loops[t].sleep > 0
  /\ Move(t, "sleep", IF est[t] THEN "none" ELSE "check")
  /\ UNCHANGED <<alive, mode, first, sessionVars, downVars, childVars>>

(* The client does not hear of the end if the transport is up again.       *)
TellIfDown(t) ==
  /\ telling = t
  /\ telling' = NoTp
  /\ told' = [told EXCEPT ![t] = IF est[t] THEN @ ELSE @ - 1]
  /\ UNCHANGED <<alive, mode, first, loops, est, ever, sessions, ended, childVars>>

(* OnDisconnected does not look at the token.                              *)
OnDisconnectedNoToken(t) ==
  /\ ended[t] > 0
  /\ ~Locked
  /\ ended' = [ended EXCEPT ![t] = @ - 1]
  /\ telling' = t
  /\ IF Wanted(t) THEN Move(t, "none", "connect") ELSE UNCHANGED loops
  /\ UNCHANGED <<alive, mode, first, sessionVars, childVars>>

-----------------------------------------------------------------------------
(* ReConnect: Init's coroutine, and ClientImpl::Call when the dispatcher   *)
(* has no transport.  It tries once.                                       *)

FirstConnect(t) ==
  /\ Turn
  /\ first /\ urlOf[t] # NoUrl
  /\ first' = FALSE
  /\ \/ Established(t)
     \/ UNCHANGED sessionVars
  /\ UNCHANGED <<alive, mode, loops, downVars, childVars>>

ReConnect(t) ==
  /\ Turn
  /\ mode = "single" /\ urlOf[t] # NoUrl
  /\ alive
  /\ \A u \in Tp : told[u] = 0
  /\ Established(t)
  /\ UNCHANGED <<alive, mode, first, loops, downVars, childVars>>

-----------------------------------------------------------------------------
(* RecursiveConnect *)

LoopConnect(t) ==
  /\ Turn
  /\ loops[t].connect > 0
  /\ \/ Established(t) /\ Move(t, "connect", "none")
     \/ UNCHANGED sessionVars /\ Move(t, "connect", "sleep")
  /\ UNCHANGED <<alive, mode, first, downVars, childVars>>

(* After the sleep: IsEstab, then try_lock.                                *)
LoopWake(t) ==
  /\ Turn
  /\ loops[t].sleep > 0
  /\ Move(t, "sleep", IF est[t] \/ Locked THEN "none" ELSE "check")
  /\ UNCHANGED <<alive, mode, first, sessionVars, downVars, childVars>>

(* With the mutex: the token, then whether the node is still listed.       *)
LoopCheck(t) ==
  /\ loops[t].check > 0
  /\ Move(t, "check", IF alive /\ Wanted(t) THEN "connect" ELSE "none")
  /\ UNCHANGED <<alive, mode, first, sessionVars, downVars, childVars>>

-----------------------------------------------------------------------------
(* The session ends, by itself or by Shutdown: OnDisconnected is due.      *)

SessionEnds(t) ==
  /\ est[t]
  /\ est' = [est EXCEPT ![t] = FALSE]
  /\ ended' = [ended EXCEPT ![t] = @ + 1]

Drop(t) ==
  /\ SessionEnds(t)
  /\ UNCHANGED <<alive, mode, first, loops, told, ever, sessions, telling, childVars>>

(* OnDisconnected, which gives up if the mutex is taken or the finder gone.*)
OnDisconnectedDropped(t) ==
  /\ Turn
  /\ ended[t] > 0
  /\ Locked \/ ~alive
  /\ ended' = [ended EXCEPT ![t] = @ - 1]
  /\ UNCHANGED <<alive, mode, first, loops, sessionVars, telling, childVars>>

OnDisconnected(t) ==
  /\ ended[t] > 0
  /\ ~Locked
  /\ alive
  /\ ended' = [ended EXCEPT ![t] = @ - 1]
  /\ telling' = t
  /\ IF Wanted(t) THEN Move(t, "none", "connect") ELSE UNCHANGED loops
  /\ UNCHANGED <<alive, mode, first, sessionVars, childVars>>

(* on_disconnect_, and the end of OnDisconnected.                          *)
TellClient(t) ==
  /\ telling = t
  /\ telling' = NoTp
  /\ told' = [told EXCEPT ![t] = @ - 1]
  /\ UNCHANGED <<alive, mode, first, loops, est, ever, sessions, ended, childVars>>

-----------------------------------------------------------------------------
(* OnZookeeperChilds with the nodes S.  If it cannot lock, or the finder is*)
(* gone, it does nothing.                                                  *)

Listed == {u \in Url : transports[u] # NoTp}
Unused == {t \in Tp : urlOf[t] = NoUrl}

OnZookeeperChilds(S) ==
  /\ mode = "zk"
  /\ ~Locked
  /\ alive
  /\ \E new \in [S \ Listed -> Unused] :
       /\ \A u, v \in DOMAIN new : u # v => new[u] # new[v]
       /\ transports' = [u \in Url |-> IF u \notin S THEN NoTp
                                       ELSE IF u \in Listed THEN transports[u] ELSE new[u]]
       /\ urlOf' = [t \in Tp |-> IF \E u \in DOMAIN new : new[u] = t
                                 THEN CHOOSE u \in DOMAIN new : new[u] = t
                                 ELSE urlOf[t]]
       /\ loops' = [t \in Tp |-> IF \E u \in DOMAIN new : new[u] = t
                                 THEN [NoLoops EXCEPT !.connect = 1] ELSE loops[t]]
  /\ missed' = {transports[u] : u \in Listed \ S}
  /\ childs' = TRUE
  /\ UNCHANGED <<alive, mode, first, sessionVars, downVars>>

(* One turn of the loop over the transports that are no longer listed.     *)
ShutdownMissed(t) ==
  /\ t \in missed
  /\ missed' = missed \ {t}
  /\ \/ SessionEnds(t)
     \/ ~est[t] /\ UNCHANGED <<est, ended>>
  /\ UNCHANGED <<alive, mode, first, loops, told, ever, sessions, telling,
                 transports, urlOf, childs>>

ChildsEnd ==
  /\ childs
  /\ missed = {}
  /\ childs' = FALSE
  /\ UNCHANGED <<alive, mode, first, loops, sessionVars, downVars, transports,
                 urlOf, missed>>

-----------------------------------------------------------------------------
(* ~ServerFinder waits for the mutex.  Unwatch is never called, as nothing *)
(* sets zk_addr_: OnZookeeperChilds may still be called, and returns.      *)
Destroy ==
  /\ alive
  /\ ~Locked
  /\ alive' = FALSE
  /\ transports' = [u \in Url |-> NoTp]
  /\ UNCHANGED <<mode, first, loops, sessionVars, downVars, urlOf, childs, missed>>

Next ==
  \/ \E t \in Tp : \/ FirstConnect(t) \/ ReConnect(t)
                   \/ LoopConnect(t) \/ LoopWake(t) \/ LoopCheck(t)
                   \/ Drop(t) \/ OnDisconnectedDropped(t) \/ OnDisconnected(t)
                   \/ TellClient(t) \/ ShutdownMissed(t)
  \/ \E S \in SUBSET Url : OnZookeeperChilds(S)
  \/ ChildsEnd
  \/ Destroy

Spec == Init /\ [][Next]_vars

-----------------------------------------------------------------------------
(* Properties *)

(* The types; the mutex has one holder at a time, and none once the finder *)
(* is gone.                                                                *)
Checkers == {t \in Tp : loops[t].check > 0}
TypeOK ==
  /\ mode \in {"zk", "single"}
  /\ alive \in BOOLEAN /\ first \in BOOLEAN /\ childs \in BOOLEAN
  /\ transports \in [Url -> Tp \cup {NoTp}]
  /\ urlOf \in [Tp -> Url \cup {NoUrl}]
  /\ est \in [Tp -> BOOLEAN]
  /\ loops \in [Tp -> [DOMAIN NoLoops -> Nat]]
  /\ \A t \in Checkers : loops[t].check = 1
  /\ ended \in [Tp -> Nat]
  /\ told \in [Tp -> Nat]
  /\ ever \subseteq Tp /\ missed \subseteq Tp
  /\ sessions \in 0..MaxSessions
  /\ telling \in Tp \cup {NoTp}
  /\ Cardinality(Checkers) + (IF childs THEN 1 ELSE 0)
       + (IF telling = NoTp THEN 0 ELSE 1) <= 1

Owned(t) == \E u \in Url : transports[u] = t

Loops(t) == loops[t].connect + loops[t].sleep + loops[t].check
Efforts(t) == Loops(t) + ended[t] + IF est[t] THEN 1 ELSE 0

(* A transport that should be connected is, or something is under way that *)
(* will try again: a RecursiveConnect or an OnDisconnected that starts one.*)
(* In single mode the loop starts with the end of the first session.       *)
KeepsTrying ==
  alive => \A t \in Tp : Owned(t) /\ (mode = "single" => t \in ever) => Efforts(t) > 0

(* The session of a listed node and the coroutines that try to connect it  *)
(* do not pile up over reconnects and changes of the list: there is one at *)
(* a time (server_finder.cpp, RecursiveConnect and OnDisconnected).        *)
OneEffort == mode = "zk" => \A t \in Tp : Efforts(t) <= 1

(* The token: once ~ServerFinder ran, no OnDisconnected reaches the client,*)
(* no RecursiveConnect tries again, and the transports are left alone.     *)
NothingAfterDestroy ==
  [][~alive => \A t \in Tp : /\ told'[t] >= told[t]
                             /\ loops'[t].connect <= loops[t].connect
                             /\ UNCHANGED transports]_vars

(* The client is told of each session and of each end, once.               *)
Sess == INSTANCE SessionEvents WITH
          owed <- [t \in Tp |-> ended[t] + IF telling = t THEN 1 ELSE 0]
SessSpec == Sess!Spec
=============================================================================
