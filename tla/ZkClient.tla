------------------------------ MODULE ZkClient ------------------------------
(***************************************************************************)
(* ucorf::ZookeeperClient (ucorf/zookeeper.{h,cpp}) and the registrations  *)
(* of ZookeeperRegister (ucorf/server_register.cpp), which keep watchers   *)
(* and ephemeral nodes across the sessions with zookeeper.                 *)
(*                                                                         *)
(* The threads of the zookeeper library put events on event_chan_; one     *)
(* coroutine takes them off and runs OnWatch under mutex_.  Its calls of   *)
(* zookeeper block, and the session may be lost between two of them.       *)
(* Watch, Unwatch, Register, DeleteNode and a retry hold mutex_ for one    *)
(* call of zookeeper each: one action.                                     *)
(*                                                                         *)
(* zookeeper and its library are external: a handle is one session, named  *)
(* by a number; a call succeeds if the session is up.  The children of the *)
(* one watched path are the number of their changes so far; a path that is *)
(* missing is created on the way and has no part in this.                  *)
(***************************************************************************)
EXTENDS Naturals, Sequences, FiniteSets

CONSTANTS
  Key,        \* keys of watchers
  Node,       \* nodes that this process registers
  MaxLosses,  \* bound on the number of times a session loses its connection
  MaxChanges, \* bound on the changes of the children
  MaxEvents   \* capacity of event_chan_ (128)

ASSUME ZkAssumption ==
  /\ MaxLosses \in Nat /\ MaxChanges \in Nat
  /\ MaxEvents \in Nat \ {0}

(* A loss is an event, and so is the expiry that may follow: each may      *)
(* start a Connect.  Other is the session of an earlier process.           *)
NoHandle == 0
Handle   == 1 .. 2 * MaxLosses + 1
Other    == 2 * MaxLosses + 2
Unheard  == MaxChanges + 1      \* nothing heard, no watch set

VARIABLES
  zk,        \* zk_
  watchers,  \* the keys in zk_watchers_[path]
  listed,    \* does zk_watchers_ have an entry for the path?
  heard,     \* the children each watcher's callback was last given
  ephemeral, \* ephemeral_nodes_
  retries,   \* for each node, coroutines that sleep before they retry
  connects,  \* coroutines that are to run Connect
  rewatch, todo, \* what OnWatch still has to do for a new session: watch
                 \* the path again, create these nodes
  queue,     \* event_chan_: pairs of a handle and what happened to it
  hs,        \* what the library knows of each handle
  live,      \* sessions that zookeeper has not ended
  owner,     \* the session that owns each node, or NoHandle
  armed,     \* the children when a handle's one-shot watch was set
  version,   \* the children
  losses,    \* connections lost so far
  asked,     \* history: keys that called Watch and not Unwatch
  wanted,    \* history: nodes registered and not unregistered
  late,      \* history: did a handle's event come before its last one
             \* was taken off the queue?
  misused    \* history: was a closed handle used?

watchVars == <<watchers, listed, heard, asked>>
nodeVars  == <<ephemeral, retries, wanted>>
zooVars   == <<hs, live, armed, version, losses>>
vars == <<zk, watchVars, nodeVars, connects, rewatch, todo, queue, zooVars,
          owner, late, misused>>

(* Init has been called: its Connect coroutine is to run.                  *)
Init ==
  /\ zk = NoHandle
  /\ watchers = {} /\ listed = FALSE /\ asked = {}
  /\ heard = [k \in Key |-> Unheard]
  /\ ephemeral = {} /\ wanted = {}
  /\ retries = [n \in Node |-> 0]
  /\ connects = 1
  /\ rewatch = FALSE /\ todo = {}
  /\ queue = <<>>
  /\ hs = [h \in Handle |-> "unused"]
  /\ live = {Other}
  /\ owner \in [Node -> {NoHandle, Other}]
  /\ armed = [h \in Handle |-> Unheard]
  /\ version = 0 /\ losses = 0
  /\ late = FALSE /\ misused = FALSE

-----------------------------------------------------------------------------
(* zookeeper and its library *)

(* __watcher_fn, which waits while event_chan_ is full.                    *)
Emit(h, what) ==
  /\ Len(queue) < MaxEvents
  /\ queue' = Append(queue, <<h, what>>)
  /\ late' = \/ late
             \/ /\ what # "child"
                /\ \E i \in DOMAIN queue :
                     queue[i][1] = h /\ queue[i][2] # "child"

(* A handle gets its first connection, or gets it back if zookeeper still  *)
(* has the session.                                                        *)
SessionUp(h) ==
  /\ hs[h] \in {"new", "lost"}
  /\ IF hs[h] = "new" \/ h \in live
     THEN /\ hs' = [hs EXCEPT ![h] = "up"]
          /\ live' = live \cup {h}
          /\ Emit(h, "connected")
     ELSE /\ hs' = [hs EXCEPT ![h] = "expired"]
          /\ Emit(h, "gone")
          /\ UNCHANGED live
  /\ UNCHANGED <<zk, watchVars, nodeVars, connects, rewatch, todo, owner,
                 armed, version, losses, misused>>

SessionLost(h) ==
  /\ hs[h] = "up"
  /\ losses < MaxLosses
  /\ losses' = losses + 1
  /\ hs' = [hs EXCEPT ![h] = "lost"]
  /\ Emit(h, "gone")
  /\ UNCHANGED <<zk, watchVars, nodeVars, connects, rewatch, todo, live,
                 owner, armed, version, misused>>

NodesAfter(s) == [n \in Node |-> IF owner[n] = s THEN NoHandle ELSE owner[n]]

(* zookeeper ends a session that it has not heard of for too long.         *)
Expire(s) ==
  /\ s \in live
  /\ s \in Handle => hs[s] # "up"
  /\ live' = live \ {s}
  /\ owner' = NodesAfter(s)
  /\ UNCHANGED <<zk, watchVars, nodeVars, connects, rewatch, todo, queue, hs,
                 armed, version, losses, late, misused>>

ChildrenChange ==
  /\ version < MaxChanges
  /\ version' = version + 1
  /\ UNCHANGED <<zk, watchVars, nodeVars, connects, rewatch, todo, queue, hs,
                 live, owner, armed, losses, late, misused>>

ChildEvent(h) ==
  /\ hs[h] = "up"
  /\ armed[h] \notin {Unheard, version}
  /\ armed' = [armed EXCEPT ![h] = Unheard]
  /\ Emit(h, "child")
  /\ UNCHANGED <<zk, watchVars, nodeVars, connects, rewatch, todo, hs, live,
                 owner, version, losses, misused>>

-----------------------------------------------------------------------------
(* Calls of zookeeper *)

(* mutex_ is held by OnWatch.                                              *)
Locked == rewatch \/ todo # {}

Reaches == zk # NoHandle /\ hs[zk] = "up"
Use     == misused' = (misused \/ (zk # NoHandle /\ hs[zk] = "closed"))

(* Mistakes for the definitions below; no specification uses them: the     *)
(* watch is not set again, a node that exists is left to its owner.        *)
GetChildrenOnly(keys) ==
  /\ Use
  /\ heard' = [k \in Key |-> IF Reaches /\ k \in keys THEN version ELSE heard[k]]
  /\ UNCHANGED armed

CreateNoRetry(n, left) ==
  /\ ephemeral' = ephemeral \cup {n}
  /\ Use
  /\ owner' = IF Reaches /\ owner[n] = NoHandle
              THEN [owner EXCEPT ![n] = zk] ELSE owner
  /\ retries' = [retries EXCEPT ![n] = left]

(* __Watch: zoo_get_children sets the watch and gives the children to keys.*)
GetChildren(keys) ==
  /\ Use
  /\ IF Reaches
     THEN /\ armed' = [armed EXCEPT ![zk] = version]
          /\ heard' = [k \in Key |-> IF k \in keys THEN version ELSE heard[k]]
     ELSE UNCHANGED <<armed, heard>>

(* DelayCreateEphemeralNode: a node that exists is tried again later; left *)
(* are the retries of the node apart from this call.                       *)
DelayCreateEphemeralNode(n, left) ==
  /\ ephemeral' = ephemeral \cup {n}
  /\ Use
  /\ owner' = IF Reaches /\ owner[n] = NoHandle
              THEN [owner EXCEPT ![n] = zk] ELSE owner
  /\ retries' = [retries EXCEPT ![n] =
                   IF Reaches /\ owner[n] # NoHandle THEN left + 1 ELSE left]

-----------------------------------------------------------------------------
(* Connect, when zookeeper_init gives a handle; when it gives none the     *)
(* coroutine is replaced by another that sleeps first.                     *)
Connect ==
  /\ connects > 0
  /\ \E h \in Handle :
       /\ hs[h] = "unused"
       /\ \A g \in 1 .. (h - 1) : hs[g] # "unused"
       /\ hs' = [hs EXCEPT ![h] = "new"]
  /\ connects' = connects - 1
  /\ UNCHANGED <<zk, watchVars, nodeVars, rewatch, todo, queue, live, owner,
                 armed, version, losses, late, misused>>

Take(what) ==
  /\ ~Locked
  /\ queue # <<>>
  /\ Head(queue)[2] = what
  /\ queue' = Tail(queue)

(* OnWatch *)
OnConnected ==
  /\ Take("connected")
  /\ zk' = Head(queue)[1]
  /\ rewatch' = listed
  /\ todo' = ephemeral
  /\ UNCHANGED <<watchVars, nodeVars, connects, zooVars, owner, late, misused>>

Rewatch ==
  /\ rewatch
  /\ GetChildren(watchers)
  /\ rewatch' = FALSE
  /\ UNCHANGED <<zk, watchers, listed, asked, nodeVars, connects, todo, queue,
                 hs, live, version, losses, owner, late>>

Recreate(n) ==
  /\ ~rewatch
  /\ n \in todo
  /\ todo' = todo \ {n}
  /\ DelayCreateEphemeralNode(n, retries[n])
  /\ UNCHANGED <<zk, watchVars, wanted, connects, rewatch, queue, zooVars,
                 late>>

(* A mistake for the next action, which no specification uses: the handle  *)
(* is given up but not closed.                                             *)
OnGoneLeaks ==
  /\ Take("gone")
  /\ zk' = NoHandle
  /\ connects' = connects + 1
  /\ Use
  /\ UNCHANGED <<watchVars, nodeVars, rewatch, todo, zooVars, owner, late>>

(* Any other state of a session: zk_ is closed, whichever handle the event *)
(* is about.  zookeeper_close ends the session if it can reach zookeeper.  *)
OnGone ==
  /\ Take("gone")
  /\ IF zk = NoHandle
     THEN UNCHANGED <<hs, live, owner, armed>>
     ELSE /\ hs' = [hs EXCEPT ![zk] = "closed"]
          /\ armed' = [armed EXCEPT ![zk] = Unheard]
          /\ IF hs[zk] = "up"
             THEN live' = live \ {zk} /\ owner' = NodesAfter(zk)
             ELSE UNCHANGED <<live, owner>>
  /\ Use
  /\ zk' = NoHandle
  /\ connects' = connects + 1
  /\ UNCHANGED <<watchVars, nodeVars, rewatch, todo, version, losses, late>>

OnChild ==
  /\ Take("child")
  /\ GetChildren(watchers)
  /\ listed' = TRUE      \* zk_watchers_[path]
  /\ UNCHANGED <<zk, watchers, asked, nodeVars, connects, rewatch, todo, hs,
                 live, version, losses, owner, late>>

-----------------------------------------------------------------------------
(* Callers *)

(* Watch keeps the key if there is no session, or if __Watch failed; when  *)
(* __Watch succeeded the key is given the children and taken off again.    *)
Watch(k) ==
  /\ ~Locked
  /\ k \notin asked
  /\ asked' = asked \cup {k}
  /\ listed' = TRUE
  /\ watchers' = IF Reaches THEN watchers ELSE watchers \cup {k}
  /\ GetChildren({k})
  /\ UNCHANGED <<zk, nodeVars, connects, rewatch, todo, queue, hs, live,
                 version, losses, owner, late>>

(* A mistake for the next action, which no specification uses: the watcher *)
(* stays.                                                                  *)
UnwatchNothing(k) ==
  /\ ~Locked
  /\ k \in asked
  /\ asked' = asked \ {k}
  /\ UNCHANGED <<zk, watchers, listed, heard, nodeVars, connects, rewatch, todo,
                 queue, zooVars, owner, late, misused>>

Unwatch(k) ==
  /\ ~Locked
  /\ k \in asked
  /\ asked' = asked \ {k}
  /\ watchers' = watchers \ {k}
  /\ UNCHANGED <<zk, listed, heard, nodeVars, connects, rewatch, todo, queue,
                 zooVars, owner, late, misused>>

(* ZookeeperRegister::Register, once for each node.                        *)
Register(n) ==
  /\ ~Locked
  /\ n \notin ephemeral
  /\ DelayCreateEphemeralNode(n, retries[n])
  /\ wanted' = wanted \cup {n}
  /\ UNCHANGED <<zk, watchVars, connects, rewatch, todo, queue, zooVars, late>>

Retry(n) ==
  /\ ~Locked
  /\ retries[n] > 0
  /\ n \in ephemeral
  /\ DelayCreateEphemeralNode(n, retries[n] - 1)
  /\ UNCHANGED <<zk, watchVars, wanted, connects, rewatch, todo, queue,
                 zooVars, late>>

(* ZookeeperRegister::Unregister, node by node.  The node stays in         *)
(* ephemeral_nodes_, as the test after zoo_delete is always true.          *)
DeleteNode(n) ==
  /\ ~Locked
  /\ n \in wanted
  /\ wanted' = wanted \ {n}
  /\ Use
  /\ owner' = IF Reaches THEN [owner EXCEPT ![n] = NoHandle] ELSE owner
  /\ UNCHANGED <<zk, watchVars, ephemeral, retries, connects, rewatch, todo,
                 queue, zooVars, late>>

OnWatch == OnConnected \/ Rewatch \/ OnGone \/ OnChild
           \/ \E n \in Node : Recreate(n)

Next ==
  \/ \E h \in Handle : SessionUp(h) \/ SessionLost(h) \/ ChildEvent(h)
  \/ \E s \in Handle \cup {Other} : Expire(s)
  \/ ChildrenChange
  \/ Connect
  \/ OnWatch
  \/ \E k \in Key : Watch(k) \/ Unwatch(k)
  \/ \E n \in Node : Register(n) \/ Retry(n) \/ DeleteNode(n)

Spec == Init /\ [][Next]_vars

(* Coroutines that can go on do; zookeeper can be reached again after a    *)
(* loss, delivers its events, and ends sessions that are not heard of.     *)
FairSpec ==
  /\ Spec
  /\ WF_vars(OnWatch) /\ WF_vars(Connect)
  /\ \A n \in Node : WF_vars(Retry(n))
  /\ \A h \in Handle : WF_vars(SessionUp(h)) /\ WF_vars(ChildEvent(h))
  /\ \A s \in Handle \cup {Other} : WF_vars(Expire(s))

-----------------------------------------------------------------------------
(* Properties *)

Event == Handle \X {"connected", "gone", "child"}

TypeOK ==
  /\ zk \in Handle \cup {NoHandle}
  /\ watchers \subseteq asked /\ asked \subseteq Key
  /\ heard \in [Key -> 0..Unheard]
  /\ listed \in BOOLEAN /\ (asked # {} => listed)
  /\ wanted \subseteq ephemeral /\ todo \subseteq ephemeral
  /\ ephemeral \subseteq Node
  /\ retries \in [Node -> Nat]
  /\ connects \in Nat
  /\ queue \in Seq(Event) /\ Len(queue) <= MaxEvents
  /\ hs \in [Handle -> {"unused", "new", "up", "lost", "expired", "closed"}]
  /\ owner \in [Node -> live \cup {NoHandle}]
  /\ armed \in [Handle -> 0..Unheard]

Open == {h \in Handle : hs[h] \in {"new", "up", "lost", "expired"}}

(* As long as each event of a session is taken before the next one comes,  *)
(* no closed handle is used and there is exactly one handle, or one        *)
(* Connect to make it, though every loss closes one and starts another.    *)
OneHandle == ~late => ~misused /\ Cardinality(Open) + connects = 1

(* When sessions stop being lost, every node that was registered comes     *)
(* (back) and stays: though its creation met the node of a session that    *)
(* zookeeper had not ended yet, of this process or of an earlier one, or   *)
(* failed half way through OnWatch, or several handles are open.           *)
NodeComesBack ==
  <>[](\A n \in wanted : owner[n] \in Handle /\ hs[owner[n]] = "up")

(* Every watcher in zk_watchers_ comes to hear the last children, though   *)
(* watches are one-shot, bound to a session, and changes come while there  *)
(* is none.                                                                *)
WatchersHear == <>[](\A k \in watchers : heard[k] = version)

(* Whoever called Watch comes to hear the last children, as a client that  *)
(* finds its servers through zookeeper has to (README: service discovery). *)
AskedHear == <>[](\A k \in asked : heard[k] = version)
=============================================================================
