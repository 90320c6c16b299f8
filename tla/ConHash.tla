------------------------------ MODULE ConHash -------------------------------
(***************************************************************************)
(* con_hashtable (ucorf/conhash.h) and the HashDispatcher of               *)
(* ucorf/dispatcher.cpp that owns one: a transport is placed at vir_count  *)
(* points of a ring of hash codes, and a request goes to the transport at  *)
(* the first point at or after the request's hash code, around the ring.   *)
(*                                                                         *)
(* Add, Del and the setters hold the dispatcher's writer lock, Get its     *)
(* reader lock: each is one action.                                        *)
(*                                                                         *)
(* std::hash is a constant: Points[<<o, n>>] are the hash codes of the     *)
(* first n virtual names of the key whose own hash code is o.  Names may   *)
(* collide, within a key and between keys.  A point that is not in table_  *)
(* has NoTp, a hash code that is not in vir_table_ has the empty set:      *)
(* insert never leaves an empty list there.                                *)
(***************************************************************************)
EXTENDS Integers, FiniteSets

CONSTANTS
  Tp,          \* transports
  NoTp,        \* the null transport
  RingSize,    \* number of hash codes (2^64)
  Ori,         \* hash codes of the hash keys (ori_hashcode)
  Tags,        \* what GetHashKey may be: hash code of each transport's key
  VirCounts,   \* values of vir_count_; insert's default is one of them
  DefaultVir,  \* insert's default vir_count (64)
  Points       \* hash codes of the virtual names

Ring == 0..(RingSize - 1)

ASSUME RingAssumption ==
  /\ NoTp \notin Tp
  /\ RingSize \in Nat \ {0}
  /\ Tags \subseteq [Tp -> Ori]
  /\ VirCounts \subseteq Nat
  /\ DefaultVir \in VirCounts
  /\ Points \in [Ori \X VirCounts -> SUBSET Ring]

VARIABLES
  table,     \* table_
  virTable,  \* vir_table_
  virCount,  \* vir_count_, 0 until it is set
  tag,       \* GetHashKey
  got,       \* what the last Get returned
  live,      \* history: transports added and not deleted since
  ownKeys    \* history: so far, was GetHashKey one function that gives
             \* each transport a key of its own?

vars == <<table, virTable, virCount, tag, got, live, ownKeys>>

Init ==
  /\ table = [p \in Ring |-> NoTp]
  /\ virTable = [o \in Ori |-> {}]
  /\ virCount = 0
  /\ tag \in Tags
  /\ got = NoTp
  /\ live = {}
  /\ ownKeys = \A t, u \in Tp : tag[t] = tag[u] => t = u

-----------------------------------------------------------------------------
(* con_hashtable *)

Used == {p \in Ring : table[p] # NoTp}

(* The names of a key that get a point: those whose hash code is free.     *)
NewPoints(o, n) == Points[<<o, n>>] \ Used

(* table_.lower_bound, or table_.begin().                                  *)
Lowest(S) == CHOOSE p \in S : \A q \in S : p <= q
AtOrAfter(S, h) == {p \in S : p >= h}
Successor(S, h) ==
  IF AtOrAfter(S, h) # {} THEN Lowest(AtOrAfter(S, h)) ELSE Lowest(S)

(* Mistakes for the operations below; no specification uses them: hget     *)
(* that reads past the end, insert without the early return, insert that   *)
(* lists the points it did not get, erase that computes the names again.   *)
HgetPastEnd(h) ==
  IF Used = {} THEN NoTp
  ELSE IF AtOrAfter(Used, h) = {} THEN RingSize ELSE table[Successor(Used, h)]

InsertAgain(o, t, n) ==
  /\ table' = [p \in Ring |-> IF p \in NewPoints(o, n) THEN t ELSE table[p]]
  /\ virTable' = [virTable EXCEPT ![o] = NewPoints(o, n)]

InsertListsAll(o, t, n) ==
  IF virTable[o] # {}
  THEN UNCHANGED <<table, virTable>>
  ELSE /\ table' = [p \in Ring |-> IF p \in NewPoints(o, n) THEN t ELSE table[p]]
       /\ virTable' = [virTable EXCEPT ![o] = Points[<<o, n>>]]

EraseNames(o) ==
  /\ table' = [p \in Ring |-> IF p \in Points[<<o, DefaultVir>>] THEN NoTp ELSE table[p]]
  /\ virTable' = [virTable EXCEPT ![o] = {}]

hget(h) == IF Used = {} THEN NoTp ELSE table[Successor(Used, h)]

insert(o, t, n) ==
  IF virTable[o] # {}
  THEN UNCHANGED <<table, virTable>>
  ELSE /\ table' = [p \in Ring |-> IF p \in NewPoints(o, n) THEN t ELSE table[p]]
       /\ virTable' = [virTable EXCEPT ![o] = NewPoints(o, n)]

erase(o) ==
  /\ table' = [p \in Ring |-> IF p \in virTable[o] THEN NoTp ELSE table[p]]
  /\ virTable' = [virTable EXCEPT ![o] = {}]

-----------------------------------------------------------------------------
(* HashDispatcher *)

(* ClientImpl adds a transport when it connects and deletes it when it     *)
(* disconnects, in turn.                                                   *)
Add(t) ==
  /\ t \notin live
  /\ insert(tag[t], t, IF virCount = 0 THEN DefaultVir ELSE virCount)
  /\ live' = live \cup {t}
  /\ UNCHANGED <<virCount, tag, got, ownKeys>>

Del(t) ==
  /\ t \in live
  /\ erase(tag[t])
  /\ live' = live \ {t}
  /\ UNCHANGED <<virCount, tag, got, ownKeys>>

(* The hash code comes from hash_fn_, or is that of ++hash_idx_ in         *)
(* decimal: any code of the ring.                                          *)
Get ==
  /\ \E h \in Ring : got' = hget(h)
  /\ UNCHANGED <<table, virTable, virCount, tag, live, ownKeys>>

SetVirtualCount(n) ==
  /\ virCount' = n
  /\ UNCHANGED <<table, virTable, tag, got, live, ownKeys>>

SetHashTagFunction(f) ==
  /\ tag' = f
  /\ ownKeys' = (ownKeys /\ f = tag)
  /\ UNCHANGED <<table, virTable, virCount, got, live>>

Next ==
  \/ \E t \in Tp : Add(t) \/ Del(t)
  \/ Get
  \/ \E n \in VirCounts \cup {0} : SetVirtualCount(n)
  \/ \E f \in Tags : SetHashTagFunction(f)

Spec == Init /\ [][Next]_vars

-----------------------------------------------------------------------------
(* Properties *)

TypeOK ==
  /\ table \in [Ring -> Tp \cup {NoTp}]
  /\ virTable \in [Ori -> SUBSET Ring]
  /\ virCount \in VirCounts \cup {0}
  /\ tag \in Tags
  /\ got \in Tp \cup {NoTp}
  /\ live \subseteq Tp
  /\ ownKeys \in BOOLEAN

(* erase takes out of the ring exactly what insert put there, whatever     *)
(* vir_count_ and the hash tag function became in between: the lists of    *)
(* vir_table_ are disjoint, cover the ring's points in use, and all points *)
(* of a list belong to one transport.                                      *)
ListsPartitionRing ==
  /\ UNION {virTable[o] : o \in Ori} = Used
  /\ \A o1, o2 \in Ori : o1 # o2 => virTable[o1] \cap virTable[o2] = {}
  /\ \A o \in Ori : \A p, q \in virTable[o] : table[p] = table[q]

(* The point lists name their owners: as long as each transport has its    *)
(* own key, one that was deleted has no point left on the ring, and no live*)
(* transport lost one (conhash.h, insert and erase).                       *)
ListsOfLive ==
  ownKeys =>
  /\ \A t \in Tp : t \notin live => virTable[tag[t]] = {}
  /\ \A t \in Tp : \A p \in virTable[tag[t]] : table[p] = t
  /\ \A p \in Used : p \in virTable[tag[table[p]]]

(* Consistent hashing (README: the second of the two algorithms): a        *)
(* connection that comes or goes moves no request between two other        *)
(* connections.  A hash code changes hands only if the one that had it is  *)
(* no longer live or the one that gets it was not live before.             *)
MovesAreMinimal ==
  [][ownKeys' => \A h \in Ring :
       hget(h)' # hget(h) => hget(h) \notin live' \/ hget(h)' \notin live]_vars

(* As long as each transport has its own key, and with at least one point  *)
(* for every key, HashDispatcher is a Dispatcher: Get returns a live       *)
(* transport, and null only if there is none.                              *)
Disp == INSTANCE Dispatcher WITH
          held <- [t \in Tp |-> IF t \in live THEN 1 ELSE 0], sound <- ownKeys
DispSpec == Disp!Spec
=============================================================================
