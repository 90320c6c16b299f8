---------------------------- MODULE ConHashProofs ----------------------------
(***************************************************************************)
(* Proofs about ConHash, for every hash function, number of transports and *)
(* virtual counts.                                                         *)
(***************************************************************************)
EXTENDS ConHash, WellFoundedInduction, TLAPS

-----------------------------------------------------------------------------
(* The ring *)

(* Lowest is the least element of a set of hash codes.                     *)
LEMMA LowestIsLeast ==
  ASSUME NEW S \in SUBSET Ring, S # {}
  PROVE  Lowest(S) \in S /\ \A q \in S : Lowest(S) <= q
  <1>1. S \subseteq Nat
    BY RingAssumption DEF Ring
  <1> DEFINE Less == {ab \in Nat \X Nat : ab[1] < ab[2]}
  <1>2. IsWellFoundedOn(Less, Nat)
    BY NatLessThanWellFounded DEF OpToRel
  <1>3. \E p \in S : \A q \in S : ~(<<q, p>> \in Less)
    <2> HIDE DEF Less
    <2> QED
      BY <1>1, <1>2, WFMin, Zenon
  <1>4. \E p \in S : \A q \in S : p <= q
    <2>1. PICK p \in S : \A q \in S : ~(<<q, p>> \in Less)
      BY <1>3
    <2>2. \A q \in S : q \in Nat /\ p \in Nat /\ ~(q < p)
      BY <1>1, <2>1
    <2> QED
      BY <2>2
  <1> QED
    BY <1>4 DEF Lowest

(* ... and the only one.                                                   *)
LEMMA LowestIsUnique ==
  ASSUME NEW S \in SUBSET Ring, NEW p \in S, \A q \in S : p <= q
  PROVE  Lowest(S) = p
  <1>1. Lowest(S) \in S /\ Lowest(S) <= p /\ p <= Lowest(S)
    BY LowestIsLeast
  <1>2. S \subseteq Nat
    BY RingAssumption DEF Ring
  <1>3. Lowest(S) \in Nat /\ p \in Nat
    BY <1>1, <1>2
  <1> HIDE DEF Lowest
  <1> QED
    BY <1>1, <1>3

LEMMA SuccessorInSet ==
  ASSUME NEW S \in SUBSET Ring, S # {}, NEW h \in Ring
  PROVE  Successor(S, h) \in S
  BY LowestIsLeast DEF Successor, AtOrAfter

(* The point that a request goes to stays when others are taken away.      *)
LEMMA SuccessorStays ==
  ASSUME NEW T \in SUBSET Ring, NEW S \in SUBSET T, NEW h \in Ring,
         Successor(T, h) \in S
  PROVE  Successor(S, h) = Successor(T, h)
  <1> DEFINE p == Successor(T, h)
  <1>1. CASE AtOrAfter(T, h) # {}
    <2>1. p \in AtOrAfter(T, h) /\ \A q \in AtOrAfter(T, h) : p <= q
      BY <1>1, LowestIsLeast DEF Successor, AtOrAfter
    <2>2. p \in AtOrAfter(S, h) /\ \A q \in AtOrAfter(S, h) : p <= q
      BY <2>1 DEF AtOrAfter
    <2>3. Lowest(AtOrAfter(S, h)) = p
      BY <2>2, LowestIsUnique DEF AtOrAfter
    <2> QED
      BY <2>2, <2>3 DEF Successor
  <1>2. CASE AtOrAfter(T, h) = {}
    <2>1. \A q \in T : p <= q
      BY <1>2, LowestIsLeast DEF Successor
    <2>2. Lowest(S) = p
      BY <2>1, LowestIsUnique
    <2> QED
      BY <1>2, <2>2 DEF Successor, AtOrAfter
  <1> QED
    BY <1>1, <1>2

-----------------------------------------------------------------------------
(* The tables *)

(* The number of points insert is given.                                   *)
VirNow == IF virCount = 0 THEN DefaultVir ELSE virCount

(* Without keys of their own ListsOfLive says nothing of two transports.   *)
OwnKeysInv == ownKeys => \A t, u \in Tp : tag[t] = tag[u] => t = u

(* The tables, but for got, which comes from them.                         *)
TableTypes ==
  /\ table \in [Ring -> Tp \cup {NoTp}]
  /\ virTable \in [Ori -> SUBSET Ring]
  /\ virCount \in VirCounts \cup {0}
  /\ tag \in [Tp -> Ori] /\ tag \in Tags
  /\ live \subseteq Tp
  /\ ownKeys \in BOOLEAN

TableInv ==
  TableTypes /\ ListsPartitionRing /\ OwnKeysInv /\ ListsOfLive

LEMMA PointsInRing ==
  ASSUME TableTypes, NEW o \in Ori
  PROVE  VirNow \in VirCounts /\ Points[<<o, VirNow>>] \subseteq Ring
  BY RingAssumption DEF TableTypes, VirNow

LEMMA TableInit == Init => TableInv
  BY RingAssumption
  DEF Init, TableInv, TableTypes, ListsPartitionRing, OwnKeysInv, ListsOfLive, Used

(* What insert and erase do to the points in use.                          *)
LEMMA InsertUsed ==
  ASSUME TableTypes, NEW t \in Tp, virTable[tag[t]] = {},
         insert(tag[t], t, VirNow)
  PROVE  /\ NewPoints(tag[t], VirNow) \subseteq Ring
         /\ table' \in [Ring -> Tp \cup {NoTp}]
         /\ virTable' = [virTable EXCEPT ![tag[t]] = NewPoints(tag[t], VirNow)]
         /\ Used' = Used \cup NewPoints(tag[t], VirNow)
         /\ \A p \in NewPoints(tag[t], VirNow) : p \notin Used /\ table'[p] = t
         /\ \A p \in Used : table'[p] = table[p]
  <1> DEFINE new == NewPoints(tag[t], VirNow)
  <1>1. new \subseteq Ring /\ \A p \in new : p \notin Used
    BY PointsInRing DEF TableTypes, NewPoints
  <1>2. /\ table' = [p \in Ring |-> IF p \in new THEN t ELSE table[p]]
        /\ virTable' = [virTable EXCEPT ![tag[t]] = new]
    BY DEF insert
  <1> HIDE DEF new
  <1>3. Used' = Used \cup new
    BY <1>1, <1>2, RingAssumption DEF Used, TableTypes
  <1>4. table' \in [Ring -> Tp \cup {NoTp}]
    BY <1>2 DEF TableTypes
  <1>5. /\ \A p \in new : table'[p] = t
        /\ \A p \in Used : table'[p] = table[p]
    BY <1>1, <1>2 DEF Used
  <1> QED
    BY <1>1, <1>2, <1>3, <1>4, <1>5 DEF new

LEMMA EraseUsed ==
  ASSUME TableTypes, NEW o \in Ori, erase(o)
  PROVE  /\ table' \in [Ring -> Tp \cup {NoTp}]
         /\ virTable' = [virTable EXCEPT ![o] = {}]
         /\ Used' = Used \ virTable[o]
         /\ \A p \in Used' : table'[p] = table[p]
  <1>1. /\ table' = [p \in Ring |-> IF p \in virTable[o] THEN NoTp ELSE table[p]]
        /\ virTable' = [virTable EXCEPT ![o] = {}]
    BY DEF erase
  <1>2. Used' = Used \ virTable[o]
    BY <1>1 DEF Used
  <1> QED
    BY <1>1, <1>2 DEF TableTypes, Used

LEMMA AddStep ==
  ASSUME TableInv, NEW t \in Tp, Add(t)
  PROVE  TableInv'
  <1> USE DEF TableInv
  <1>1. CASE virTable[tag[t]] # {}
    <2>1. ~ownKeys /\ UNCHANGED <<table, virTable>>
      BY <1>1 DEF Add, insert, ListsOfLive
    <2> QED
      BY <2>1 DEF Add, TableTypes, ListsPartitionRing, OwnKeysInv, ListsOfLive,
         Used
  <1>2. CASE virTable[tag[t]] = {}
    <2> DEFINE new == NewPoints(tag[t], VirNow)
    <2>1. /\ new \subseteq Ring
          /\ table' \in [Ring -> Tp \cup {NoTp}]
          /\ virTable' = [virTable EXCEPT ![tag[t]] = new]
          /\ Used' = Used \cup new
          /\ \A p \in new : p \notin Used /\ table'[p] = t
          /\ \A p \in Used : table'[p] = table[p]
      BY <1>2, InsertUsed DEF Add, VirNow
    <2>2. /\ live' = live \cup {t} /\ tag' = tag /\ ownKeys' = ownKeys
          /\ virCount' = virCount /\ tag[t] \in Ori
      BY DEF Add, TableTypes
    <2> HIDE DEF new
    <2>3. TableTypes' /\ OwnKeysInv'
      BY <2>1, <2>2 DEF TableTypes, OwnKeysInv
    <2>4. \A o \in Ori : virTable'[o] = IF o = tag[t] THEN new ELSE virTable[o]
      BY <2>1, <2>2 DEF TableTypes
    <2>5. \A o \in Ori : virTable[o] \subseteq Used
      BY DEF ListsPartitionRing
    <2>6. ListsPartitionRing'
      <3>1. UNION {virTable'[o] : o \in Ori} = Used'
        <4>1. \A p \in Used : \E o \in Ori : o # tag[t] /\ p \in virTable[o]
          BY <1>2 DEF ListsPartitionRing
        <4> QED
          BY <2>1, <2>2, <2>4, <2>5, <4>1
      <3>2. \A o1, o2 \in Ori : o1 # o2 => virTable'[o1] \cap virTable'[o2] = {}
        BY <2>1, <2>4, <2>5 DEF ListsPartitionRing
      <3>3. \A o \in Ori : \A p, q \in virTable'[o] : table'[p] = table'[q]
        BY <2>1, <2>4, <2>5 DEF ListsPartitionRing
      <3> QED
        BY <3>1, <3>2, <3>3 DEF ListsPartitionRing
    <2>7. ListsOfLive'
      <3> SUFFICES ASSUME ownKeys PROVE ListsOfLive'
        BY <2>2 DEF ListsOfLive
      <3>1. \A u \in Tp : tag[u] \in Ori /\ (tag[u] = tag[t] => u = t)
        BY DEF OwnKeysInv, TableTypes
      <3>2. \A u \in Tp : u \notin live' => virTable'[tag[u]] = {}
        BY <2>2, <2>4, <3>1 DEF ListsOfLive
      <3>3. \A u \in Tp : \A p \in virTable'[tag[u]] : table'[p] = u
        BY <2>1, <2>4, <2>5, <3>1 DEF ListsOfLive
      <3>4. \A p \in Used' : p \in virTable'[tag[table'[p]]]
        <4>1. \A p \in Used : table[p] \in Tp
          BY DEF Used, TableTypes
        <4> QED
          BY <1>2, <2>1, <2>2, <2>4, <3>1, <4>1 DEF ListsOfLive
      <3> QED
        BY <2>2, <3>2, <3>3, <3>4 DEF ListsOfLive
    <2> QED
      BY <2>3, <2>6, <2>7
  <1> QED
    BY <1>1, <1>2

LEMMA DelStep ==
  ASSUME TableInv, NEW t \in Tp, Del(t)
  PROVE  TableInv'
  <1> USE DEF TableInv
  <1>1. /\ table' \in [Ring -> Tp \cup {NoTp}]
        /\ virTable' = [virTable EXCEPT ![tag[t]] = {}]
        /\ Used' = Used \ virTable[tag[t]]
        /\ \A p \in Used' : table'[p] = table[p]
    BY EraseUsed DEF Del, TableTypes
  <1>2. /\ live' = live \ {t} /\ tag' = tag /\ ownKeys' = ownKeys
        /\ virCount' = virCount /\ tag[t] \in Ori
    BY DEF Del, TableTypes
  <1>3. TableTypes' /\ OwnKeysInv'
    BY <1>1, <1>2 DEF TableTypes, OwnKeysInv
  <1>4. \A o \in Ori : virTable'[o] = IF o = tag[t] THEN {} ELSE virTable[o]
    BY <1>1, <1>2 DEF TableTypes
  <1>5. \A o \in Ori : virTable[o] \subseteq Used
    BY DEF ListsPartitionRing
  <1>6. ListsPartitionRing'
    <2>1. UNION {virTable'[o] : o \in Ori} = Used'
      <3>1. \A o \in Ori : o # tag[t] => virTable[o] \cap virTable[tag[t]] = {}
        BY <1>2 DEF ListsPartitionRing
      <3>2. \A p \in Used : \E o \in Ori : p \in virTable[o]
        BY DEF ListsPartitionRing
      <3>3. \A o \in Ori : virTable'[o] \subseteq Used'
        BY <1>1, <1>4, <1>5, <3>1
      <3>4. \A p \in Used' : \E o \in Ori : p \in virTable'[o]
        BY <1>1, <1>4, <3>2
      <3> QED
        BY <3>3, <3>4
    <2>2. \A o1, o2 \in Ori : o1 # o2 => virTable'[o1] \cap virTable'[o2] = {}
      BY <1>4 DEF ListsPartitionRing
    <2>3. \A o \in Ori : virTable'[o] \subseteq Used'
      BY <2>1
    <2>4. \A o \in Ori : \A p, q \in virTable'[o] : table'[p] = table'[q]
      BY <1>1, <1>4, <2>3 DEF ListsPartitionRing
    <2> QED
      BY <2>1, <2>2, <2>4 DEF ListsPartitionRing
  <1>7. ListsOfLive'
    <2> SUFFICES ASSUME ownKeys PROVE ListsOfLive'
      BY <1>2 DEF ListsOfLive
    <2>1. \A u \in Tp : tag[u] \in Ori /\ (tag[u] = tag[t] => u = t)
      BY DEF OwnKeysInv, TableTypes
    <2>2. \A u \in Tp : u \notin live' => virTable'[tag[u]] = {}
      BY <1>2, <1>4, <2>1 DEF ListsOfLive
    <2>3. \A u \in Tp : \A p \in virTable'[tag[u]] : p \in Used' /\ table'[p] = u
      BY <1>1, <1>4, <1>6, <2>1 DEF ListsOfLive, ListsPartitionRing
    <2>4. \A p \in Used' : p \in virTable'[tag[table'[p]]]
      <3>1. \A p \in Used : table[p] \in Tp
        BY DEF Used, TableTypes
      <3> QED
        BY <1>1, <1>4, <2>1, <3>1 DEF ListsOfLive
    <2> QED
      BY <1>2, <2>2, <2>3, <2>4 DEF ListsOfLive
  <1> QED
    BY <1>3, <1>6, <1>7

LEMMA TableStep == TableInv /\ [Next]_vars => TableInv'
  <1> SUFFICES ASSUME TableInv, [Next]_vars PROVE TableInv'
    OBVIOUS
  <1> USE DEF TableInv, ListsPartitionRing, Used
  <1>1. ASSUME NEW t \in Tp, Add(t) PROVE TableInv'
    BY <1>1, AddStep
  <1>2. ASSUME NEW t \in Tp, Del(t) PROVE TableInv'
    BY <1>2, DelStep
  <1>3. CASE Get
    BY <1>3 DEF Get, TableTypes, OwnKeysInv, ListsOfLive
  <1>4. ASSUME NEW n \in VirCounts \cup {0}, SetVirtualCount(n) PROVE TableInv'
    BY <1>4 DEF SetVirtualCount, TableTypes, OwnKeysInv, ListsOfLive
  <1>5. ASSUME NEW f \in Tags, SetHashTagFunction(f) PROVE TableInv'
    <2>1. tag' \in Tags /\ tag' \in [Tp -> Ori] /\ ownKeys' \in BOOLEAN
      BY <1>5, RingAssumption DEF SetHashTagFunction
    <2>2. UNCHANGED <<table, virTable, virCount, live>>
      BY <1>5 DEF SetHashTagFunction
    <2>3. ownKeys' => ownKeys /\ tag' = tag
      BY <1>5 DEF SetHashTagFunction
    <2>4. OwnKeysInv' /\ ListsOfLive'
      BY <2>2, <2>3 DEF OwnKeysInv, ListsOfLive
    <2> QED
      BY <2>1, <2>2, <2>4 DEF TableTypes
  <1>6. CASE UNCHANGED vars
    BY <1>6 DEF vars, TableTypes, OwnKeysInv, ListsOfLive
  <1> QED
    BY <1>1, <1>2, <1>3, <1>4, <1>5, <1>6 DEF Next

LEMMA TableHolds == Spec => []TableInv
  BY TableInit, TableStep, PTL DEF Spec

(* erase takes out exactly what insert put in, for every hash function,    *)
(* though names collide and the settings change in between.                *)
THEOREM ListsPartition == Spec => []ListsPartitionRing
  <1>1. TableInv => ListsPartitionRing
    BY DEF TableInv
  <1> QED
    BY <1>1, TableHolds, PTL

(* Every point on the ring is of a live transport and in its own list.     *)
THEOREM NoStalePoints == Spec => []ListsOfLive
  <1>1. TableInv => ListsOfLive
    BY DEF TableInv
  <1> QED
    BY <1>1, TableHolds, PTL

-----------------------------------------------------------------------------
(* What Get returns *)

LEMMA HgetTypes ==
  ASSUME TableTypes, NEW h \in Ring
  PROVE  /\ hget(h) \in Tp \cup {NoTp}
         /\ Used # {} => /\ Successor(Used, h) \in Used
                         /\ hget(h) = table[Successor(Used, h)]
                         /\ hget(h) \in Tp
  <1>1. Used \in SUBSET Ring
    BY DEF Used
  <1>2. CASE Used = {}
    BY <1>2 DEF hget
  <1>3. CASE Used # {}
    <2>1. Successor(Used, h) \in Used
      BY <1>1, <1>3, SuccessorInSet
    <2>2. hget(h) = table[Successor(Used, h)]
      BY <1>3 DEF hget
    <2>3. table[Successor(Used, h)] \in Tp
      BY <2>1 DEF Used, TableTypes
    <2> QED
      BY <1>3, <2>1, <2>2, <2>3
  <1> QED
    BY <1>2, <1>3

(* Every variable keeps its type: Get returns a transport or null.         *)
THEOREM TypesHold == Spec => []TypeOK
  <1>1. Init => TypeOK
    BY RingAssumption DEF Init, TypeOK
  <1>2. TableInv /\ TableInv' /\ TypeOK /\ [Next]_vars => TypeOK'
    <2> SUFFICES ASSUME TableTypes, TableTypes', TypeOK, [Next]_vars
                 PROVE  got' \in Tp \cup {NoTp}
      BY DEF TableInv, TableTypes, TypeOK
    <2>1. CASE Get
      BY <2>1, HgetTypes DEF Get
    <2>2. CASE UNCHANGED got
      BY <2>2 DEF TypeOK
    <2> QED
      BY <2>1, <2>2
      DEF Next, vars, Add, Del, SetVirtualCount, SetHashTagFunction
  <1> QED
    BY <1>1, <1>2, TableHolds, PTL DEF Spec

LEMMA OwnerIsLive ==
  ASSUME TableInv, ownKeys, NEW p \in Used
  PROVE  table[p] \in live
  <1>1. table[p] \in Tp /\ p \in virTable[tag[table[p]]]
    BY DEF TableInv, TableTypes, ListsOfLive, Used
  <1> QED
    BY <1>1 DEF TableInv, ListsOfLive

LEMMA MovesOfAdd ==
  ASSUME TableInv, ownKeys, NEW t \in Tp, Add(t), NEW h \in Ring,
         hget(h)' # hget(h)
  PROVE  hget(h)' \notin live
  <1>1. virTable[tag[t]] = {}
    BY DEF TableInv, ListsOfLive, Add
  <1> DEFINE new == NewPoints(tag[t], VirNow)
  <1>2. /\ new \subseteq Ring
        /\ table' \in [Ring -> Tp \cup {NoTp}]
        /\ Used' = Used \cup new
        /\ \A p \in new : table'[p] = t
        /\ \A p \in Used : table'[p] = table[p]
    BY <1>1, InsertUsed DEF Add, VirNow, TableInv
  <1> HIDE DEF new
  <1>3. t \notin live /\ live \subseteq Tp
    BY DEF Add, TableInv, TableTypes
  <1>4. CASE Used' = {}
    BY <1>3, <1>4, RingAssumption DEF hget
  <1>5. CASE Used' # {} /\ Successor(Used', h) \in new
    BY <1>2, <1>3, <1>5 DEF hget
  <1>6. CASE Used' # {} /\ Successor(Used', h) \notin new
    <2>1. Used' \in SUBSET Ring /\ Used \in SUBSET Used'
      BY <1>2 DEF Used
    <2>2. Successor(Used', h) \in Used
      BY <1>2, <1>6, <2>1, SuccessorInSet
    <2>3. Successor(Used, h) = Successor(Used', h)
      BY <2>1, <2>2, SuccessorStays
    <2> QED
      BY <1>2, <1>6, <2>2, <2>3 DEF hget
  <1> QED
    BY <1>4, <1>5, <1>6

LEMMA MovesOfDel ==
  ASSUME TableInv, ownKeys, NEW t \in Tp, Del(t), NEW h \in Ring,
         hget(h)' # hget(h)
  PROVE  hget(h) \notin live'
  <1>1. /\ Used' = Used \ virTable[tag[t]]
        /\ \A p \in Used' : table'[p] = table[p]
    BY EraseUsed DEF Del, TableInv, TableTypes
  <1>2. t \notin live' /\ live' \subseteq Tp
    BY DEF Del, TableInv, TableTypes
  <1>3. CASE Used = {}
    BY <1>2, <1>3, RingAssumption DEF hget
  <1>4. CASE Used # {}
    <2> DEFINE p == Successor(Used, h)
    <2>1. p \in Used /\ hget(h) = table[p]
      BY <1>4, HgetTypes DEF TableInv
    <2>2. CASE p \in virTable[tag[t]]
      BY <1>2, <2>1, <2>2 DEF TableInv, ListsOfLive
    <2>3. CASE p \notin virTable[tag[t]]
      <3>1. p \in Used' /\ Used \in SUBSET Ring /\ Used' \in SUBSET Used
        BY <1>1, <2>1, <2>3 DEF Used
      <3>2. Successor(Used', h) = p
        BY <3>1, SuccessorStays
      <3> QED
        BY <1>1, <2>1, <3>1, <3>2 DEF hget
    <2> QED
      BY <2>2, <2>3
  <1> QED
    BY <1>3, <1>4

(* A connection that comes or goes moves no request between two others,    *)
(* for every hash function (conhash.h, insert, erase and hget).            *)
THEOREM ConsistentHashing == Spec => MovesAreMinimal
  <1> DEFINE Moves == \A h \in Ring : hget(h)' # hget(h) =>
                        hget(h) \notin live' \/ hget(h)' \notin live
  <1>1. TableInv /\ [Next]_vars => [ownKeys' => Moves]_vars
    <2> SUFFICES ASSUME TableInv, Next, ownKeys', NEW h \in Ring,
                        hget(h)' # hget(h)
                 PROVE  hget(h) \notin live' \/ hget(h)' \notin live
      OBVIOUS
    <2>1. ownKeys
      BY DEF Next, Add, Del, Get, SetVirtualCount, SetHashTagFunction,
             TableInv, TableTypes
    <2>2. ASSUME NEW t \in Tp, Add(t) PROVE hget(h)' \notin live
      BY <2>1, <2>2, MovesOfAdd
    <2>3. ASSUME NEW t \in Tp, Del(t) PROVE hget(h) \notin live'
      BY <2>1, <2>3, MovesOfDel
    <2>4. CASE UNCHANGED table
      BY <2>4 DEF hget, Used
    <2> QED
      BY <2>2, <2>3, <2>4 DEF Next, Get, SetVirtualCount, SetHashTagFunction
  <1>2. Spec => [][ownKeys' => Moves]_vars
    BY <1>1, TableHolds, PTL DEF Spec
  <1> QED
    BY <1>2, PTL DEF MovesAreMinimal

-----------------------------------------------------------------------------
(* HashDispatcher implements Dispatcher *)

(* Each key has a virtual name whose hash code no other key's name has.    *)
OwnPoint ==
  \A o \in Ori, n \in VirCounts : \E p \in Points[<<o, n>>] :
    \A q \in Ori, m \in VirCounts : q # o => p \notin Points[<<q, m>>]

(* Lists hold names of their key, and those of live transports hold some.  *)
NamesInv ==
  /\ \A o \in Ori : \A p \in virTable[o] :
       \E n \in VirCounts : p \in Points[<<o, n>>]
  /\ ownKeys => \A t \in live : virTable[tag[t]] # {}

LEMMA NamesStep ==
  ASSUME OwnPoint, TableInv, NamesInv, [Next]_vars
  PROVE  NamesInv'
  <1> USE DEF TableInv
  <1>1. ASSUME NEW t \in Tp, Add(t) PROVE NamesInv'
    <2>1. CASE virTable[tag[t]] # {}
      <3>1. ~ownKeys /\ UNCHANGED <<virTable, ownKeys>>
        BY <1>1, <2>1 DEF Add, insert, ListsOfLive
      <3> QED
        BY <3>1 DEF NamesInv
    <2>2. CASE virTable[tag[t]] = {}
      <3> DEFINE new == NewPoints(tag[t], VirNow)
      <3>1. tag[t] \in Ori /\ VirNow \in VirCounts
        BY PointsInRing DEF TableTypes
      <3>2. \A p \in new : p \in Points[<<tag[t], VirNow>>]
        BY DEF NewPoints
      <3>3. new # {}
        <4>1. PICK p \in Points[<<tag[t], VirNow>>] :
                \A q \in Ori, m \in VirCounts : q # tag[t] => p \notin Points[<<q, m>>]
          BY <3>1 DEF OwnPoint
        <4>2. \A q \in Ori : p \notin virTable[q]
          BY <2>2, <4>1 DEF NamesInv
        <4>3. p \notin Used
          BY <4>2 DEF ListsPartitionRing
        <4> QED
          BY <4>1, <4>3 DEF NewPoints
      <3>4. virTable' = [virTable EXCEPT ![tag[t]] = new]
        BY <1>1, <2>2, InsertUsed DEF Add, VirNow
      <3>5. live' = live \cup {t} /\ tag' = tag /\ ownKeys' = ownKeys
        BY <1>1 DEF Add
      <3> HIDE DEF new
      <3>6. \A o \in Ori : virTable'[o] = IF o = tag[t] THEN new ELSE virTable[o]
        BY <3>1, <3>4 DEF TableTypes
      <3>7. \A o \in Ori : \A p \in virTable'[o] :
              \E n \in VirCounts : p \in Points[<<o, n>>]
        BY <3>1, <3>2, <3>6 DEF NamesInv
      <3>8. ownKeys => \A u \in live' : virTable'[tag[u]] # {}
        <4> SUFFICES ASSUME ownKeys, NEW u \in live' PROVE virTable'[tag[u]] # {}
          OBVIOUS
        <4>1. tag[u] \in Ori
          BY <3>5 DEF TableTypes
        <4> QED
          BY <3>3, <3>5, <3>6, <4>1 DEF NamesInv
      <3> QED
        BY <3>5, <3>7, <3>8 DEF NamesInv
    <2> QED
      BY <2>1, <2>2
  <1>2. ASSUME NEW t \in Tp, Del(t) PROVE NamesInv'
    <2>1. /\ virTable' = [virTable EXCEPT ![tag[t]] = {}]
          /\ live' = live \ {t} /\ tag' = tag /\ ownKeys' = ownKeys
          /\ tag \in [Tp -> Ori] /\ live \subseteq Tp /\ t \in live
      BY <1>2 DEF Del, erase, TableTypes
    <2>2. \A o \in Ori : virTable'[o] = IF o = tag[t] THEN {} ELSE virTable[o]
      BY <2>1 DEF TableTypes
    <2>3. ownKeys => \A u \in live' : tag[u] # tag[t]
      BY <2>1 DEF OwnKeysInv
    <2> QED
      BY <2>1, <2>2, <2>3 DEF NamesInv
  <1>3. CASE Get
    BY <1>3 DEF Get, NamesInv
  <1>4. ASSUME NEW n \in VirCounts \cup {0}, SetVirtualCount(n) PROVE NamesInv'
    BY <1>4 DEF SetVirtualCount, NamesInv
  <1>5. ASSUME NEW f \in Tags, SetHashTagFunction(f) PROVE NamesInv'
    <2>1. ownKeys' => ownKeys /\ tag' = tag
      BY <1>5 DEF SetHashTagFunction
    <2>2. UNCHANGED <<virTable, live>>
      BY <1>5 DEF SetHashTagFunction
    <2> QED
      BY <2>1, <2>2 DEF NamesInv
  <1>6. CASE UNCHANGED vars
    BY <1>6 DEF vars, NamesInv
  <1> QED
    BY <1>1, <1>2, <1>3, <1>4, <1>5, <1>6 DEF Next

LEMMA DispStep ==
  ASSUME TableInv, NamesInv, [Next]_vars
  PROVE  [Disp!Next]_(Disp!dispVars)
  <1> DEFINE held == [t \in Tp |-> IF t \in live THEN 1 ELSE 0]
  <1> USE DEF TableInv
  <1>1. ASSUME NEW t \in Tp, Add(t) PROVE Disp!Add(t)
    <2>1. t \notin live /\ live' = live \cup {t} /\ got' = got
      BY <1>1 DEF Add
    <2>2. held' = [u \in Tp |-> IF u = t THEN held[u] + 1 ELSE held[u]]
      BY <2>1
    <2> QED
      BY <2>1, <2>2 DEF Disp!Add
  <1>2. ASSUME NEW t \in Tp, Del(t) PROVE Disp!Del(t)
    <2>1. t \in live /\ live' = live \ {t} /\ got' = got
      BY <1>2 DEF Del
    <2>2. held' = [u \in Tp |-> IF u = t THEN held[u] - 1 ELSE held[u]]
      BY <2>1
    <2>3. held[t] > 0
      BY <2>1
    <2> QED
      BY <2>1, <2>2, <2>3 DEF Disp!Del
  <1>3. CASE Get
    <2>1. PICK h \in Ring : got' = hget(h)
      BY <1>3 DEF Get
    <2>2. held' = held /\ ownKeys' = ownKeys
      BY <1>3 DEF Get
    <2>3. CASE ownKeys /\ Used # {}
      <3>1. got' \in live
        BY <2>1, <2>3, HgetTypes, OwnerIsLive
      <3>2. got' \in {t \in Tp : held[t] > 0}
        BY <3>1 DEF TableTypes
      <3> QED
        BY <2>2, <3>2 DEF Disp!Next, Disp!Get
    <2>4. CASE ownKeys /\ Used = {}
      <3>1. got' = NoTp
        BY <2>1, <2>4 DEF hget
      <3>2. live = {}
        <4>1. \A o \in Ori : virTable[o] = {}
          BY <2>4 DEF ListsPartitionRing
        <4> QED
          BY <2>4, <4>1 DEF NamesInv, TableTypes
      <3> QED
        BY <2>2, <3>1, <3>2 DEF Disp!Next, Disp!GetNone
    <2>5. CASE ~ownKeys
      BY <2>2, <2>5 DEF Disp!Next
    <2> QED
      BY <2>3, <2>4, <2>5
  <1>4. CASE UNCHANGED <<live, got>>
    <2>1. held' = held
      BY <1>4
    <2> QED
      BY <1>4, <2>1 DEF Disp!Next
  <1> QED
    BY <1>1, <1>2, <1>3, <1>4
    DEF Next, vars, SetVirtualCount, SetHashTagFunction, Disp!Next

(* If no key's names all collide with those of others, HashDispatcher is a *)
(* Dispatcher: Get returns a live transport, or null if there is none.     *)
THEOREM ConHashIsDispatcher == OwnPoint => (Spec => DispSpec)
  <1> SUFFICES ASSUME OwnPoint PROVE Spec => DispSpec
    OBVIOUS
  <1>1. Init => NamesInv
    BY DEF Init, NamesInv
  <1>2. TableInv /\ NamesInv /\ [Next]_vars => NamesInv'
    BY NamesStep
  <1>3. Spec => []NamesInv
    BY <1>1, <1>2, TableHolds, PTL DEF Spec
  <1>4. Init => Disp!Init
    BY DEF Init, Disp!Init
  <1>5. TableInv /\ NamesInv /\ [Next]_vars => [Disp!Next]_(Disp!dispVars)
    BY DispStep
  <1> QED
    BY <1>3, <1>4, <1>5, TableHolds, PTL DEF Spec, DispSpec, Disp!Spec
=============================================================================
