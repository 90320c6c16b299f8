------------------------ MODULE RobinDispatcherProofs ------------------------
(***************************************************************************)
(* Proofs about RobinDispatcher, for every number of threads, transports   *)
(* and values of size_t, and both kinds of build.                          *)
(***************************************************************************)
EXTENDS RobinDispatcher, SequenceTheorems, FiniteSetTheorems,
        WellFoundedInduction, TLAPS

-----------------------------------------------------------------------------
(* Arithmetic and lists *)

LEMMA ModSmall == \A a \in Nat, n \in Nat \ {0} : a < n => a % n = a
  OBVIOUS

LEMMA ModSelf == \A n \in Nat \ {0} : n % n = 0
  OBVIOUS

LEMMA LeastElement ==
  ASSUME NEW S \in SUBSET Nat, S # {}
  PROVE  \E p \in S : \A q \in S : p <= q
  <1> DEFINE Less == {ab \in Nat \X Nat : ab[1] < ab[2]}
  <1>1. IsWellFoundedOn(Less, Nat)
    BY NatLessThanWellFounded DEF OpToRel
  <1>2. \E p \in S : \A q \in S : ~(<<q, p>> \in Less)
    <2> HIDE DEF Less
    <2> QED
      BY <1>1, WFMin, Zenon
  <1>3. PICK p \in S : \A q \in S : ~(<<q, p>> \in Less)
    BY <1>2
  <1>4. \A q \in S : q \in Nat /\ p \in Nat /\ ~(q < p)
    BY <1>3
  <1> QED
    BY <1>4

(* Without takes out one occurrence of t, at some place f.                 *)
LEMMA WithoutShape ==
  ASSUME NEW list \in Seq(Tp), NEW t, \E i \in 1..Len(list) : list[i] = t
  PROVE  \E f \in 1..Len(list) :
           /\ list[f] = t
           /\ Without(list, t) \in Seq(Tp)
           /\ Len(Without(list, t)) = Len(list) - 1
           /\ \A i \in 1..(Len(list) - 1) :
                Without(list, t)[i] = IF i < f THEN list[i] ELSE list[i + 1]
  <1> DEFINE first == CHOOSE i \in DOMAIN list :
                        /\ list[i] = t
                        /\ \A j \in 1..(i - 1) : list[j] # t
             S == {i \in 1..Len(list) : list[i] = t}
             n == Len(list)
  <1>1. n \in Nat /\ DOMAIN list = 1..n
    OBVIOUS
  <1>2. \E p \in S : \A q \in S : p <= q
    <2>1. S \in SUBSET Nat /\ S # {}
      BY <1>1
    <2> HIDE DEF S
    <2> QED
      BY <2>1, LeastElement
  <1>3. \E p \in DOMAIN list : list[p] = t /\ \A j \in 1..(p - 1) : list[j] # t
    BY <1>1, <1>2
  <1>4. first \in DOMAIN list /\ list[first] = t
    BY <1>3
  <1> HIDE DEF first
  <1>5. Without(list, t) = SubSeq(list, 1, first - 1) \o SubSeq(list, first + 1, n)
    BY DEF Without, first
  <1> DEFINE a == SubSeq(list, 1, first - 1)
             b == SubSeq(list, first + 1, n)
  <1>6. /\ a \in Seq(Tp) /\ Len(a) = first - 1
        /\ \A i \in 1..(first - 1) : a[i] = list[i]
    <2>1. first \in 1..n /\ \A i \in 1..(first - 1) : list[i] \in Tp
      BY <1>1, <1>4
    <2> QED
      BY <1>1, <2>1, SubSeqProperties
  <1>7. /\ b \in Seq(Tp) /\ Len(b) = n - first
        /\ \A i \in 1..(n - first) : b[i] = list[first + i]
    <2>1. first \in 1..n /\ \A i \in (first + 1)..n : list[i] \in Tp
      BY <1>1, <1>4
    <2>2. first + 1 \in Int /\ n \in Int
      BY <1>1, <2>1
    <2> DEFINE m == first + 1
    <2>3. /\ b \in Seq(Tp) /\ Len(b) = IF m <= n THEN n - m + 1 ELSE 0
          /\ \A i \in 1..(n - m + 1) : b[i] = list[m + i - 1]
      <3> HIDE DEF n
      <3> QED
        BY <2>1, <2>2, SubSeqProperties
    <2> HIDE DEF b, n
    <2>4. Len(b) = n - first
      BY <1>1, <2>1, <2>3
    <2>5. \A i \in 1..(n - first) : b[i] = list[first + i]
      BY <1>1, <2>1, <2>3
    <2> QED
      BY <2>3, <2>4, <2>5
  <1> HIDE DEF a, b, n
  <1>8. /\ a \o b \in Seq(Tp) /\ Len(a \o b) = n - 1
        /\ \A i \in 1..(n - 1) : (a \o b)[i] = IF i < first THEN list[i] ELSE list[i + 1]
    <2>1. first \in 1..n
      BY <1>1, <1>4
    <2>2. /\ a \o b \in Seq(Tp) /\ Len(a \o b) = Len(a) + Len(b)
          /\ \A i \in 1..(Len(a) + Len(b)) :
               (a \o b)[i] = IF i <= Len(a) THEN a[i] ELSE b[i - Len(a)]
      BY <1>6, <1>7, ConcatProperties
    <2> QED
      BY <1>1, <1>6, <1>7, <2>1, <2>2
  <1> QED
    BY <1>1, <1>4, <1>5, <1>8 DEF a, b, n

(* A function that is one more, or one less, at t.                         *)
LEMMA OneMore ==
  ASSUME NEW S, NEW f \in [S -> Nat], NEW t \in S, NEW g,
         g = [u \in S |-> f[u] + (IF u = t THEN 1 ELSE 0)]
  PROVE  g = [f EXCEPT ![t] = @ + 1]
  <1> DEFINE h == [f EXCEPT ![t] = @ + 1]
  <1>1. DOMAIN h = S /\ h = [u \in S |-> h[u]]
    OBVIOUS
  <1>2. \A u \in S : h[u] = f[u] + (IF u = t THEN 1 ELSE 0)
    OBVIOUS
  <1> HIDE DEF h
  <1>3. h = [u \in S |-> f[u] + (IF u = t THEN 1 ELSE 0)]
    BY <1>1, <1>2
  <1> QED
    BY <1>3 DEF h

LEMMA OneLess ==
  ASSUME NEW S, NEW f \in [S -> Nat], NEW t \in S, NEW g,
         g = [u \in S |-> f[u] - (IF u = t THEN 1 ELSE 0)]
  PROVE  g = [f EXCEPT ![t] = @ - 1]
  <1> DEFINE h == [f EXCEPT ![t] = @ - 1]
  <1>1. DOMAIN h = S /\ h = [u \in S |-> h[u]]
    OBVIOUS
  <1>2. \A u \in S : h[u] = f[u] - (IF u = t THEN 1 ELSE 0)
    OBVIOUS
  <1> HIDE DEF h
  <1>3. h = [u \in S |-> f[u] - (IF u = t THEN 1 ELSE 0)]
    BY <1>1, <1>2
  <1> QED
    BY <1>3 DEF h

-----------------------------------------------------------------------------
(* Where a Get is *)

(* The types; a Get that has looked at the list keeps writers out.         *)
TypeInv ==
  /\ TypeOK
  /\ reg \in [Getter -> 0..(IdxMod - 1)]
  /\ \A g \in Getter : pc[g] # "idle" => tpList # <<>>
  /\ \A g \in Getter : ~reload => pc[g] \notin {"rem", "put"}

(* Which element a Get will take, and that it is in the list if the build  *)
(* does not load robin_idx_ again or no other Get can move it.             *)
PickInv ==
  /\ ~raced => \A g, h \in Getter : pc[g] # "idle" /\ pc[h] # "idle" => g = h
  /\ \A g \in Getter : pc[g] = "put" => reg[g] < Len(tpList)
  /\ \A g \in Getter : pc[g] = "pick" /\ ~(reload /\ raced) => Index(g) < Len(tpList)

LEMMA ListLength ==
  ASSUME TypeInv
  PROVE  /\ Len(tpList) \in Nat /\ Len(tpList) < IdxMod /\ IdxMod \in Nat \ {0}
         /\ tpList # <<>> <=> Len(tpList) > 0
  <1>1. tpList \in Seq(Tp) /\ Len(tpList) <= MaxLen
    BY DEF TypeInv, TypeOK
  <1> QED
    BY <1>1, RobinAssumption

LEMMA CountTypes ==
  ASSUME TypeInv, NEW i \in Position
  PROVE  Count(i) \in [Position -> Nat]
  <1> DEFINE more == [served EXCEPT ![i] = IF @ < 2 THEN @ + 1 ELSE @]
  <1>1. more \in [Position -> Nat]
    BY DEF TypeInv, TypeOK
  <1> HIDE DEF more
  <1>2. (\A j \in Position : more[j] > 0) => [j \in Position |-> more[j] - 1] \in [Position -> Nat]
    BY <1>1
  <1>3. Count(i) = IF \A j \in Position : more[j] > 0
                   THEN [j \in Position |-> more[j] - 1] ELSE more
    BY DEF Count, more
  <1> QED
    BY <1>1, <1>2, <1>3

(* The element that Get steps on to.                                       *)
NextOf(p) == ((p + 1) % IdxMod) % Len(tpList)

LEMMA NextOfRange ==
  ASSUME TypeInv, tpList # <<>>, NEW p \in 0..(IdxMod - 1)
  PROVE  /\ (p + 1) % IdxMod \in 0..(IdxMod - 1)
         /\ NextOf(p) \in 0..(Len(tpList) - 1)
         /\ NextOf(p) \in 0..(IdxMod - 1)
         /\ p < Len(tpList) => NextOf(p) = IF p + 1 < Len(tpList) THEN p + 1 ELSE 0
  <1> DEFINE n == Len(tpList)
             a == (p + 1) % IdxMod
  <1>1. n \in Nat \ {0} /\ n < IdxMod /\ IdxMod \in Nat \ {0} /\ p \in Nat
    BY ListLength
  <1>2. a \in 0..(IdxMod - 1)
    <2>1. p + 1 \in Nat
      BY <1>1
    <2> QED
      BY <1>1, <2>1
  <1> HIDE DEF n
  <1>3. a % n \in 0..(n - 1)
    <2>1. a \in Nat
      BY <1>1, <1>2
    <2> HIDE DEF a
    <2> QED
      BY <1>1, <2>1
  <1>4. p < n => a = p + 1
    BY <1>1, ModSmall
  <1>5. ASSUME p < n PROVE a % n = IF p + 1 < n THEN p + 1 ELSE 0
    BY <1>1, <1>4, <1>5, ModSmall, ModSelf
  <1> HIDE DEF n, a
  <1> QED
    BY <1>1, <1>2, <1>3, <1>5 DEF NextOf, n, a

LEMMA TypeInit == Init => TypeInv
  <1> SUFFICES ASSUME Init PROVE TypeInv
    OBVIOUS
  <1>1. 0 \in 0..(IdxMod - 1) /\ 0 <= MaxLen
    BY RobinAssumption
  <1>2. tpList \in Seq(Tp) /\ Len(tpList) = 0
    BY DEF Init
  <1>3. served \in [Position -> Nat]
    BY DEF Init, Position
  <1> QED
    BY <1>1, <1>2, <1>3 DEF Init, TypeInv, TypeOK

LEMMA AddTypes ==
  ASSUME TypeInv, NEW t \in Tp, Add(t)
  PROVE  TypeInv'
  <1>1. /\ tpList' \in Seq(Tp) /\ Len(tpList') = Len(tpList) + 1
        /\ Len(tpList') <= MaxLen
    <2>1. tpList \in Seq(Tp) /\ tpList' = Append(tpList, t) /\ Len(tpList) < MaxLen
      BY DEF Add, TypeInv, TypeOK
    <2> QED
      BY <2>1, RobinAssumption
  <1>2. served' \in [Position' -> Nat]
    BY <1>1 DEF Add, NoServed, Position
  <1> QED
    BY <1>1, <1>2 DEF Add, NoReader, TypeInv, TypeOK

LEMMA DelShape ==
  ASSUME TypeInv, NEW t \in Tp, Del(t)
  PROVE  \E f \in Position :
           /\ tpList[f] = t
           /\ tpList' \in Seq(Tp) /\ Len(tpList') = Len(tpList) - 1
           /\ \A i \in 1..(Len(tpList) - 1) :
                tpList'[i] = IF i < f THEN tpList[i] ELSE tpList[i + 1]
  <1>1. /\ tpList \in Seq(Tp) /\ tpList' = Without(tpList, t)
        /\ \E i \in 1..Len(tpList) : tpList[i] = t
    BY DEF Del, TypeInv, TypeOK, Position
  <1> QED
    BY <1>1, WithoutShape DEF Position

LEMMA DelTypes ==
  ASSUME TypeInv, NEW t \in Tp, Del(t)
  PROVE  TypeInv'
  <1>1. tpList' \in Seq(Tp) /\ Len(tpList') = Len(tpList) - 1
    BY DelShape
  <1>2. served' \in [Position' -> Nat] /\ Len(tpList') <= MaxLen
    BY <1>1, ListLength, RobinAssumption DEF Del, NoServed, Position, TypeInv,
       TypeOK
  <1> QED
    BY <1>1, <1>2 DEF Del, NoReader, TypeInv, TypeOK

LEMMA TypeStep == TypeInv /\ [Next]_vars => TypeInv'
  <1> SUFFICES ASSUME TypeInv, [Next]_vars PROVE TypeInv'
    OBVIOUS
  <1>1. ASSUME NEW t \in Tp, Add(t) PROVE TypeInv'
    BY <1>1, AddTypes
  <1>2. ASSUME NEW t \in Tp, Del(t) PROVE TypeInv'
    BY <1>2, DelTypes
  <1> USE DEF TypeInv, TypeOK, Position
  <1>3. ASSUME NEW g \in Getter, GetEmpty(g) PROVE TypeInv'
    BY <1>3 DEF GetEmpty
  <1>4. ASSUME NEW g \in Getter, GetLoad(g) PROVE TypeInv'
    BY <1>4, RobinAssumption DEF GetLoad, NoReader
  <1>5. ASSUME NEW g \in Getter, GetIncrement(g) PROVE TypeInv'
    <2>1. tpList # <<>> /\ reg[g] \in 0..(IdxMod - 1)
      BY <1>5 DEF GetIncrement
    <2>2. robinIdx' \in 0..(IdxMod - 1)
      BY <1>5, <2>1, NextOfRange DEF GetIncrement
    <2> QED
      BY <1>5, <2>2 DEF GetIncrement
  <1>6. ASSUME NEW g \in Getter, GetRemainder(g) PROVE TypeInv'
    <2>1. robinIdx % Len(tpList) \in 0..(IdxMod - 1)
      <3> DEFINE n == Len(tpList)
      <3>1. n \in Nat \ {0} /\ n < IdxMod /\ IdxMod \in Nat /\ robinIdx \in Nat
        BY <1>6, ListLength DEF GetRemainder
      <3> HIDE DEF n
      <3>2. robinIdx % n \in 0..(n - 1)
        BY <3>1
      <3> QED
        BY <3>1, <3>2 DEF n
    <2>2. reload
      BY <1>6 DEF GetRemainder
    <2> QED
      BY <1>6, <2>1, <2>2 DEF GetRemainder
  <1>7. ASSUME NEW g \in Getter, GetPut(g) PROVE TypeInv'
    BY <1>7 DEF GetPut
  <1>8. ASSUME NEW g \in Getter, GetAdvance(g) PROVE TypeInv'
    <2>1. NextOf(reg[g]) \in 0..(IdxMod - 1)
      BY <1>8, NextOfRange DEF GetAdvance
    <2> QED
      BY <1>8, <2>1 DEF GetAdvance, NextOf
  <1>9. ASSUME NEW g \in Getter, GetPick(g) PROVE TypeInv'
    <2>1. 0 \in 0..(IdxMod - 1)
      BY ListLength
    <2>2. Index(g) \in Nat
      BY DEF Index
    <2>3. CASE Index(g) < Len(tpList)
      <3>1. Index(g) + 1 \in Position
        BY <2>2, <2>3, ListLength
      <3>2. served' \in [Position -> Nat] /\ got' \in Tp
        BY <1>9, <2>3, <3>1, CountTypes DEF GetPick
      <3> QED
        BY <1>9, <2>1, <3>2 DEF GetPick
    <2>4. CASE ~(Index(g) < Len(tpList))
      BY <1>9, <2>1, <2>4 DEF GetPick
    <2> QED
      BY <2>3, <2>4
  <1>10. CASE UNCHANGED vars
    BY <1>10 DEF vars
  <1> QED
    BY <1>1, <1>2, <1>3, <1>4, <1>5, <1>6, <1>7, <1>8, <1>9, <1>10
    DEF Next, GetStep

(* Every variable keeps its type; with it, robin_idx_ stays in size_t and  *)
(* no element is taken from an empty list.                                 *)
THEOREM TypesHold == Spec => []TypeOK
  <1>1. TypeInv => TypeOK
    BY DEF TypeInv
  <1> QED
    BY <1>1, TypeInit, TypeStep, PTL DEF Spec

LEMMA TypesAlways == Spec => []TypeInv
  BY TypeInit, TypeStep, PTL DEF Spec

-----------------------------------------------------------------------------
(* The element that Get takes *)

LEMMA PickStep == TypeInv /\ PickInv /\ [Next]_vars => PickInv'
  <1> SUFFICES ASSUME TypeInv, PickInv, [Next]_vars PROVE PickInv'
    OBVIOUS
  <1> USE DEF PickInv, Index
  <1>0. /\ pc \in [Getter -> {"idle", "inc", "rem", "put", "pick"}]
        /\ reg \in [Getter -> 0..(IdxMod - 1)]
        /\ raced \in BOOLEAN /\ reload \in BOOLEAN
    BY DEF TypeInv, TypeOK
  <1>1. ASSUME NEW t \in Tp, Add(t) PROVE PickInv'
    BY <1>1 DEF Add, NoReader
  <1>2. ASSUME NEW t \in Tp, Del(t) PROVE PickInv'
    BY <1>2 DEF Del, NoReader
  <1>3. ASSUME NEW g \in Getter, GetEmpty(g) PROVE PickInv'
    BY <1>3 DEF GetEmpty
  <1>4. ASSUME NEW g \in Getter, GetLoad(g) PROVE PickInv'
    BY <1>0, <1>4 DEF GetLoad, NoReader
  <1>5. ASSUME NEW g \in Getter, GetIncrement(g) PROVE PickInv'
    BY <1>0, <1>5 DEF GetIncrement
  <1>6. ASSUME NEW g \in Getter, GetRemainder(g) PROVE PickInv'
    <2>1. robinIdx % Len(tpList) < Len(tpList)
      <3> DEFINE n == Len(tpList)
      <3>1. n \in Nat \ {0} /\ robinIdx \in Nat
        BY <1>6, ListLength DEF GetRemainder, TypeInv, TypeOK
      <3> HIDE DEF n
      <3>2. robinIdx % n < n
        BY <3>1
      <3> QED
        BY <3>2 DEF n
    <2> QED
      BY <1>0, <1>6, <2>1 DEF GetRemainder
  <1>7. ASSUME NEW g \in Getter, GetPut(g) PROVE PickInv'
    BY <1>0, <1>7 DEF GetPut
  <1>8. ASSUME NEW g \in Getter, GetAdvance(g) PROVE PickInv'
    <2>1. NextOf(reg[g]) < Len(tpList)
      BY <1>0, <1>8, NextOfRange, ListLength DEF GetAdvance, TypeInv
    <2> QED
      BY <1>0, <1>8, <2>1 DEF GetAdvance, NextOf
  <1>9. ASSUME NEW g \in Getter, GetPick(g) PROVE PickInv'
    BY <1>0, <1>9 DEF GetPick
  <1>10. CASE UNCHANGED vars
    BY <1>10 DEF vars
  <1> QED
    BY <1>1, <1>2, <1>3, <1>4, <1>5, <1>6, <1>7, <1>8, <1>9, <1>10
    DEF Next, GetStep

LEMMA PickAlways == Spec => []PickInv
  <1>1. Init => PickInv
    BY DEF Init, PickInv
  <1> QED
    BY <1>1, PickStep, TypesAlways, PTL DEF Spec

-----------------------------------------------------------------------------
(* RobinDispatcher implements Dispatcher *)

(* Where t stands in a list.                                               *)
Places(list, t) == {i \in 1..Len(list) : list[i] = t}

LEMMA PlacesFinite ==
  ASSUME NEW list \in Seq(Tp), NEW t
  PROVE  /\ IsFiniteSet(Places(list, t)) /\ Cardinality(Places(list, t)) \in Nat
         /\ Cardinality(Places(list, t)) > 0 <=> \E i \in 1..Len(list) : list[i] = t
  <1>1. Len(list) \in Nat
    OBVIOUS
  <1>2. IsFiniteSet(1..Len(list))
    BY <1>1, FS_Interval
  <1>3. IsFiniteSet(Places(list, t))
    BY <1>2, FS_Subset DEF Places
  <1>4. Cardinality(Places(list, t)) \in Nat
    BY <1>3, FS_CardinalityType
  <1>5. Cardinality(Places(list, t)) = 0 <=> Places(list, t) = {}
    BY <1>3, FS_EmptySet
  <1> QED
    BY <1>3, <1>4, <1>5 DEF Places

LEMMA PlacesOfAppend ==
  ASSUME NEW list \in Seq(Tp), NEW t \in Tp, NEW u
  PROVE  Cardinality(Places(Append(list, t), u))
           = Cardinality(Places(list, u)) + (IF u = t THEN 1 ELSE 0)
  <1> DEFINE n == Len(list)
             new == Append(list, t)
  <1>1. /\ n \in Nat /\ Len(new) = n + 1 /\ new[n + 1] = t
        /\ \A i \in 1..n : new[i] = list[i]
    BY AppendProperties
  <1>2. IsFiniteSet(Places(list, u)) /\ Cardinality(Places(list, u)) \in Nat
    BY PlacesFinite
  <1> HIDE DEF n, new
  <1>3. Places(list, u) = {i \in 1..n : list[i] = u}
    BY DEF Places, n
  <1>4. Places(new, u) = {i \in 1..(n + 1) : new[i] = u}
    BY <1>1 DEF Places
  <1>5. CASE u = t
    <2>1. Places(new, u) = Places(list, u) \cup {n + 1}
      BY <1>1, <1>3, <1>4, <1>5
    <2>2. n + 1 \notin Places(list, u)
      BY <1>1, <1>3
    <2> QED
      BY <1>2, <1>5, <2>1, <2>2, FS_AddElement DEF new
  <1>6. CASE u # t
    <2>1. Places(new, u) = Places(list, u)
      BY <1>1, <1>3, <1>4, <1>6
    <2> QED
      BY <1>2, <1>6, <2>1 DEF new
  <1> QED
    BY <1>5, <1>6

(* The places of u in a list without its element f, as those behind f move *)
(* up by one.                                                              *)
LEMMA PlacesOfWithout ==
  ASSUME NEW list \in Seq(Tp), NEW new \in Seq(Tp), NEW f \in 1..Len(list),
         Len(new) = Len(list) - 1,
         \A i \in 1..(Len(list) - 1) :
           new[i] = IF i < f THEN list[i] ELSE list[i + 1],
         NEW u
  PROVE  Cardinality(Places(new, u))
           = Cardinality(Places(list, u)) - (IF u = list[f] THEN 1 ELSE 0)
  <1> DEFINE n == Len(list)
             S == Places(new, u)
             T == Places(list, u) \ {f}
             up == [i \in S |-> IF i < f THEN i ELSE i + 1]
  <1>1. n \in Nat /\ f \in Nat /\ f \in 1..n
    OBVIOUS
  <1>2. /\ IsFiniteSet(S) /\ IsFiniteSet(Places(list, u))
        /\ Cardinality(Places(list, u)) \in Nat
    BY PlacesFinite
  <1>3. /\ S = {i \in 1..(n - 1) : new[i] = u}
        /\ Places(list, u) = {i \in 1..n : list[i] = u}
        /\ \A i \in 1..(n - 1) : new[i] = IF i < f THEN list[i] ELSE list[i + 1]
    BY DEF Places
  <1> HIDE DEF S, n
  <1>4. up \in [S -> T]
    BY <1>1, <1>3
  <1>5. \A i, j \in S : up[i] = up[j] => i = j
    BY <1>1, <1>3
  <1>6. \A k \in T : \E i \in S : up[i] = k
    <2> SUFFICES ASSUME NEW k \in T PROVE \E i \in S : up[i] = k
      OBVIOUS
    <2>1. k \in 1..n /\ k # f /\ list[k] = u
      BY <1>3
    <2>2. CASE k < f
      <3>1. k \in S
        BY <1>1, <1>3, <2>1, <2>2
      <3> QED
        BY <2>2, <3>1
    <2>3. CASE f < k
      <3>1. k - 1 \in S /\ ~(k - 1 < f) /\ (k - 1) + 1 = k
        BY <1>1, <1>3, <2>1, <2>3
      <3> QED
        BY <3>1
    <2> QED
      BY <1>1, <2>1, <2>2, <2>3
  <1> HIDE DEF T, up
  <1>7. ExistsBijection(S, T)
    BY <1>4, <1>5, <1>6
    DEF ExistsBijection, Bijection, Injection, Surjection, IsInjective
  <1>8. Cardinality(T) = Cardinality(S)
    BY <1>2, <1>7, FS_Bijection
  <1>9. Cardinality(T) = IF f \in Places(list, u) THEN Cardinality(Places(list, u)) - 1
                         ELSE Cardinality(Places(list, u))
    BY <1>2, FS_RemoveElement DEF T
  <1>10. f \in Places(list, u) <=> u = list[f]
    BY <1>1, <1>3
  <1> QED
    BY <1>2, <1>8, <1>9, <1>10 DEF S

Held == [t \in Tp |-> Cardinality({i \in Position : tpList[i] = t})]

LEMMA HeldPlaces ==
  ASSUME TypeInv
  PROVE  /\ \A t \in Tp : Held[t] = Cardinality(Places(tpList, t)) /\ Held[t] \in Nat
         /\ \A t \in Tp : Held[t] > 0 <=> \E i \in Position : tpList[i] = t
  <1>1. tpList \in Seq(Tp)
    BY DEF TypeInv, TypeOK
  <1>2. \A t \in Tp : Held[t] = Cardinality(Places(tpList, t))
    BY DEF Held, Places, Position
  <1> QED
    BY <1>1, <1>2, PlacesFinite DEF Position

LEMMA DispStep ==
  ASSUME TypeInv, TypeInv', PickInv, [Next]_vars
  PROVE  [Disp!Next]_(Disp!dispVars)
  <1>1. ASSUME NEW t \in Tp, Add(t) PROVE Disp!Add(t)
    <2>1. tpList \in Seq(Tp) /\ tpList' = Append(tpList, t) /\ got' = got
      BY <1>1 DEF Add, TypeInv, TypeOK
    <2>2. \A u \in Tp : Cardinality(Places(tpList', u))
                          = Cardinality(Places(tpList, u)) + (IF u = t THEN 1 ELSE 0)
      BY <2>1, PlacesOfAppend
    <2>3. \A u \in Tp : /\ Held'[u] = Held[u] + (IF u = t THEN 1 ELSE 0)
                        /\ Held[u] \in Nat
      BY <2>2, HeldPlaces DEF Held, Places, Position
    <2>4. Held' = [u \in Tp |-> Held[u] + (IF u = t THEN 1 ELSE 0)]
      BY <2>3 DEF Held
    <2>5. Held \in [Tp -> Nat]
      BY <2>3 DEF Held
    <2>6. Held' = [Held EXCEPT ![t] = @ + 1]
      BY <2>4, <2>5, OneMore
    <2> QED
      BY <2>1, <2>6 DEF Disp!Add, Held
  <1>2. ASSUME NEW t \in Tp, Del(t) PROVE Disp!Del(t)
    <2>1. PICK f \in Position :
           /\ tpList[f] = t
           /\ tpList' \in Seq(Tp) /\ Len(tpList') = Len(tpList) - 1
           /\ \A i \in 1..(Len(tpList) - 1) :
                tpList'[i] = IF i < f THEN tpList[i] ELSE tpList[i + 1]
      BY <1>2, DelShape
    <2>2. tpList \in Seq(Tp) /\ got' = got
      BY <1>2 DEF Del, TypeInv, TypeOK
    <2>3. \A u \in Tp : Cardinality(Places(tpList', u))
                          = Cardinality(Places(tpList, u)) - (IF u = t THEN 1 ELSE 0)
      BY <2>1, <2>2, PlacesOfWithout DEF Position
    <2>4. \A u \in Tp : /\ Held'[u] = Held[u] - (IF u = t THEN 1 ELSE 0)
                        /\ Held[u] \in Nat
      BY <2>3, HeldPlaces DEF Held, Places, Position
    <2>5. Held' = [u \in Tp |-> Held[u] - (IF u = t THEN 1 ELSE 0)]
      BY <2>4 DEF Held
    <2>6. Held \in [Tp -> Nat]
      BY <2>4 DEF Held
    <2>7. Held' = [Held EXCEPT ![t] = @ - 1]
      BY <2>5, <2>6, OneLess
    <2>8. Held[t] > 0
      BY <2>1, HeldPlaces
    <2> QED
      BY <2>2, <2>7, <2>8 DEF Disp!Del, Held
  <1>3. ASSUME NEW g \in Getter, GetEmpty(g) PROVE Disp!GetNone
    <2>1. tpList = <<>> /\ tpList' = tpList /\ got' = NoTp
      BY <1>3 DEF GetEmpty
    <2>2. Held' = Held
      BY <2>1 DEF Held, Position
    <2>3. \A t \in Tp : Held[t] = 0
      BY <2>1, HeldPlaces DEF Position
    <2> QED
      BY <2>1, <2>2, <2>3 DEF Disp!GetNone, Held
  <1>4. ASSUME NEW g \in Getter, GetPick(g) PROVE Disp!Get \/ (reload' /\ raced')
    <2>1. UNCHANGED <<tpList, reload, raced>>
      BY <1>4 DEF GetPick
    <2>2. CASE ~(reload /\ raced)
      <3>1. Index(g) < Len(tpList) /\ Index(g) \in Nat
        BY <1>4, <2>2 DEF PickInv, GetPick, Index, TypeInv, TypeOK
      <3>2. Index(g) + 1 \in Position /\ got' = tpList[Index(g) + 1]
        BY <1>4, <3>1, ListLength DEF GetPick, Position
      <3>3. got' \in Tp
        BY <3>2 DEF TypeInv, TypeOK, Position
      <3>4. got' \in {t \in Tp : Held[t] > 0}
        BY <3>2, <3>3, HeldPlaces
      <3>5. Held' = Held
        BY <2>1 DEF Held, Position
      <3> QED
        BY <3>4, <3>5 DEF Disp!Get, Held
    <2> QED
      BY <2>1, <2>2
  <1>5. CASE UNCHANGED <<tpList, got>>
    <2>1. Held' = Held
      BY <1>5 DEF Held, Position
    <2> QED
      BY <1>5, <2>1 DEF Disp!Next, Held
  <1> QED
    BY <1>1, <1>2, <1>3, <1>4, <1>5
    DEF Next, GetStep, GetLoad, GetIncrement, GetRemainder, GetPut, GetAdvance, vars,
        Disp!Next

(* In an optimised build whatever the Gets race on, and in another one as  *)
(* long as they do not overlap, Get returns a transport of the list, or    *)
(* null if it is empty (dispatcher.cpp, RobinDispatcher::Get).             *)
THEOREM RobinIsDispatcher == Spec => DispSpec
  <1>1. Init => Disp!Init
    <2> SUFFICES ASSUME Init PROVE Disp!Init
      OBVIOUS
    <2>1. \A t \in Tp : Held[t] = 0
      BY TypeInit, HeldPlaces DEF Init, Position
    <2>2. Held = [t \in Tp |-> 0]
      BY <2>1 DEF Held
    <2>3. (~(reload /\ raced)) \in BOOLEAN
      OBVIOUS
    <2> QED
      BY <2>2, <2>3 DEF Init, Disp!Init, Held
  <1>2. TypeInv /\ TypeInv' /\ PickInv /\ [Next]_vars => [Disp!Next]_(Disp!dispVars)
    BY DispStep
  <1> QED
    BY <1>1, <1>2, TypesAlways, PickAlways, PTL DEF Spec, DispSpec, Disp!Spec

-----------------------------------------------------------------------------
(* Turns *)

(* Of n positions, i was returned by one of the last k Gets, of which the  *)
(* last returned the element with index p.                                 *)
Recent(i, p, k, n) ==
  IF k <= p + 1 THEN p + 1 - k < i /\ i <= p + 1
  ELSE i <= p + 1 \/ n + p + 1 - k < i

(* The k positions up to p have had one Get more than the others.          *)
InTurn(p, n, counts) ==
  \E k \in 0..n :
    /\ k = 0 \/ (k < n /\ p < n)
    /\ counts = [i \in 1..n |-> IF Recent(i, p, k, n) THEN 1 ELSE 0]

(* Count.                                                                  *)
Serve(counts, i, n) ==
  LET more == [counts EXCEPT ![i] = IF @ < 2 THEN @ + 1 ELSE @]
  IN IF \A j \in 1..n : more[j] > 0
     THEN [j \in 1..n |-> more[j] - 1] ELSE more

Turns(p) == InTurn(p, Len(tpList), served)

(* How far the one Get under way has come from index p.                    *)
AtTurn(g, p) ==
  /\ Turns(p)
  /\ \/ pc[g] = "inc"  /\ reg[g] = p /\ robinIdx = p
     \/ pc[g] = "rem"  /\ robinIdx = (p + 1) % IdxMod
     \/ pc[g] = "put"  /\ reg[g] = NextOf(p)
     \/ pc[g] = "pick" /\ robinIdx = NextOf(p) /\ Index(g) = NextOf(p)

(* While no Gets overlap.                                                  *)
TurnInv ==
  ~raced =>
    /\ NoReader => Turns(robinIdx)
    /\ \A g \in Getter :
         pc[g] # "idle" => \E p \in 0..(IdxMod - 1) : AtTurn(g, p)

(* Nothing was served since the list last changed.                         *)
LEMMA FreshTurns ==
  ASSUME NEW p \in Nat, NEW n \in Nat, NEW counts, counts = [i \in 1..n |-> 0]
  PROVE  InTurn(p, n, counts)
  <1>1. \A i \in 1..n : ~Recent(i, p, 0, n)
    BY DEF Recent
  <1>2. counts = [i \in 1..n |-> IF Recent(i, p, 0, n) THEN 1 ELSE 0]
    BY <1>1
  <1> QED
    BY <1>2 DEF InTurn

LEMMA BumpAt ==
  ASSUME NEW n \in Nat, NEW s \in [1..n -> Nat], NEW q \in 0..(n - 1)
  PROVE  LET more == [s EXCEPT ![q + 1] = IF @ < 2 THEN @ + 1 ELSE @]
         IN  /\ more \in [1..n -> Nat]
             /\ \A i \in 1..n : more[i] = IF i = q + 1
                                         THEN IF s[i] < 2 THEN s[i] + 1 ELSE s[i]
                                         ELSE s[i]
  <1> DEFINE k == q + 1
  <1>1. k \in 1..n
    OBVIOUS
  <1> HIDE DEF k
  <1>2. LET more == [s EXCEPT ![k] = IF @ < 2 THEN @ + 1 ELSE @]
        IN  /\ more \in [1..n -> Nat]
            /\ \A i \in 1..n : more[i] = IF i = k
                                        THEN IF s[i] < 2 THEN s[i] + 1 ELSE s[i]
                                        ELSE s[i]
    BY <1>1
  <1> QED
    BY <1>2 DEF k

(* When the next element is served, one more position is recent, or all of *)
(* them have had their turn.                                               *)
LEMMA NextTurn ==
  ASSUME NEW n \in Nat \ {0}, NEW p \in Nat, NEW q \in 0..(n - 1),
         p < n => q = IF p + 1 < n THEN p + 1 ELSE 0,
         NEW counts \in [1..n -> Nat], InTurn(p, n, counts)
  PROVE  InTurn(q, n, Serve(counts, q + 1, n))
  <1> DEFINE more == [counts EXCEPT ![q + 1] = IF @ < 2 THEN @ + 1 ELSE @]
             new == Serve(counts, q + 1, n)
  <1>a. /\ more \in [1..n -> Nat]
        /\ \A i \in 1..n : more[i] = IF i = q + 1
                                    THEN IF counts[i] < 2 THEN counts[i] + 1 ELSE counts[i]
                                    ELSE counts[i]
    BY BumpAt
  <1>b. new = IF \A j \in 1..n : more[j] > 0
              THEN [j \in 1..n |-> more[j] - 1] ELSE more
    BY DEF Serve
  <1> HIDE DEF more, new
  <1>1. PICK k \in 0..n :
          /\ k = 0 \/ (k < n /\ p < n)
          /\ counts = [i \in 1..n |-> IF Recent(i, p, k, n) THEN 1 ELSE 0]
    BY DEF InTurn
  <1>2. \A i \in 1..n : Recent(i, q, k + 1, n) <=> i = q + 1 \/ Recent(i, p, k, n)
    <2> SUFFICES ASSUME NEW i \in 1..n
                 PROVE  Recent(i, q, k + 1, n) <=> i = q + 1 \/ Recent(i, p, k, n)
      OBVIOUS
    <2>1. CASE k = 0
      BY <2>1 DEF Recent
    <2>2. CASE k # 0 /\ p + 1 < n
      BY <1>1, <2>2 DEF Recent
    <2>3. CASE k # 0 /\ p + 1 = n
      BY <1>1, <2>3 DEF Recent
    <2> QED
      BY <1>1, <2>1, <2>2, <2>3
  <1>3. ~Recent(q + 1, p, k, n)
    BY <1>1 DEF Recent
  <1>4. q + 1 \in 1..n
    OBVIOUS
  <1>5. \A i \in 1..n : more[i] = IF Recent(i, q, k + 1, n) THEN 1 ELSE 0
    BY <1>1, <1>2, <1>3, <1>4, <1>a
  <1>6. more = [i \in 1..n |-> IF Recent(i, q, k + 1, n) THEN 1 ELSE 0]
    BY <1>5, <1>a
  <1>7. CASE k + 1 = n
    <2>1. \A i \in 1..n : Recent(i, q, k + 1, n)
      BY <1>7 DEF Recent
    <2>2. new = [i \in 1..n |-> 0]
      <3>1. \A i \in 1..n : more[i] = 1
        BY <1>5, <2>1
      <3>2. new = [j \in 1..n |-> more[j] - 1]
        BY <3>1, <1>b
      <3> QED
        BY <3>1, <3>2
    <2> QED
      BY <2>2, FreshTurns DEF new
  <1>8. CASE k + 1 < n
    <2> DEFINE r == IF q + 1 < n THEN q + 1 ELSE 0
    <2>1. r + 1 \in 1..n /\ ~Recent(r + 1, q, k + 1, n)
      BY <1>8 DEF Recent
    <2>2. new = more
      BY <1>5, <1>b, <2>1
    <2>3. k + 1 \in 0..n
      BY <1>8
    <2>4. new = [i \in 1..n |-> IF Recent(i, q, k + 1, n) THEN 1 ELSE 0]
      BY <1>6, <2>2
    <2>5. q < n
      OBVIOUS
    <2> DEFINE j == k + 1
    <2>6. /\ j \in 0..n /\ j < n /\ q < n
          /\ new = [i \in 1..n |-> IF Recent(i, q, j, n) THEN 1 ELSE 0]
      BY <1>8, <2>3, <2>4, <2>5, Zenon
    <2> HIDE DEF j
    <2> QED
      BY <2>6 DEF InTurn, new
  <1>9. k + 1 <= n
    BY <1>1
  <1> QED
    BY <1>7, <1>8, <1>9

LEMMA TurnStep == TypeInv /\ PickInv /\ TurnInv /\ [Next]_vars => TurnInv'
  <1> SUFFICES ASSUME TypeInv, PickInv, TurnInv, [Next]_vars PROVE TurnInv'
    OBVIOUS
  <1>0. /\ pc \in [Getter -> {"idle", "inc", "rem", "put", "pick"}]
        /\ reg \in [Getter -> 0..(IdxMod - 1)]
        /\ robinIdx \in 0..(IdxMod - 1)
        /\ raced \in BOOLEAN /\ reload \in BOOLEAN
    BY DEF TypeInv, TypeOK
  <1>1. ASSUME NoReader', InTurn(robinIdx', Len(tpList'), served') PROVE TurnInv'
    BY <1>1 DEF TurnInv, NoReader, Turns
  <1>2. ASSUME NEW t \in Tp, Add(t) PROVE TurnInv'
    <2>1. Len(tpList') = Len(tpList) + 1 /\ Len(tpList) \in Nat
      BY <1>2 DEF Add, TypeInv, TypeOK
    <2>2. served' = [i \in 1..Len(tpList') |-> 0] /\ robinIdx' = robinIdx
      BY <1>2, <2>1 DEF Add, NoServed
    <2>3. InTurn(robinIdx', Len(tpList'), served')
      BY <1>0, <2>1, <2>2, FreshTurns
    <2> QED
      BY <1>1, <1>2, <2>3 DEF Add, NoReader
  <1>3. ASSUME NEW t \in Tp, Del(t) PROVE TurnInv'
    <2>1. Len(tpList') = Len(tpList) - 1 /\ Len(tpList') \in Nat
      BY <1>3, DelShape DEF TypeInv, TypeOK, Position
    <2>2. served' = [i \in 1..Len(tpList') |-> 0] /\ robinIdx' = robinIdx
      BY <1>3, <2>1 DEF Del, NoServed
    <2>3. InTurn(robinIdx', Len(tpList'), served')
      BY <1>0, <2>1, <2>2, FreshTurns
    <2> QED
      BY <1>1, <1>3, <2>3 DEF Del, NoReader
  <1>4. ASSUME NEW g \in Getter, GetEmpty(g) PROVE TurnInv'
    BY <1>4 DEF GetEmpty, TurnInv, NoReader, AtTurn, Turns, NextOf, Index
  (* The other steps of a Get are those of the only one under way.         *)
  <1>5. ASSUME NEW g \in Getter, NEW p \in 0..(IdxMod - 1), AtTurn(g, p)',
               pc'[g] # "idle", ~raced' => \A h \in Getter : pc'[h] # "idle" => h = g
        PROVE  TurnInv'
    BY <1>5 DEF TurnInv, NoReader
  <1>6. ASSUME NEW g \in Getter, ~raced, pc[g] # "idle"
        PROVE  /\ \A h \in Getter : pc[h] # "idle" => h = g
               /\ \E p \in 0..(IdxMod - 1) : AtTurn(g, p)
    BY <1>6 DEF PickInv, TurnInv
  (* Loading is possible beside another Get, which makes them race.        *)
  <1>7. ASSUME NEW g \in Getter, GetLoad(g) PROVE TurnInv'
    <2>1. CASE raced'
      BY <2>1 DEF TurnInv
    <2>2. CASE ~raced'
      <3>1. NoReader /\ ~raced
        BY <1>0, <1>7, <2>2 DEF GetLoad
      <3>2. PICK p \in 0..(IdxMod - 1) : p = robinIdx
        BY <1>0
      <3>3. Turns(p)
        BY <3>1, <3>2 DEF TurnInv
      <3>4. AtTurn(g, p)'
        BY <1>0, <1>7, <3>2, <3>3 DEF GetLoad, AtTurn, Turns
      <3>5. pc'[g] # "idle" /\ \A h \in Getter : pc'[h] # "idle" => h = g
        BY <1>0, <1>7, <3>1 DEF GetLoad, NoReader
      <3> QED
        BY <1>5, <3>4, <3>5
    <2> QED
      BY <2>1, <2>2
  <1>8. ASSUME NEW g \in Getter, GetIncrement(g) PROVE TurnInv'
    <2> SUFFICES ASSUME ~raced PROVE TurnInv'
      BY <1>0, <1>8 DEF GetIncrement, TurnInv
    <2>1. /\ pc[g] # "idle"
          /\ \A h \in Getter : pc[h] # "idle" => h = g
      BY <1>6, <1>8 DEF GetIncrement
    <2>2. PICK p \in 0..(IdxMod - 1) : AtTurn(g, p)
      BY <1>6, <2>1
    <2>3. Turns(p)'
      BY <1>8, <2>2 DEF GetIncrement, AtTurn, Turns
    <2>4. AtTurn(g, p)'
      BY <1>0, <1>8, <2>2, <2>3 DEF GetIncrement, AtTurn, NextOf, Index
    <2>5. pc'[g] # "idle" /\ \A h \in Getter : pc'[h] # "idle" => h = g
      BY <1>0, <1>8, <2>1 DEF GetIncrement
    <2> QED
      BY <1>5, <2>4, <2>5
  <1>9. ASSUME NEW g \in Getter, GetRemainder(g) PROVE TurnInv'
    <2> SUFFICES ASSUME ~raced PROVE TurnInv'
      BY <1>0, <1>9 DEF GetRemainder, TurnInv
    <2>1. /\ pc[g] # "idle"
          /\ \A h \in Getter : pc[h] # "idle" => h = g
      BY <1>6, <1>9 DEF GetRemainder
    <2>2. PICK p \in 0..(IdxMod - 1) : AtTurn(g, p)
      BY <1>6, <2>1
    <2>3. Turns(p)'
      BY <1>9, <2>2 DEF GetRemainder, AtTurn, Turns
    <2>4. AtTurn(g, p)'
      BY <1>0, <1>9, <2>2, <2>3 DEF GetRemainder, AtTurn, NextOf, Index
    <2>5. pc'[g] # "idle" /\ \A h \in Getter : pc'[h] # "idle" => h = g
      BY <1>0, <1>9, <2>1 DEF GetRemainder
    <2> QED
      BY <1>5, <2>4, <2>5
  <1>10. ASSUME NEW g \in Getter, GetPut(g) PROVE TurnInv'
    <2> SUFFICES ASSUME ~raced PROVE TurnInv'
      BY <1>0, <1>10 DEF GetPut, TurnInv
    <2>1. /\ pc[g] # "idle"
          /\ \A h \in Getter : pc[h] # "idle" => h = g
      BY <1>6, <1>10 DEF GetPut
    <2>2. PICK p \in 0..(IdxMod - 1) : AtTurn(g, p)
      BY <1>6, <2>1
    <2>3. Turns(p)'
      BY <1>10, <2>2 DEF GetPut, AtTurn, Turns
    <2>4. AtTurn(g, p)'
      BY <1>0, <1>10, <2>2, <2>3 DEF GetPut, AtTurn, NextOf, Index
    <2>5. pc'[g] # "idle" /\ \A h \in Getter : pc'[h] # "idle" => h = g
      BY <1>0, <1>10, <2>1 DEF GetPut
    <2> QED
      BY <1>5, <2>4, <2>5
  <1>11. ASSUME NEW g \in Getter, GetAdvance(g) PROVE TurnInv'
    <2> SUFFICES ASSUME ~raced PROVE TurnInv'
      BY <1>0, <1>11 DEF GetAdvance, TurnInv
    <2>1. /\ pc[g] # "idle"
          /\ \A h \in Getter : pc[h] # "idle" => h = g
      BY <1>6, <1>11 DEF GetAdvance
    <2>2. PICK p \in 0..(IdxMod - 1) : AtTurn(g, p)
      BY <1>6, <2>1
    <2>3. Turns(p)'
      BY <1>11, <2>2 DEF GetAdvance, AtTurn, Turns
    <2>4. AtTurn(g, p)'
      BY <1>0, <1>11, <2>2, <2>3 DEF GetAdvance, AtTurn, NextOf, Index
    <2>5. pc'[g] # "idle" /\ \A h \in Getter : pc'[h] # "idle" => h = g
      BY <1>0, <1>11, <2>1 DEF GetAdvance
    <2> QED
      BY <1>5, <2>4, <2>5
  <1>12. ASSUME NEW g \in Getter, GetPick(g) PROVE TurnInv'
    <2> SUFFICES ASSUME ~raced PROVE TurnInv'
      BY <1>0, <1>12 DEF GetPick, TurnInv
    <2>1. /\ pc[g] # "idle" /\ tpList # <<>>
          /\ \A h \in Getter : pc[h] # "idle" => h = g
      BY <1>6, <1>12 DEF GetPick, TypeInv
    <2>2. PICK p \in 0..(IdxMod - 1) : AtTurn(g, p)
      BY <1>6, <2>1
    <2> DEFINE n == Len(tpList)
               q == NextOf(p)
    <2>3. /\ n \in Nat \ {0} /\ q \in 0..(n - 1) /\ p \in Nat
          /\ p < n => q = IF p + 1 < n THEN p + 1 ELSE 0
      BY <2>1, ListLength, NextOfRange
    <2>4. InTurn(p, n, served) /\ robinIdx = q /\ Index(g) = q
      BY <1>12, <2>2 DEF GetPick, AtTurn, Turns
    <2>5. served' = Count(q + 1) /\ robinIdx' = q /\ tpList' = tpList
      BY <1>12, <2>3, <2>4 DEF GetPick
    <2>6. served' = Serve(served, q + 1, n)
      BY <2>5 DEF Count, Serve, Position
    <2>7. served \in [1..n -> Nat]
      BY DEF TypeInv, TypeOK, Position
    <2>8. InTurn(q, n, served')
      <3> HIDE DEF n, q
      <3> QED
        BY <2>3, <2>4, <2>6, <2>7, NextTurn
    <2>9. NoReader'
      BY <1>0, <1>12, <2>1 DEF GetPick, NoReader
    <2> QED
      BY <1>1, <2>5, <2>8, <2>9
  <1>13. CASE UNCHANGED vars
    BY <1>13 DEF vars, TurnInv, NoReader, AtTurn, Turns, NextOf, Index
  <1> QED
    BY <1>2, <1>3, <1>4, <1>7, <1>8, <1>9, <1>10, <1>11, <1>12, <1>13
    DEF Next, GetStep

(* Since the list last changed, and as long as Gets do not overlap, no     *)
(* transport was returned twice more often than another, at whatever place *)
(* Del left robin_idx_, though size_t overflows (dispatcher.cpp).          *)
THEOREM TakesTurns == Spec => []Balanced
  <1>1. Init => TurnInv
    <2> SUFFICES ASSUME Init PROVE TurnInv
      OBVIOUS
    <2>1. served = [i \in 1..Len(tpList) |-> 0] /\ Len(tpList) \in Nat
      BY DEF Init
    <2> QED
      BY <2>1, FreshTurns DEF Init, TurnInv, Turns, NoReader
  <1>2. TurnInv /\ TypeInv => Balanced
    <2> SUFFICES ASSUME TurnInv, TypeInv, ~raced PROVE \A i \in Position : served[i] <= 1
      BY DEF Balanced
    <2>1. PICK p \in 0..(IdxMod - 1) : Turns(p)
      BY DEF TurnInv, NoReader, AtTurn, TypeInv, TypeOK
    <2> QED
      BY <2>1 DEF Turns, InTurn, Position
  <1> QED
    BY <1>1, <1>2, TurnStep, PickAlways, TypesAlways, PTL DEF Spec

=============================================================================
