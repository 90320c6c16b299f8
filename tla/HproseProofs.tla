----------------------------- MODULE HproseProofs -----------------------------
(***************************************************************************)
(* Proofs about HproseBuffer and Hprose, for integers of every width, all  *)
(* strings, lists nested to any depth, and all functions and methods.      *)
(***************************************************************************)
EXTENDS Hprose, SequenceTheorems, FiniteSetTheorems, WellFoundedInduction,
        TLAPS

-----------------------------------------------------------------------------
(* Induction and arithmetic *)

LEMMA LeastElement ==
  ASSUME NEW S \in SUBSET Nat, S # {}
  PROVE  \E p \in S : \A q \in S : p <= q
  <1> DEFINE Less == {ab \in Nat \X Nat : ab[1] < ab[2]}
  <1>1. IsWellFoundedOn(Less, Nat)
    BY NatLessThanWellFounded DEF OpToRel
  <1>2. \E p \in S : \A q \in S : ~(<<q, p>> \in Less)
    <2> HIDE DEF Less
    <2> QED
      BY <1>1, WFMin, Zenon
  <1>3. PICK p \in S : \A q \in S : ~(<<q, p>> \in Less)
    BY <1>2
  <1>4. \A q \in S : q \in Nat /\ p \in Nat /\ ~(q < p)
    BY <1>3
  <1> QED
    BY <1>4

(* Induction up to n over the members of a set.                            *)
LEMMA UpTo ==
  ASSUME NEW n \in Nat, NEW T, 0 \in T,
         \A i \in Nat : i < n /\ i \in T => i + 1 \in T
  PROVE  \A i \in 0..n : i \in T
  <1> DEFINE S == {i \in 0..n : i \notin T}
  <1>1. SUFFICES ASSUME S # {} PROVE FALSE
    OBVIOUS
  <1>2. S \in SUBSET Nat
    OBVIOUS
  <1>3. PICK p \in S : \A q \in S : p <= q
    <2> HIDE DEF S
    <2> QED
      BY <1>1, <1>2, LeastElement
  <1>4. p \in Nat /\ p # 0 /\ p <= n
    BY <1>3
  <1>5. p - 1 \notin S /\ p - 1 \in Nat /\ p - 1 < n
    BY <1>3, <1>4
  <1>6. p - 1 \in T
    BY <1>5, <1>4
  <1>7. (p - 1) + 1 = p /\ (p - 1) + 1 \in T
    BY <1>4, <1>5, <1>6
  <1> QED
    BY <1>3, <1>7

LEMMA Induction ==
  ASSUME NEW T, 0 \in T, \A n \in Nat : n \in T => n + 1 \in T
  PROVE  \A n \in Nat : n \in T
  <1> TAKE n \in Nat
  <1>1. \A i \in 0..n : i \in T
    BY UpTo
  <1> QED
    BY <1>1

LEMMA ModRange == \A a \in Int, m \in Nat \ {0} : a % m \in 0..(m - 1)
  OBVIOUS

LEMMA ModSmall == \A a \in Int, m \in Nat \ {0} : 0 <= a /\ a < m => a % m = a
  OBVIOUS

LEMMA ModOver ==
  \A a \in Int, m \in Nat \ {0} : m <= a /\ a < 2 * m => a % m = a - m
  OBVIOUS

LEMMA ModUnder ==
  \A a \in Int, m \in Nat \ {0} : -m <= a /\ a < 0 => a % m = a + m
  OBVIOUS

-----------------------------------------------------------------------------
(* Characters *)

Scan(str, scan) ==
  [i \in 0..Len(str) |->
     IF i = 0 THEN [chars |-> 0, skip |-> 0]
     ELSE IF scan[i - 1].skip > 0
     THEN [chars |-> scan[i - 1].chars, skip |-> scan[i - 1].skip - 1]
     ELSE [chars |-> scan[i - 1].chars + 1, skip |-> LeadingOnes(str[i])]]

(* The recursive function of CharCount exists.                             *)
LEMMA ScanExists ==
  ASSUME NEW str \in Seq(Token)
  PROVE  \E scan : scan = Scan(str, scan)
  <1> DEFINE step(s, i) ==
               IF s.skip > 0 THEN [chars |-> s.chars, skip |-> s.skip - 1]
               ELSE [chars |-> s.chars + 1, skip |-> LeadingOnes(str[i])]
             upto(g, n) ==
               g = [i \in 0..n |-> IF i = 0 THEN [chars |-> 0, skip |-> 0]
                                   ELSE step(g[i - 1], i)]
             T == {n \in Nat : \E g : upto(g, n)}
  <1> HIDE DEF step
  <1>1. 0 \in T
    <2>1. upto([i \in 0..0 |-> [chars |-> 0, skip |-> 0]], 0)
      OBVIOUS
    <2> QED
      BY <2>1
  <1>2. \A n \in Nat : n \in T => n + 1 \in T
    <2> TAKE n \in Nat
    <2> HAVE n \in T
    <2>1. PICK g : upto(g, n)
      OBVIOUS
    <2> DEFINE h == [i \in 0..(n + 1) |-> IF i <= n THEN g[i]
                                          ELSE step(g[n], n + 1)]
    <2>2. \A i \in 0..(n + 1) :
            h[i] = IF i = 0 THEN [chars |-> 0, skip |-> 0]
                   ELSE step(h[i - 1], i)
      <3> TAKE i \in 0..(n + 1)
      <3>1. CASE i = 0
        BY <2>1, <3>1
      <3>2. CASE i # 0 /\ i <= n
        BY <2>1, <3>2
      <3>3. CASE i = n + 1
        BY <2>1, <3>3
      <3> QED
        BY <3>1, <3>2, <3>3
    <2>3. upto(h, n + 1)
      BY <2>2
    <2> HIDE DEF h, upto
    <2> QED
      BY <2>3
  <1>3. Len(str) \in Nat
    OBVIOUS
  <1>4. Len(str) \in T
    <2> HIDE DEF T
    <2> QED
      BY <1>1, <1>2, <1>3, Induction
  <1>5. PICK g : upto(g, Len(str))
    BY <1>4
  <1>6. g = Scan(str, g)
    BY <1>5 DEF Scan, step
  <1> QED
    BY <1>6

(* A character is one byte at least, and exactly one if none leads others. *)
LEMMA CharCountBounds ==
  ASSUME NEW str \in Seq(Token)
  PROVE  /\ CharCount(str) \in 0..Len(str)
         /\ str # <<>> => CharCount(str) > 0
         /\ (\A i \in DOMAIN str : LeadingOnes(str[i]) = 0)
            => CharCount(str) = Len(str)
  <1> DEFINE scan == CHOOSE s : s = Scan(str, s)
             plain == \A i \in DOMAIN str : LeadingOnes(str[i]) = 0
             T == {i \in 0..Len(str) :
                     /\ scan[i].chars \in 0..i
                     /\ scan[i].skip \in Nat
                     /\ i > 0 => scan[i].chars > 0
                     /\ plain => scan[i].chars = i /\ scan[i].skip = 0}
  <1>1. CharCount(str) = scan[Len(str)].chars
    BY DEF CharCount, Scan
  <1>2. scan = Scan(str, scan)
    BY ScanExists
  <1>3. Len(str) \in Nat /\ DOMAIN str = 1..Len(str)
    OBVIOUS
  <1> HIDE DEF scan
  <1>4. scan[0] = [chars |-> 0, skip |-> 0]
    BY <1>2, <1>3 DEF Scan
  <1>5. \A i \in 1..Len(str) :
          scan[i] = IF scan[i - 1].skip > 0
                    THEN [chars |-> scan[i - 1].chars,
                          skip |-> scan[i - 1].skip - 1]
                    ELSE [chars |-> scan[i - 1].chars + 1,
                          skip |-> LeadingOnes(str[i])]
    <2> TAKE i \in 1..Len(str)
    <2>1. i \in 0..Len(str) /\ i # 0
      BY <1>3
    <2>2. Scan(str, scan)[i]
            = IF scan[i - 1].skip > 0
              THEN [chars |-> scan[i - 1].chars,
                    skip |-> scan[i - 1].skip - 1]
              ELSE [chars |-> scan[i - 1].chars + 1,
                    skip |-> LeadingOnes(str[i])]
      BY <2>1 DEF Scan
    <2>3. scan[i] = Scan(str, scan)[i]
      BY <1>2
    <2> QED
      BY <2>2, <2>3
  <1>6. 0 \in T
    BY <1>3, <1>4
  <1>7. \A i \in Nat : i < Len(str) /\ i \in T => i + 1 \in T
    <2> TAKE i \in Nat
    <2> HAVE i < Len(str) /\ i \in T
    <2>1. i + 1 \in 1..Len(str) /\ (i + 1) - 1 = i
      BY <1>3
    <2>2. scan[i + 1] = IF scan[i].skip > 0
                        THEN [chars |-> scan[i].chars,
                              skip |-> scan[i].skip - 1]
                        ELSE [chars |-> scan[i].chars + 1,
                              skip |-> LeadingOnes(str[i + 1])]
      BY <1>5, <2>1
    <2>3. LeadingOnes(str[i + 1]) \in Nat
      BY DEF LeadingOnes
    <2>4. plain => LeadingOnes(str[i + 1]) = 0
      BY <1>3, <2>1
    <2>5. CASE scan[i].skip > 0
      <3>1. i > 0
        BY <1>4, <2>5
      <3> QED
        BY <2>1, <2>2, <2>5, <3>1, <1>3, SMTT(30)
    <2>6. CASE ~(scan[i].skip > 0)
      <3> HIDE DEF plain
      <3> QED
        BY <2>1, <2>2, <2>3, <2>4, <2>6, <1>3, SMTT(30)
    <2> QED
      BY <2>5, <2>6
  <1>8. Len(str) \in T
    <2>1. \A i \in 0..Len(str) : i \in T
      <3> HIDE DEF T
      <3> QED
        BY <1>3, <1>6, <1>7, UpTo
    <2> QED
      BY <1>3, <2>1
  <1>9. str # <<>> => Len(str) > 0
    OBVIOUS
  <1> QED
    BY <1>1, <1>3, <1>8, <1>9

-----------------------------------------------------------------------------
(* Numbers *)

LEMMA IntegerFacts ==
  /\ HalfInt \in Nat \ {0} /\ HalfLong \in Nat \ {0}
  /\ 2 * HalfInt <= HalfLong
  /\ Integer("int") = -HalfInt .. HalfInt - 1
  /\ Integer("uint") = 0 .. 2 * HalfInt - 1
  /\ Integer("long") = -HalfLong .. HalfLong - 1
  /\ Integer("ulong") = 0 .. 2 * HalfLong - 1
  /\ 0 \in Numbers
  /\ 0..MaxDigit \subseteq Integer("int")
  BY HproseBufferAssumption DEF Integer, Half, Numbers

LEMMA TokenFacts ==
  /\ Marks \subseteq Token /\ Byte \subseteq Token
  /\ \A n \in Numbers : Numeral(n) \in Token /\ Numeral(n) \notin Marks
  BY HproseBufferAssumption DEF Token

LEMMA IntegerNumbers ==
  \A of \in IntTypes : Integer(of) \subseteq Numbers /\ Numbers \subseteq Int
  BY IntegerFacts DEF IntTypes, Numbers

LEMMA CastRange ==
  ASSUME NEW n \in Int, NEW of \in IntTypes
  PROVE  Cast(n, of) \in Integer(of)
  <1>1. Half(of) \in Nat \ {0}
    BY IntegerFacts DEF Half
  <1>2. CASE of \in {"int", "long"}
    <2> DEFINE a == n + Half(of)
               m == 2 * Half(of)
    <2>a. a \in Int /\ m \in Nat \ {0}
      BY <1>1
    <2> HIDE DEF a, m
    <2>b. a % m \in 0 .. m - 1
      BY <2>a, ModRange
    <2>1. (n + Half(of)) % (2 * Half(of)) \in 0 .. 2 * Half(of) - 1
      BY <2>b DEF a, m
    <2>2. Cast(n, of) = ((n + Half(of)) % (2 * Half(of))) - Half(of)
      BY <1>2 DEF Cast
    <2>3. Integer(of) = -Half(of) .. Half(of) - 1
      BY <1>2 DEF Integer
    <2> QED
      BY <1>1, <2>1, <2>2, <2>3
  <1>3. CASE of \notin {"int", "long"}
    <2> DEFINE m == 2 * Half(of)
    <2>a. m \in Nat \ {0}
      BY <1>1
    <2> HIDE DEF m
    <2>b. n % m \in 0 .. m - 1
      BY <2>a, ModRange
    <2>1. n % (2 * Half(of)) \in 0 .. 2 * Half(of) - 1
      BY <2>b DEF m
    <2>2. Cast(n, of) = n % (2 * Half(of))
      BY <1>3 DEF Cast
    <2>3. Integer(of) = 0 .. 2 * Half(of) - 1
      BY <1>3 DEF Integer
    <2> QED
      BY <2>1, <2>2, <2>3
  <1> QED
    BY <1>2, <1>3

LEMMA CastSame ==
  ASSUME NEW of \in IntTypes, NEW n \in Integer(of)
  PROVE  Cast(n, of) = n
  <1>1. Half(of) \in Nat \ {0}
    BY IntegerFacts DEF Half
  <1>2. CASE of \in {"int", "long"}
    <2>1. n \in -Half(of) .. Half(of) - 1
      BY <1>2 DEF Integer
    <2>2. (n + Half(of)) % (2 * Half(of)) = n + Half(of)
      BY <1>1, <2>1, ModSmall
    <2> QED
      BY <1>1, <1>2, <2>1, <2>2 DEF Cast
  <1>3. CASE of \notin {"int", "long"}
    <2>1. n \in 0 .. 2 * Half(of) - 1
      BY <1>3 DEF Integer
    <2>2. n % (2 * Half(of)) = n
      BY <1>1, <2>1, ModSmall
    <2> QED
      BY <1>3, <2>2 DEF Cast
  <1> QED
    BY <1>2, <1>3

(* An unsigned written as a long numeral and read by atoi is unchanged.    *)
LEMMA CastThroughInt ==
  ASSUME NEW of \in {"int", "uint"}, NEW n \in Integer(of)
  PROVE  Cast(Cast(n, "int"), of) = n
  <1>1. CASE of = "int"
    BY <1>1, CastSame DEF IntTypes
  <1>2. CASE of = "uint"
    <2> DEFINE m == 2 * HalfInt
               a == n + HalfInt
               r == a % m
               c == r - HalfInt
    <2>1. /\ m \in Nat \ {0} /\ n \in 0 .. m - 1 /\ m = 2 * HalfInt
          /\ a \in Int /\ a = n + HalfInt
          /\ HalfInt \in Nat /\ n \in Int /\ 0 <= n /\ n < m
      BY <1>2, IntegerFacts
    <2>2. Cast(n, "int") = c /\ Cast(c, of) = c % m
      BY <1>2 DEF Cast, Half
    <2> HIDE DEF m, a
    <2>4. CASE n < HalfInt
      <3>1. 0 <= a /\ a < m
        BY <2>1, <2>4
      <3>2. r = a
        BY <2>1, <3>1, ModSmall
      <3> HIDE DEF r
      <3>3. c = n
        BY <2>1, <3>2
      <3>4. n % m = n
        BY <2>1, ModSmall
      <3> QED
        BY <2>2, <3>3, <3>4, Zenon
    <2>5. CASE ~(n < HalfInt)
      <3>1. m <= a /\ a < 2 * m
        BY <2>1, <2>5
      <3>2. r = a - m
        BY <2>1, <3>1, ModOver
      <3> HIDE DEF r
      <3>3. c = n - m
        BY <2>1, <3>2
      <3>4. c \in Int /\ -m <= c /\ c < 0
        BY <2>1, <2>5, <3>3
      <3> HIDE DEF c
      <3>5. c % m = c + m
        BY <2>1, <3>4, ModUnder
      <3>6. c + m = n
        BY <2>1, <3>3
      <3> QED
        BY <2>2, <3>5, <3>6, Zenon
    <2> QED
      BY <2>4, <2>5
  <1> QED
    BY <1>1, <1>2

LEMMA NumberRange == \A s : Number(s) \in Numbers
  <1> TAKE s
  <1> DEFINE numbers == {n \in Numbers : s # <<>> /\ Numeral(n) = s[1]}
  <1>1. numbers # {} => (CHOOSE n \in numbers : TRUE) \in Numbers
    OBVIOUS
  <1> QED
    BY <1>1, IntegerFacts DEF Number

(* A numeral is read as its number.                                        *)
LEMMA NumberOfNumeral ==
  ASSUME NEW n \in Numbers, NEW s, s # <<>>, s[1] = Numeral(n)
  PROVE  Number(s) = n
  <1> DEFINE numbers == {m \in Numbers : s # <<>> /\ Numeral(m) = s[1]}
  <1>1. numbers = {n}
    BY HproseBufferAssumption
  <1>2. (CHOOSE m \in numbers : TRUE) = n
    BY <1>1
  <1> QED
    BY <1>1, <1>2 DEF Number

LEMMA AtollFacts ==
  ASSUME NEW s
  PROVE  /\ atoll(s) \in Integer("long")
         /\ Number(s) \in Integer("long") => atoll(s) = Number(s)
  BY NumberRange, IntegerFacts, IntegerNumbers DEF atoll, Saturate, IntTypes

LEMMA AtoiFacts ==
  ASSUME NEW s
  PROVE  /\ atoi(s) \in Integer("int")
         /\ Number(s) \in Integer("int") => atoi(s) = Number(s)
  <1>1. atoll(s) \in Int /\ Integer("int") \subseteq Integer("long")
    BY AtollFacts, IntegerFacts
  <1>2. atoi(s) \in Integer("int")
    BY <1>1, CastRange DEF atoi, IntTypes
  <1>3. Number(s) \in Integer("int") => atoi(s) = Number(s)
    BY <1>1, AtollFacts, CastSame DEF atoi, IntTypes
  <1> QED
    BY <1>2, <1>3

-----------------------------------------------------------------------------
(* Bytes at a position *)

Bytes == Seq(Token)
Pos == Nat \ {0}

(* buf has the bytes w at position p.                                      *)
Holds(buf, p, w) ==
  \A i \in 1..Len(w) : p + i - 1 \in 1..Len(buf) /\ buf[p + i - 1] = w[i]

LEMMA ConcatBytes ==
  \A u \in Bytes, w \in Bytes :
    /\ u \o w \in Bytes /\ Len(u \o w) = Len(u) + Len(w)
    /\ Len(u) \in Nat /\ Len(w) \in Nat
  BY ConcatProperties, LenProperties DEF Bytes

LEMMA HoldsConcat ==
  ASSUME NEW buf \in Bytes, NEW p \in Pos, NEW u \in Bytes, NEW w \in Bytes,
         Holds(buf, p, u \o w)
  PROVE  /\ Holds(buf, p, u) /\ Holds(buf, p + Len(u), w)
         /\ p + Len(u) \in Pos /\ p + Len(u \o w) = (p + Len(u)) + Len(w)
  <1>1. /\ Len(u) \in Nat /\ Len(w) \in Nat /\ Len(u \o w) = Len(u) + Len(w)
        /\ \A i \in 1..Len(u) : (u \o w)[i] = u[i]
        /\ \A i \in 1..Len(w) : (u \o w)[Len(u) + i] = w[i]
    BY ConcatProperties, LenProperties DEF Bytes
  <1>2. Holds(buf, p, u)
    <2> SUFFICES ASSUME NEW i \in 1..Len(u)
                 PROVE  p + i - 1 \in 1..Len(buf) /\ buf[p + i - 1] = u[i]
      BY DEF Holds
    <2>1. i \in 1..Len(u \o w)
      BY <1>1
    <2> QED
      BY <1>1, <2>1 DEF Holds
  <1>3. Holds(buf, p + Len(u), w)
    <2> SUFFICES ASSUME NEW i \in 1..Len(w)
                 PROVE  /\ (p + Len(u)) + i - 1 \in 1..Len(buf)
                        /\ buf[(p + Len(u)) + i - 1] = w[i]
      BY DEF Holds
    <2> DEFINE j == Len(u) + i
    <2>1. j \in 1..Len(u \o w) /\ (u \o w)[j] = w[i]
      BY <1>1
    <2>2. p + j - 1 = (p + Len(u)) + i - 1
      BY <1>1 DEF Pos
    <2> HIDE DEF j
    <2>3. p + j - 1 \in 1..Len(buf) /\ buf[p + j - 1] = w[i]
      BY <2>1 DEF Holds
    <2> QED
      BY <2>2, <2>3
  <1> QED
    BY <1>1, <1>2, <1>3 DEF Pos

LEMMA HoldsSelf == \A buf \in Bytes : Holds(buf, 1, buf)
  BY DEF Holds, Bytes

(* The first byte, and the first three.                                    *)
LEMMA HoldsFirst ==
  ASSUME NEW buf \in Bytes, NEW p \in Pos, NEW w \in Bytes, w # <<>>,
         Holds(buf, p, w)
  PROVE  p \in DOMAIN buf /\ buf[p] = w[1] /\ At(buf, p) = w[1]
  <1>1. Len(w) \in Nat /\ Len(w) > 0
    BY DEF Bytes
  <1>2. p + 1 - 1 = p
    BY DEF Pos
  <1>3. p \in 1..Len(buf) /\ buf[p] = w[1]
    BY <1>1, <1>2 DEF Holds
  <1> QED
    BY <1>3 DEF At, Bytes

LEMMA HoldsThree ==
  ASSUME NEW buf \in Bytes, NEW p \in Pos, NEW a, NEW b, NEW c,
         Holds(buf, p, <<a, b, c>>)
  PROVE  /\ {p, p + 1, p + 2} \subseteq DOMAIN buf
         /\ buf[p] = a /\ buf[p + 1] = b /\ buf[p + 2] = c
         /\ At(buf, p) = a
  <1>1. /\ p + 1 - 1 = p /\ p + 2 - 1 = p + 1 /\ p + 3 - 1 = p + 2
    BY DEF Pos
  <1>2. /\ p \in 1..Len(buf) /\ buf[p] = a
        /\ p + 1 \in 1..Len(buf) /\ buf[p + 1] = b
        /\ p + 2 \in 1..Len(buf) /\ buf[p + 2] = c
    <2>1. /\ Len(<<a, b, c>>) = 3 /\ <<a, b, c>>[1] = a
          /\ <<a, b, c>>[2] = b /\ <<a, b, c>>[3] = c
      OBVIOUS
    <2>2. 1 \in 1..3 /\ 2 \in 1..3 /\ 3 \in 1..3
      OBVIOUS
    <2> QED
      BY <1>1, <2>1, <2>2 DEF Holds
  <1> QED
    BY <1>2 DEF At, Bytes

LEMMA HoldsTwo ==
  ASSUME NEW buf \in Bytes, NEW p \in Pos, NEW a, NEW b,
         Holds(buf, p, <<a, b>>)
  PROVE  /\ {p, p + 1} \subseteq DOMAIN buf
         /\ buf[p] = a /\ buf[p + 1] = b /\ At(buf, p) = a
  <1>1. /\ p + 1 - 1 = p /\ p + 2 - 1 = p + 1
    BY DEF Pos
  <1>2. /\ p \in 1..Len(buf) /\ buf[p] = a
        /\ p + 1 \in 1..Len(buf) /\ buf[p + 1] = b
    <2>1. /\ Len(<<a, b>>) = 2 /\ <<a, b>>[1] = a /\ <<a, b>>[2] = b
      OBVIOUS
    <2>2. 1 \in 1..2 /\ 2 \in 1..2
      OBVIOUS
    <2> QED
      BY <1>1, <2>1, <2>2 DEF Holds
  <1> QED
    BY <1>2 DEF At, Bytes

(* ReadUntil finds the first mark.                                         *)
LEMMA ReadUntilFirst ==
  ASSUME NEW buf \in Bytes, NEW p \in Pos, NEW mark,
         NEW e \in DOMAIN buf, p <= e, buf[e] = mark,
         \A i \in p..(e - 1) : buf[i] # mark
  PROVE  ReadUntil(buf, p, mark) = Got(SubSeq(buf, p, e), e + 1)
  <1> DEFINE ends == {i \in DOMAIN buf : i >= p /\ buf[i] = mark}
  <1>1. DOMAIN buf = 1..Len(buf) /\ Len(buf) \in Nat
    BY DEF Bytes
  <1>2. e \in ends /\ \A j \in ends : e <= j
    BY <1>1 DEF Pos
  <1>3. \A i \in ends : (\A j \in ends : i <= j) => i = e
    BY <1>1, <1>2
  <1>4. (CHOOSE i \in ends : \A j \in ends : i <= j) = e
    <2> HIDE DEF ends
    <2> QED
      BY <1>2, <1>3
  <1>5. ends # {}
    BY <1>2
  <1> QED
    BY <1>4, <1>5 DEF ReadUntil

(* A numeral and a mark, and a mark alone.                                 *)
LEMMA ReadUntilNumeral ==
  ASSUME NEW buf \in Bytes, NEW p \in Pos, NEW mark \in Marks,
         NEW n \in Numbers, p \in DOMAIN buf, p + 1 \in DOMAIN buf,
         buf[p] = Numeral(n), buf[p + 1] = mark
  PROVE  /\ ReadUntil(buf, p, mark).ok = TRUE
         /\ ReadUntil(buf, p, mark).pos = p + 2
         /\ Number(ReadUntil(buf, p, mark).v) = n
  <1>1. buf[p] # mark
    BY HproseBufferAssumption
  <1>2. \A i \in p..((p + 1) - 1) : buf[i] # mark
    BY <1>1 DEF Pos
  <1>3. ReadUntil(buf, p, mark) = Got(SubSeq(buf, p, p + 1), p + 2)
    <2>1. p <= p + 1 /\ (p + 1) + 1 = p + 2
      BY DEF Pos
    <2> QED
      BY <1>2, <2>1, ReadUntilFirst
  <1>4. SubSeq(buf, p, p + 1) # <<>> /\ SubSeq(buf, p, p + 1)[1] = Numeral(n)
    BY DEF Bytes, Pos
  <1>5. Number(SubSeq(buf, p, p + 1)) = n
    BY <1>4, NumberOfNumeral
  <1> QED
    BY <1>3, <1>5 DEF Got

LEMMA ReadUntilHeader ==
  ASSUME NEW buf \in Bytes, NEW p \in Pos, NEW tag, NEW n \in Numbers,
         NEW mark \in Marks, Holds(buf, p, <<tag, Numeral(n), mark>>)
  PROVE  /\ p + 3 \in Pos /\ At(buf, p) = tag
         /\ ReadUntil(buf, p + 1, mark).ok = TRUE
         /\ ReadUntil(buf, p + 1, mark).pos = p + 3
         /\ Number(ReadUntil(buf, p + 1, mark).v) = n
  <1> DEFINE q == p + 1
  <1>1. q \in Pos /\ q + 1 = p + 2 /\ q + 2 = p + 3 /\ p + 3 \in Pos
    BY DEF Pos
  <1>2. /\ q \in DOMAIN buf /\ q + 1 \in DOMAIN buf /\ At(buf, p) = tag
        /\ buf[q] = Numeral(n) /\ buf[q + 1] = mark
    <2>1. /\ {p, p + 1, p + 2} \subseteq DOMAIN buf /\ At(buf, p) = tag
          /\ buf[p + 1] = Numeral(n) /\ buf[p + 2] = mark
      BY HoldsThree
    <2> QED
      BY <1>1, <2>1
  <1>3. /\ ReadUntil(buf, q, mark).ok = TRUE
        /\ ReadUntil(buf, q, mark).pos = q + 2
        /\ Number(ReadUntil(buf, q, mark).v) = n
    <2> HIDE DEF q
    <2> QED
      BY <1>1, <1>2, ReadUntilNumeral, Zenon
  <1> QED
    BY <1>1, <1>2, <1>3

LEMMA ReadUntilMark ==
  ASSUME NEW buf \in Bytes, NEW p \in Pos, NEW mark \in Marks,
         p \in DOMAIN buf, buf[p] = mark
  PROVE  /\ ReadUntil(buf, p, mark).ok = TRUE
         /\ ReadUntil(buf, p, mark).pos = p + 1
         /\ Number(ReadUntil(buf, p, mark).v) = 0
  <1>1. ReadUntil(buf, p, mark) = Got(SubSeq(buf, p, p), p + 1)
    <2>1. p <= p /\ \A i \in p..(p - 1) : buf[i] # mark
      BY DEF Pos
    <2> QED
      BY <2>1, ReadUntilFirst
  <1>2. SubSeq(buf, p, p)[1] = mark
    BY DEF Bytes, Pos
  <1>3. \A n \in Numbers : Numeral(n) # mark
    BY HproseBufferAssumption
  <1>4. Number(SubSeq(buf, p, p)) = 0
    BY <1>2, <1>3 DEF Number
  <1> QED
    BY <1>1, <1>4 DEF Got

-----------------------------------------------------------------------------
(* Scalars *)

(* What a read gives: it may fail, but gives no value of another type.     *)
Reads(r, values) ==
  /\ r.ok \in BOOLEAN /\ r.pos \in Nat
  /\ r.ok => r.v \in values

LEMMA ReadUntilPos ==
  ASSUME NEW buf \in Bytes, NEW p \in Nat, NEW mark
  PROVE  /\ ReadUntil(buf, p, mark).ok \in BOOLEAN
         /\ ReadUntil(buf, p, mark).pos \in Nat
         /\ p <= ReadUntil(buf, p, mark).pos
  <1> DEFINE ends == {i \in DOMAIN buf : i >= p /\ buf[i] = mark}
             end == CHOOSE i \in ends : \A j \in ends : i <= j
  <1>1. CASE ends = {}
    <2>1. ReadUntil(buf, p, mark) = Fail(p)
      BY <1>1 DEF ReadUntil
    <2> QED
      BY <2>1 DEF Fail
  <1>2. CASE ends # {}
    <2>1. ends \subseteq Nat
      BY DEF Bytes
    <2>2. \E i \in ends : \A j \in ends : i <= j
      <3> HIDE DEF ends
      <3> QED
        BY <1>2, <2>1, LeastElement
    <2>3. end \in Nat /\ p <= end
      <3>1. end \in ends
        <4> HIDE DEF ends
        <4> QED
          BY <2>2
      <3> QED
        BY <2>1, <3>1
    <2> HIDE DEF end
    <2>4. ReadUntil(buf, p, mark) = Got(SubSeq(buf, p, end), end + 1)
      BY <1>2 DEF ReadUntil, end
    <2> QED
      BY <2>3, <2>4 DEF Got
  <1> QED
    BY <1>1, <1>2

LEMMA ReadIntegerTyped ==
  ASSUME NEW buf \in Bytes, NEW p \in Nat, NEW of \in IntTypes
  PROVE  Reads(ReadInteger(buf, p, of), Integer(of))
  <1> DEFINE tag == At(buf, p)
             s == ReadUntil(buf, p + 1, TagSemicolon)
  <1>1. s.pos \in Nat
    <2>1. p + 1 \in Nat
      OBVIOUS
    <2> QED
      BY <2>1, ReadUntilPos
  <1>2. /\ Number(<<tag>>) \in Int /\ atoi(s.v) \in Int /\ atoll(s.v) \in Int
    BY NumberRange, AtoiFacts, AtollFacts, IntegerFacts, IntegerNumbers
       DEF IntTypes
  <1>3. /\ Cast(Number(<<tag>>), of) \in Integer(of)
        /\ Cast(atoi(s.v), of) \in Integer(of)
        /\ Cast(atoll(s.v), of) \in Integer(of)
    BY <1>2, CastRange
  <1>4. \/ ReadInteger(buf, p, of) = Got(Cast(Number(<<tag>>), of), p + 1)
        \/ ReadInteger(buf, p, of) = Got(Cast(atoi(s.v), of), s.pos)
        \/ ReadInteger(buf, p, of) = Got(Cast(atoll(s.v), of), s.pos)
        \/ ReadInteger(buf, p, of) = Fail(p)
    BY DEF ReadInteger
  <1>5. \A v \in Integer(of), q \in Nat : Reads(Got(v, q), Integer(of))
    BY DEF Reads, Got
  <1>6. Reads(Fail(p), Integer(of))
    BY DEF Reads, Fail
  <1> QED
    BY <1>1, <1>3, <1>4, <1>5, <1>6

LEMMA ReadBoolTyped ==
  ASSUME NEW buf \in Bytes, NEW p \in Nat
  PROVE  Reads(ReadBool(buf, p), BOOLEAN)
  <1>1. CASE At(buf, p) = "t"
    <2>1. ReadBool(buf, p) = Got(TRUE, p + 1)
      BY <1>1 DEF ReadBool
    <2> QED
      BY <2>1 DEF Reads, Got
  <1>2. CASE At(buf, p) = "f"
    <2>1. ReadBool(buf, p) = Got(FALSE, p + 1)
      BY <1>2 DEF ReadBool
    <2> QED
      BY <2>1 DEF Reads, Got
  <1>3. CASE At(buf, p) \notin {"t", "f"}
    BY <1>3 DEF Reads, ReadBool, Fail
  <1> QED
    BY <1>1, <1>2, <1>3

LEMMA ReadStringTyped ==
  ASSUME NEW buf \in Bytes, NEW p \in Nat
  PROVE  Reads(ReadString(buf, p), Short(Token))
  <1> DEFINE size == ReadUntil(buf, p + 1, TagQuote)
             len == atoi(size.v)
             str == ReadN(buf, size.pos, len)
  <1>1. size.pos \in Nat /\ size.pos > 0
    <2>1. p + 1 \in Nat
      OBVIOUS
    <2>2. size.pos \in Nat /\ p + 1 <= size.pos
      BY <2>1, ReadUntilPos
    <2> QED
      BY <2>2
  <1>2. len \in Int /\ len < HalfInt
    <2>1. len \in -HalfInt .. HalfInt - 1
      BY AtoiFacts, IntegerFacts
    <2> QED
      BY <2>1, IntegerFacts
  <1> HIDE DEF size, len
  <1>3. str \in Seq(Token)
    <2>1. CASE size.pos + len \in DOMAIN buf
      <3>1. \A i \in size.pos .. size.pos + len - 1 : buf[i] \in Token
        BY <1>1, <1>2, <2>1 DEF Bytes
      <3>2. SubSeq(buf, size.pos, size.pos + len - 1) \in Seq(Token)
        BY <1>1, <1>2, <3>1, SubSeqProperties
      <3> QED
        BY <2>1, <3>2 DEF ReadN
    <2>2. CASE size.pos + len \notin DOMAIN buf
      BY <2>2 DEF ReadN
    <2> QED
      BY <2>1, <2>2
  <1> HIDE DEF str
  <1>4. \/ ReadString(buf, p) = Got(<<>>, p + 1)
        \/ /\ len > 0 /\ Len(str) = len
           /\ ReadString(buf, p) = Got(str, size.pos + len + 1)
        \/ ReadString(buf, p) = Fail(p)
    BY DEF ReadString, size, len, str
  <1>5. <<>> \in Short(Token)
    BY IntegerFacts DEF Short
  <1>6. len > 0 /\ Len(str) = len => str \in Short(Token)
    BY <1>2, <1>3 DEF Short
  <1>7. \A v \in Short(Token), q \in Nat : Reads(Got(v, q), Short(Token))
    BY DEF Reads, Got
  <1>8. Reads(Fail(p), Short(Token))
    BY DEF Reads, Fail
  <1>9. p + 1 \in Nat /\ (len > 0 => size.pos + len + 1 \in Nat)
    BY <1>1, <1>2
  <1> QED
    BY <1>4, <1>5, <1>6, <1>7, <1>8, <1>9

(* An integer is read as it was written, but for an unsigned long long     *)
(* that is no long long; and the next read starts behind it.               *)
LEMMA IntegerRoundTrip ==
  ASSUME NEW buf \in Bytes, NEW p \in Pos, NEW of \in IntTypes,
         NEW n \in Integer(of), Holds(buf, p, WriteInteger(n, of))
  PROVE  /\ ReadInteger(buf, p, of).ok = TRUE
         /\ ReadInteger(buf, p, of).pos = p + Len(WriteInteger(n, of))
         /\ (of = "ulong" => n \in Integer("long"))
            => ReadInteger(buf, p, of).v = n
  <1>1. n \in Numbers
    BY IntegerNumbers
  <1>2. CASE n \in 0..MaxDigit
    <2>1. WriteInteger(n, of) = <<Numeral(n)>>
      BY <1>2 DEF WriteInteger
    <2>2. At(buf, p) = Numeral(n)
      <3>1. <<Numeral(n)>> \in Bytes /\ <<Numeral(n)>> # <<>>
        BY <1>1, TokenFacts DEF Bytes
      <3> QED
        BY <2>1, <3>1, HoldsFirst
    <2>3. Number(<<At(buf, p)>>) = n
      BY <1>1, <2>2, NumberOfNumeral
    <2>4. Cast(n, of) = n
      BY CastSame
    <2>5. At(buf, p) \in {Numeral(d) : d \in 0..MaxDigit}
      BY <1>2, <2>2
    <2>6. At(buf, p) # "i" /\ At(buf, p) # "l"
      BY <1>1, <2>2, TokenFacts DEF Marks
    <2>7. ReadInteger(buf, p, of)
            = Got(Cast(Number(<<At(buf, p)>>), of), p + 1)
      BY <2>5, <2>6 DEF ReadInteger
    <2> QED
      BY <2>1, <2>3, <2>4, <2>7 DEF Got
  <1>3. CASE n \notin 0..MaxDigit
    <2> DEFINE tag == IF of \in {"int", "uint"} THEN "i" ELSE "l"
               s == ReadUntil(buf, p + 1, TagSemicolon)
    <2>1. WriteInteger(n, of) = <<tag, Numeral(n), TagSemicolon>>
      BY <1>3 DEF WriteInteger
    <2>2. At(buf, p) = tag /\ s.pos = p + 3 /\ Number(s.v) = n
      <3>1. TagSemicolon \in Marks
        BY DEF Marks
      <3>2. Holds(buf, p, <<tag, Numeral(n), TagSemicolon>>)
        BY <2>1
      <3> HIDE DEF tag
      <3> QED
        BY <1>1, <3>1, <3>2, ReadUntilHeader, Zenon
    <2>4. At(buf, p) \notin {Numeral(d) : d \in 0..MaxDigit}
      <3>1. {"i", "l"} \subseteq Marks /\ 0..MaxDigit \subseteq Numbers
        BY IntegerFacts, IntegerNumbers DEF Marks, IntTypes
      <3> QED
        BY <2>2, <3>1, TokenFacts
    <2> HIDE DEF s
    <2>5. CASE of \in {"int", "uint"}
      <3>1. ReadInteger(buf, p, of) = Got(Cast(atoi(s.v), of), s.pos)
        BY <2>2, <2>4, <2>5 DEF ReadInteger, s
      <3>2. atoll(s.v) = n
        BY <2>2, <2>5, AtollFacts, IntegerFacts
      <3>3. Cast(atoi(s.v), of) = n
        BY <2>5, <3>2, CastThroughInt DEF atoi
      <3> QED
        BY <2>1, <2>2, <3>1, <3>3 DEF Got
    <2>6. CASE of \notin {"int", "uint"}
      <3>1. ReadInteger(buf, p, of) = Got(Cast(atoll(s.v), of), s.pos)
        BY <2>2, <2>4, <2>6 DEF ReadInteger, s
      <3>2. n \in Integer("long") => Cast(atoll(s.v), of) = n
        BY <2>2, AtollFacts, CastSame
      <3>3. of # "ulong" => n \in Integer("long")
        BY <2>6 DEF IntTypes
      <3> QED
        BY <2>1, <2>2, <3>1, <3>2, <3>3 DEF Got
    <2> QED
      BY <2>5, <2>6
  <1> QED
    BY <1>2, <1>3

LEMMA BoolRoundTrip ==
  ASSUME NEW buf \in Bytes, NEW p \in Pos, NEW b \in BOOLEAN,
         Holds(buf, p, WriteBool(b))
  PROVE  ReadBool(buf, p) = Got(b, p + Len(WriteBool(b)))
  <1>1. WriteBool(b) \in Bytes /\ WriteBool(b) # <<>> /\ Len(WriteBool(b)) = 1
    BY TokenFacts DEF WriteBool, Bytes, Marks
  <1>2. At(buf, p) = WriteBool(b)[1]
    BY <1>1, HoldsFirst
  <1>3. CASE b = TRUE
    <2>1. At(buf, p) = "t"
      BY <1>2, <1>3 DEF WriteBool
    <2> QED
      BY <1>1, <1>3, <2>1 DEF ReadBool
  <1>4. CASE b = FALSE
    <2>1. At(buf, p) = "f"
      BY <1>2, <1>4 DEF WriteBool
    <2> QED
      BY <1>1, <1>4, <2>1 DEF ReadBool
  <1> QED
    BY <1>3, <1>4

(* A string whose length is given as n.                                    *)
LEMMA ReadCounted ==
  ASSUME NEW buf \in Bytes, NEW p \in Pos, NEW str \in Short(Token),
         NEW n \in 1..Len(str), NEW tag \in {"s", "b"},
         Holds(buf, p, <<tag, Numeral(n), TagQuote>> \o str \o <<TagQuote>>)
  PROVE  /\ n = Len(str)
            => ReadString(buf, p) = Got(str, p + Len(str) + 4)
         /\ n < Len(str) /\ str[n + 1] # TagQuote
            => ReadString(buf, p) = Fail(p)
  <1> DEFINE head == <<tag, Numeral(n), TagQuote>>
             quote == <<TagQuote>>
             size == ReadUntil(buf, p + 1, TagQuote)
             q == p + 3
             got == ReadN(buf, q, n)
  <1>1. /\ str \in Bytes /\ Len(str) \in Nat /\ Len(str) < HalfInt
        /\ n \in Nat /\ n > 0
    BY DEF Short, Bytes
  <1>2. n \in Integer("int") /\ n \in Numbers
    <2>1. n \in Integer("int")
      BY <1>1, IntegerFacts
    <2>2. n \in Numbers
      BY <2>1, IntegerNumbers DEF IntTypes
    <2> QED
      BY <2>1, <2>2
  <1>3. tag \in Token /\ Numeral(n) \in Token /\ TagQuote \in Token
    BY <1>2, TokenFacts DEF Marks
  <1>4. head \in Bytes /\ Len(head) = 3 /\ quote \in Bytes
    BY <1>3 DEF Bytes
  <1>5. /\ Holds(buf, p, head) /\ Holds(buf, q, str)
        /\ Holds(buf, q + Len(str), quote)
    <2>1. /\ str \o quote \in Bytes
          /\ head \o str \o quote = head \o (str \o quote)
      BY <1>1, <1>4, ConcatAssociative, ConcatProperties DEF Bytes
    <2>a. Holds(buf, p, head \o (str \o quote)) /\ p + Len(head) = q
      BY <1>4, <2>1
    <2>2. Holds(buf, p, head) /\ Holds(buf, q, str \o quote) /\ q \in Pos
      <3> DEFINE rest == str \o quote
      <3>1. rest \in Bytes /\ head \in Bytes /\ Holds(buf, p, head \o rest)
        BY <1>4, <2>1, <2>a
      <3> HIDE DEF head, rest
      <3>2. /\ Holds(buf, p, head) /\ Holds(buf, p + Len(head), rest)
            /\ p + Len(head) \in Pos
        BY <3>1, HoldsConcat, Zenon
      <3> QED
        BY <2>a, <3>2 DEF rest
    <2> QED
      BY <1>1, <1>4, <2>2, HoldsConcat
  <1>6. At(buf, p) = tag /\ size.ok = TRUE /\ size.pos = q /\ atoi(size.v) = n
    <2>1. TagQuote \in Marks
      BY DEF Marks
    <2>a. Holds(buf, p, <<tag, Numeral(n), TagQuote>>) /\ n \in Numbers
      BY <1>2, <1>5
    <2>2. /\ At(buf, p) = tag /\ size.ok = TRUE /\ size.pos = q
          /\ Number(size.v) = n
      BY <2>a, <2>1, ReadUntilHeader, Zenon
    <2> QED
      BY <1>2, <2>2, AtoiFacts
  <1> HIDE DEF size
  <1>7. /\ \A i \in 1..Len(str) : q + i - 1 \in 1..Len(buf)
                                  /\ buf[q + i - 1] = str[i]
        /\ q + Len(str) \in 1..Len(buf) /\ buf[q + Len(str)] = TagQuote
        /\ q \in Pos /\ Len(buf) \in Nat /\ DOMAIN buf = 1..Len(buf)
    <2>1. q \in Pos /\ q + Len(str) \in Pos
      BY <1>1 DEF Pos
    <2>2. Len(quote) = 1 /\ quote[1] = TagQuote
      OBVIOUS
    <2>3. (q + Len(str)) + 1 - 1 = q + Len(str)
      BY <2>1 DEF Pos
    <2>4. q + Len(str) \in 1..Len(buf) /\ buf[q + Len(str)] = TagQuote
      <3> HIDE DEF q, quote
      <3> QED
        BY <1>5, <2>2, <2>3 DEF Holds
    <2> QED
      BY <1>5, <2>1, <2>4 DEF Holds, Bytes
  <1> HIDE DEF q
  <1>8. q + n \in DOMAIN buf
    <2>1. CASE n = Len(str)
      BY <1>7, <2>1
    <2>2. CASE n # Len(str)
      <3>1. n + 1 \in 1..Len(str) /\ q + (n + 1) - 1 = q + n
        BY <1>1, <1>7, <2>2 DEF Pos
      <3> QED
        BY <1>7, <3>1
    <2> QED
      BY <2>1, <2>2
  <1>9. got = SubSeq(buf, q, q + n - 1)
    BY <1>8 DEF ReadN
  <1>10. Len(got) = n /\ \A i \in 1..n : got[i] = buf[q + i - 1]
    BY <1>1, <1>7, <1>8, <1>9, SubSeqProperties, SMTT(30) DEF Bytes, Pos
  <1>11. At(buf, q + n) = buf[q + n]
    BY <1>8 DEF At
  <1>12. ReadString(buf, p) =
           IF buf[q + n] = TagQuote THEN Got(got, q + n + 1) ELSE Fail(p)
    <2>1. tag # "e" /\ n > 0
      BY <1>1
    <2> HIDE DEF got
    <2> QED
      BY <1>6, <1>10, <1>11, <2>1 DEF ReadString, size, got
  <1>13. CASE n = Len(str)
    <2>1. \A i \in 1..n : got[i] = str[i]
      BY <1>7, <1>10, <1>13
    <2>2. got = str
      <3>1. got \in Seq(Token)
        <4>1. \A i \in q .. q + n - 1 : buf[i] \in Token
          BY <1>1, <1>7, <1>8 DEF Pos, Bytes
        <4> QED
          BY <1>1, <1>7, <1>9, <4>1, SubSeqProperties DEF Pos
      <3> HIDE DEF got
      <3> QED
        BY <1>1, <1>10, <1>13, <2>1, <3>1, SeqEqual DEF Bytes
    <2>3. q + n + 1 = p + Len(str) + 4
      BY <1>1, <1>13 DEF q, Pos
    <2> QED
      BY <1>7, <1>12, <1>13, <2>2, <2>3
  <1>14. CASE n < Len(str) /\ str[n + 1] # TagQuote
    <2>1. n + 1 \in 1..Len(str) /\ q + (n + 1) - 1 = q + n
      BY <1>1, <1>7, <1>14 DEF Pos
    <2>2. buf[q + n] = str[n + 1]
      BY <1>7, <2>1
    <2> QED
      BY <1>12, <1>14, <2>2
  <1> QED
    BY <1>13, <1>14

LEMMA ShortFacts ==
  ASSUME NEW S, NEW str \in Short(S)
  PROVE  /\ str \in Seq(S) /\ Len(str) \in 0 .. HalfInt - 1
         /\ Len(str) \in Integer("int") /\ Len(str) \in Numbers
         /\ DOMAIN str = 1..Len(str)
         /\ (str # <<>>) <=> (Len(str) > 0)
  <1>1. str \in Seq(S) /\ Len(str) \in Nat /\ Len(str) < HalfInt
    BY DEF Short
  <1>2. Len(str) \in Integer("int")
    BY <1>1, IntegerFacts
  <1>3. Len(str) \in Numbers
    BY <1>2, IntegerNumbers DEF IntTypes
  <1> QED
    BY <1>1, <1>2, <1>3, IntegerFacts

(* The bytes of a string, whose length is n unless it is empty.            *)
LEMMA WriteStringBytes ==
  ASSUME NEW str \in Short(Token), NEW utf8 \in BOOLEAN
  PROVE  /\ WriteString(str, utf8) \in Bytes
         /\ LET n == IF utf8 THEN CharCount(str) ELSE Len(str)
                tag == IF utf8 THEN "s" ELSE "b"
            IN IF str = <<>>
               THEN WriteString(str, utf8) = <<"e">>
               ELSE /\ n \in 1..Len(str) /\ tag \in {"s", "b"}
                    /\ WriteString(str, utf8)
                         = <<tag, Numeral(n), TagQuote>> \o str \o <<TagQuote>>
                    /\ Len(WriteString(str, utf8)) = Len(str) + 4
  <1> DEFINE n == IF utf8 THEN CharCount(str) ELSE Len(str)
             tag == IF utf8 THEN "s" ELSE "b"
             head == <<tag, Numeral(n), TagQuote>>
             quote == <<TagQuote>>
  <1>1. CASE str = <<>>
    BY <1>1, TokenFacts DEF WriteString, Bytes, Marks
  <1>2. CASE str # <<>>
    <2>1. str \in Seq(Token) /\ Len(str) \in Nat /\ Len(str) > 0
      BY <1>2, ShortFacts
    <2>2. n \in 1..Len(str)
      BY <1>2, <2>1, CharCountBounds
    <2>3. n \in Numbers
      BY <2>1, <2>2, ShortFacts, IntegerFacts DEF Numbers
    <2>4. tag \in {"s", "b"} /\ tag \in Token /\ TagQuote \in Token
      BY TokenFacts DEF Marks
    <2>5. WriteString(str, utf8) = head \o str \o quote
      BY <1>2 DEF WriteString
    <2>6. Numeral(n) \in Token
      BY <2>3, TokenFacts
    <2> HIDE DEF n, tag
    <2>7. head \in Bytes /\ Len(head) = 3 /\ quote \in Bytes /\ Len(quote) = 1
      BY <2>4, <2>6 DEF Bytes
    <2> HIDE DEF head, quote
    <2>8. head \o str \in Bytes /\ Len(head \o str) = 3 + Len(str)
      BY <2>1, <2>7, ConcatBytes DEF Bytes
    <2>9. /\ (head \o str) \o quote \in Bytes
          /\ Len((head \o str) \o quote) = (3 + Len(str)) + 1
      BY <2>7, <2>8, ConcatBytes
    <2>10. Len(WriteString(str, utf8)) = Len(str) + 4
      BY <2>1, <2>5, <2>9
    <2> QED
      BY <1>2, <2>2, <2>4, <2>5, <2>9, <2>10 DEF n, tag, head, quote
  <1> QED
    BY <1>1, <1>2

LEMMA ReadEmpty ==
  ASSUME NEW buf \in Bytes, NEW p \in Pos, Holds(buf, p, <<"e">>)
  PROVE  ReadString(buf, p) = Got(<<>>, p + 1)
  <1>1. <<"e">> \in Bytes /\ <<"e">> # <<>>
    BY TokenFacts DEF Bytes, Marks
  <1>2. At(buf, p) = "e"
    BY <1>1, HoldsFirst
  <1> QED
    BY <1>2 DEF ReadString

LEMMA StringRoundTrip ==
  ASSUME NEW buf \in Bytes, NEW p \in Pos, NEW str \in Short(Token),
         Holds(buf, p, WriteString(str, FALSE))
  PROVE  ReadString(buf, p) = Got(str, p + Len(WriteString(str, FALSE)))
  <1>1. CASE str = <<>>
    BY <1>1, WriteStringBytes, ReadEmpty
  <1>2. CASE str # <<>>
    <2>1. /\ Len(str) \in 1..Len(str)
          /\ Holds(buf, p, <<"b", Numeral(Len(str)), TagQuote>>
                             \o str \o <<TagQuote>>)
          /\ Len(WriteString(str, FALSE)) = Len(str) + 4
      BY <1>2, WriteStringBytes
    <2>2. ReadString(buf, p) = Got(str, p + Len(str) + 4)
      BY <2>1, ReadCounted
    <2>3. p + (Len(str) + 4) = p + Len(str) + 4
      BY ShortFacts DEF Pos
    <2> QED
      BY <2>1, <2>2, <2>3
  <1> QED
    BY <1>1, <1>2

(* A name is read as it is, or not at all if some of its characters have   *)
(* several bytes.                                                          *)
LEMMA NameRoundTrip ==
  ASSUME NEW buf \in Bytes, NEW p \in Pos, NEW name \in Short(Token),
         Legible(name), Holds(buf, p, WriteString(name, TRUE))
  PROVE  \/ ReadString(buf, p) = Got(name, p + Len(WriteString(name, TRUE)))
         \/ /\ ReadString(buf, p) = Fail(p)
            /\ \E i \in DOMAIN name : LeadingOnes(name[i]) > 0
  <1>1. CASE name = <<>>
    BY <1>1, WriteStringBytes, ReadEmpty
  <1>2. CASE name # <<>>
    <2> DEFINE n == CharCount(name)
    <2>1. /\ n \in 1..Len(name)
          /\ Holds(buf, p, <<"s", Numeral(n), TagQuote>>
                             \o name \o <<TagQuote>>)
          /\ Len(WriteString(name, TRUE)) = Len(name) + 4
      BY <1>2, WriteStringBytes
    <2>2. /\ Len(name) \in Nat /\ DOMAIN name = 1..Len(name)
          /\ name \in Seq(Token)
      BY ShortFacts
    <2>3. (\A i \in DOMAIN name : LeadingOnes(name[i]) = 0) => n = Len(name)
      BY <2>2, CharCountBounds
    <2> HIDE DEF n
    <2>4. /\ n = Len(name) => ReadString(buf, p) = Got(name, p + Len(name) + 4)
          /\ n < Len(name) /\ name[n + 1] # TagQuote
             => ReadString(buf, p) = Fail(p)
      BY <2>1, ReadCounted
    <2>5. CASE n = Len(name)
      <3>1. p + (Len(name) + 4) = p + Len(name) + 4
        BY <2>2 DEF Pos
      <3> QED
        BY <2>1, <2>4, <2>5, <3>1
    <2>6. CASE n # Len(name)
      <3>a. n \in 1..Len(name)
        BY <2>1
      <3>b. Len(name) \in Nat /\ DOMAIN name = 1..Len(name)
        BY <2>2
      <3> DEFINE len == Len(name)
      <3>c. len \in Nat /\ n \in 1..len /\ n # len
        BY <3>a, <3>b, <2>6
      <3>d. n + 1 \in 1..len /\ n < len
        <4> HIDE DEF len
        <4> QED
          BY <3>c
      <3>1. n + 1 \in DOMAIN name /\ n < Len(name)
        BY <3>b, <3>d
      <3>2. \A i \in DOMAIN name : LeadingOnes(name[i]) \in Nat
        BY DEF LeadingOnes
      <3>3. \E i \in DOMAIN name : LeadingOnes(name[i]) > 0
        BY <2>3, <2>6, <3>2
      <3>4. name[n + 1] # TagQuote
        BY <2>3, <2>6, <3>1 DEF Legible
      <3> QED
        BY <2>4, <3>1, <3>3, <3>4
    <2> QED
      BY <2>5, <2>6
  <1> QED
    BY <1>1, <1>2

-----------------------------------------------------------------------------
(* Types: the recursive functions of Values, Inputs, Write and Read exist. *)

(* The values of each depth of lists.                                      *)
LEMMA ValuesExists ==
  ASSUME NEW of, NEW m \in Nat
  PROVE  \E f : f = [i \in 0..m |->
                      IF i = 0 THEN ScalarValues(of) ELSE Short(f[i - 1])]
  <1> DEFINE base == ScalarValues(of)
             step(x, i) == Short(x)
             upto(g, n) ==
               g = [i \in 0..n |-> IF i = 0 THEN base ELSE step(g[i - 1], i)]
             T == {n \in Nat : \E g : upto(g, n)}
  <1> HIDE DEF base, step
  <1>1. 0 \in T
    <2>1. upto([i \in 0..0 |-> base], 0)
      OBVIOUS
    <2> QED
      BY <2>1
  <1>2. \A n \in Nat : n \in T => n + 1 \in T
    <2> TAKE n \in Nat
    <2> HAVE n \in T
    <2>1. PICK g : upto(g, n)
      OBVIOUS
    <2> DEFINE h == [i \in 0..(n + 1) |-> IF i <= n THEN g[i]
                                          ELSE step(g[n], n + 1)]
    <2>2. \A i \in 0..(n + 1) :
            h[i] = IF i = 0 THEN base ELSE step(h[i - 1], i)
      <3> TAKE i \in 0..(n + 1)
      <3>1. CASE i = 0
        BY <2>1, <3>1
      <3>2. CASE i # 0 /\ i <= n
        BY <2>1, <3>2
      <3>3. CASE i = n + 1
        BY <2>1, <3>3
      <3> QED
        BY <3>1, <3>2, <3>3
    <2>3. upto(h, n + 1)
      BY <2>2
    <2> HIDE DEF h, upto
    <2> QED
      BY <2>3
  <1>3. m \in T
    <2> HIDE DEF T
    <2> QED
      BY <1>1, <1>2, Induction
  <1>4. PICK g : upto(g, m)
    BY <1>3
  <1>5. g = [i \in 0..m |->
                      IF i = 0 THEN ScalarValues(of) ELSE Short(g[i - 1])]
    BY <1>4 DEF base, step
  <1> QED
    BY <1>5

ValuesTo(type) ==
  CHOOSE f : f = [i \in 0..type.lists |->
                    IF i = 0 THEN ScalarValues(type.of) ELSE Short(f[i - 1])]

LEMMA ValuesUnfold ==
  ASSUME NEW type \in Types
  PROVE  /\ type.lists \in Nat /\ type.of \in Scalars
         /\ Values(type) = ValuesTo(type)[type.lists]
         /\ ValuesTo(type)[0] = ScalarValues(type.of)
         /\ \A i \in 1..type.lists :
              ValuesTo(type)[i] = Short(ValuesTo(type)[i - 1])
  <1>1. type.lists \in Nat /\ type.of \in Scalars
    BY DEF Types
  <1>2. Values(type) = ValuesTo(type)[type.lists]
    BY DEF Values, ValuesTo
  <1>3. ValuesTo(type) = [i \in 0..type.lists |->
                            IF i = 0 THEN ScalarValues(type.of)
                            ELSE Short(ValuesTo(type)[i - 1])]
    BY <1>1, ValuesExists DEF ValuesTo
  <1> QED
    BY <1>1, <1>2, <1>3

(* Those that are passed.                                                  *)
LEMMA InputsExist ==
  ASSUME NEW of, NEW m \in Nat
  PROVE  \E f : f = [i \in 0..m |-> IF i = 0 THEN ScalarInputs(of)
                                   ELSE BoundedSeq(f[i - 1], MaxList)]
  <1> DEFINE base == ScalarInputs(of)
             step(x, i) == BoundedSeq(x, MaxList)
             upto(g, n) ==
               g = [i \in 0..n |-> IF i = 0 THEN base ELSE step(g[i - 1], i)]
             T == {n \in Nat : \E g : upto(g, n)}
  <1> HIDE DEF base, step
  <1>1. 0 \in T
    <2>1. upto([i \in 0..0 |-> base], 0)
      OBVIOUS
    <2> QED
      BY <2>1
  <1>2. \A n \in Nat : n \in T => n + 1 \in T
    <2> TAKE n \in Nat
    <2> HAVE n \in T
    <2>1. PICK g : upto(g, n)
      OBVIOUS
    <2> DEFINE h == [i \in 0..(n + 1) |-> IF i <= n THEN g[i]
                                          ELSE step(g[n], n + 1)]
    <2>2. \A i \in 0..(n + 1) :
            h[i] = IF i = 0 THEN base ELSE step(h[i - 1], i)
      <3> TAKE i \in 0..(n + 1)
      <3>1. CASE i = 0
        BY <2>1, <3>1
      <3>2. CASE i # 0 /\ i <= n
        BY <2>1, <3>2
      <3>3. CASE i = n + 1
        BY <2>1, <3>3
      <3> QED
        BY <3>1, <3>2, <3>3
    <2>3. upto(h, n + 1)
      BY <2>2
    <2> HIDE DEF h, upto
    <2> QED
      BY <2>3
  <1>3. m \in T
    <2> HIDE DEF T
    <2> QED
      BY <1>1, <1>2, Induction
  <1>4. PICK g : upto(g, m)
    BY <1>3
  <1>5. g = [i \in 0..m |-> IF i = 0 THEN ScalarInputs(of)
                                   ELSE BoundedSeq(g[i - 1], MaxList)]
    BY <1>4 DEF base, step
  <1> QED
    BY <1>5

InputsTo(type) ==
  CHOOSE f : f = [i \in 0..type.lists |->
                    IF i = 0 THEN ScalarInputs(type.of)
                    ELSE BoundedSeq(f[i - 1], MaxList)]

LEMMA InputsUnfold ==
  ASSUME NEW type \in Types
  PROVE  /\ Inputs(type) = InputsTo(type)[type.lists]
         /\ InputsTo(type)[0] = ScalarInputs(type.of)
         /\ \A i \in 1..type.lists :
              InputsTo(type)[i] = BoundedSeq(InputsTo(type)[i - 1], MaxList)
  <1>1. type.lists \in Nat
    BY DEF Types
  <1>2. Inputs(type) = InputsTo(type)[type.lists]
    BY DEF Inputs, InputsTo
  <1>3. InputsTo(type) = [i \in 0..type.lists |->
                            IF i = 0 THEN ScalarInputs(type.of)
                            ELSE BoundedSeq(InputsTo(type)[i - 1], MaxList)]
    BY <1>1, InputsExist DEF InputsTo
  <1> QED
    BY <1>1, <1>2, <1>3

(* What is passed is a value of its type.                                  *)
LEMMA InputsAreValues ==
  ASSUME NEW type \in Types
  PROVE  Inputs(type) \subseteq Values(type)
  <1> DEFINE inputs == InputsTo(type)
             values == ValuesTo(type)
             T == {i \in 0..type.lists : inputs[i] \subseteq values[i]}
  <1>1. type.lists \in Nat /\ type.of \in Scalars
    BY ValuesUnfold
  <1>2. 0 \in T
    <2>1. Byte \subseteq Token
      BY TokenFacts
    <2>2. Short(Byte) \subseteq Short(Token)
      BY <2>1, SeqMonotonic DEF Short
    <2>3. StrSample \subseteq Short(Token)
      BY <2>2, HproseBufferAssumption
    <2>4. ScalarInputs(type.of) \subseteq ScalarValues(type.of)
      BY <1>1, <2>3 DEF ScalarInputs, ScalarValues, Scalars, IntTypes
    <2> QED
      BY <1>1, <2>4, InputsUnfold, ValuesUnfold
  <1>3. \A i \in Nat : i < type.lists /\ i \in T => i + 1 \in T
    <2> TAKE i \in Nat
    <2> HAVE i < type.lists /\ i \in T
    <2> DEFINE U == inputs[i]
               V == values[i]
    <2>1. i + 1 \in 1..type.lists /\ (i + 1) - 1 = i
      BY <1>1
    <2>2. inputs[i + 1] = BoundedSeq(U, MaxList) /\ values[i + 1] = Short(V)
      BY <2>1, InputsUnfold, ValuesUnfold
    <2>3. U \subseteq V
      OBVIOUS
    <2> HIDE DEF U, V
    <2>4. ASSUME NEW x \in BoundedSeq(U, MaxList)
          PROVE  x \in Short(V)
      <3>1. PICK m \in 0..MaxList : x \in [1..m -> U]
        BY DEF BoundedSeq, SeqOf
      <3>2. m \in Nat /\ m < HalfInt
        BY HproseBufferAssumption
      <3>3. x \in Seq(U) /\ Len(x) = m
        BY <3>1, <3>2
      <3>4. x \in Seq(V)
        BY <2>3, <3>3, SeqMonotonic
      <3> QED
        BY <3>2, <3>3, <3>4 DEF Short
    <2> QED
      BY <2>1, <2>2, <2>4
  <1>4. \A i \in 0..type.lists : i \in T
    <2> HIDE DEF T
    <2> QED
      BY <1>1, <1>2, <1>3, UpTo
  <1>5. inputs[type.lists] \subseteq values[type.lists]
    BY <1>1, <1>4
  <1> QED
    BY <1>5, InputsUnfold, ValuesUnfold

-----------------------------------------------------------------------------
(* Sequences of bytes, one after the other *)

(* The recursive function of FlattenSeq, from 0 on.                        *)
LEMMA FlattenExists ==
  ASSUME NEW seqs, NEW m \in Nat
  PROVE  \E f : f = [i \in 0..m |->
                      IF i = 0 THEN <<>>
                      ELSE IF i = 1 THEN seqs[i] ELSE f[i - 1] \o seqs[i]]
  <1> DEFINE base == <<>>
             step(x, i) == IF i = 1 THEN seqs[i] ELSE x \o seqs[i]
             upto(g, n) ==
               g = [i \in 0..n |-> IF i = 0 THEN base ELSE step(g[i - 1], i)]
             T == {n \in Nat : \E g : upto(g, n)}
  <1> HIDE DEF base, step
  <1>1. 0 \in T
    <2>1. upto([i \in 0..0 |-> base], 0)
      OBVIOUS
    <2> QED
      BY <2>1
  <1>2. \A n \in Nat : n \in T => n + 1 \in T
    <2> TAKE n \in Nat
    <2> HAVE n \in T
    <2>1. PICK g : upto(g, n)
      OBVIOUS
    <2> DEFINE h == [i \in 0..(n + 1) |-> IF i <= n THEN g[i]
                                          ELSE step(g[n], n + 1)]
    <2>2. \A i \in 0..(n + 1) :
            h[i] = IF i = 0 THEN base ELSE step(h[i - 1], i)
      <3> TAKE i \in 0..(n + 1)
      <3>1. CASE i = 0
        BY <2>1, <3>1
      <3>2. CASE i # 0 /\ i <= n
        BY <2>1, <3>2
      <3>3. CASE i = n + 1
        BY <2>1, <3>3
      <3> QED
        BY <3>1, <3>2, <3>3
    <2>3. upto(h, n + 1)
      BY <2>2
    <2> HIDE DEF h, upto
    <2> QED
      BY <2>3
  <1>3. m \in T
    <2> HIDE DEF T
    <2> QED
      BY <1>1, <1>2, Induction
  <1>4. PICK g : upto(g, m)
    BY <1>3
  <1>5. g = [i \in 0..m |->
                      IF i = 0 THEN <<>>
                      ELSE IF i = 1 THEN seqs[i] ELSE g[i - 1] \o seqs[i]]
    BY <1>4 DEF base, step
  <1> QED
    BY <1>5

(* FlattenSeq appends one sequence after the other.                        *)
LEMMA FlattenUnfold ==
  ASSUME NEW n \in Nat, NEW seqs \in [1..n -> Bytes]
  PROVE  \E flat \in [0..n -> Bytes] :
           /\ flat[0] = <<>> /\ flat[n] = FlattenSeq(seqs)
           /\ \A i \in 1..n : flat[i] = flat[i - 1] \o seqs[i]
  <1>1. seqs \in Seq(Bytes) /\ Len(seqs) = n
    OBVIOUS
  <1>2. <<>> \in Bytes
    BY DEF Bytes
  <1>3. CASE n = 0
    <2>1. FlattenSeq(seqs) = seqs /\ seqs = <<>>
      <3>1. FlattenSeq(seqs) = seqs
        BY <1>1, <1>3 DEF FlattenSeq
      <3> QED
        BY <1>1, <1>3, <3>1, EmptySeq
    <2> DEFINE flat == [i \in 0..n |-> <<>>]
    <2>2. flat \in [0..n -> Bytes] /\ flat[0] = <<>> /\ flat[n] = <<>>
      BY <1>2
    <2>3. \A i \in 1..n : flat[i] = flat[i - 1] \o seqs[i]
      BY <1>3
    <2> QED
      BY <2>1, <2>2, <2>3
  <1>4. CASE n > 0
    <2>1. \E f : f = [i \in 1..n |-> IF i = 1 THEN seqs[i]
                                     ELSE f[i - 1] \o seqs[i]]
      <3>1. PICK f : f = [i \in 0..n |->
                            IF i = 0 THEN <<>>
                            ELSE IF i = 1 THEN seqs[i]
                            ELSE f[i - 1] \o seqs[i]]
        BY FlattenExists
      <3> DEFINE h == [i \in 1..n |-> f[i]]
      <3>2. \A i \in 1..n :
              h[i] = IF i = 1 THEN seqs[i] ELSE h[i - 1] \o seqs[i]
        <4> TAKE i \in 1..n
        <4>1. CASE i = 1
          BY <3>1, <4>1
        <4>2. CASE i # 1
          <5>1. i - 1 \in 1..n /\ i \in 0..n
            BY <4>2
          <5>2. f[i] = f[i - 1] \o seqs[i]
            BY <3>1, <4>2, <5>1
          <5> QED
            BY <4>2, <5>1, <5>2
        <4> QED
          BY <4>1, <4>2
      <3>3. h = [i \in 1..n |-> IF i = 1 THEN seqs[i]
                                ELSE h[i - 1] \o seqs[i]]
        BY <3>2
      <3> HIDE DEF h
      <3> QED
        BY <3>3
    <2> DEFINE g == CHOOSE f : f = [i \in 1..n |-> IF i = 1 THEN seqs[i]
                                                   ELSE f[i - 1] \o seqs[i]]
               flat == [i \in 0..n |-> IF i = 0 THEN <<>> ELSE g[i]]
               T == {i \in 0..n : flat[i] \in Bytes}
    <2>2. FlattenSeq(seqs) = g[n]
      BY <1>1, <1>4 DEF FlattenSeq
    <2>3. g = [i \in 1..n |-> IF i = 1 THEN seqs[i]
                              ELSE g[i - 1] \o seqs[i]]
      BY <2>1
    <2> HIDE DEF g
    <2>4. flat[0] = <<>> /\ flat[n] = FlattenSeq(seqs)
      BY <1>4, <2>2
    <2>5. \A i \in 1..n : flat[i] = flat[i - 1] \o seqs[i]
      <3> TAKE i \in 1..n
      <3>1. CASE i = 1
        <4>1. flat[i] = seqs[i] /\ flat[i - 1] = <<>> /\ seqs[i] \in Bytes
          BY <2>3, <3>1
        <4> QED
          BY <4>1, ConcatEmptySeq DEF Bytes
      <3>2. CASE i # 1
        <4>1. i - 1 \in 1..n /\ i \in 0..n /\ i - 1 \in 0..n
          BY <3>2
        <4>2. flat[i] = g[i] /\ flat[i - 1] = g[i - 1]
          BY <3>2, <4>1
        <4> QED
          BY <2>3, <3>2, <4>2
      <3> QED
        BY <3>1, <3>2
    <2> HIDE DEF flat
    <2>6. \A i \in 0..n : i \in T
      <3>1. 0 \in T
        BY <1>2, <2>4
      <3>2. \A i \in Nat : i < n /\ i \in T => i + 1 \in T
        <4> TAKE i \in Nat
        <4> HAVE i < n /\ i \in T
        <4>1. i + 1 \in 1..n /\ i + 1 \in 0..n /\ (i + 1) - 1 = i
          OBVIOUS
        <4>2. flat[i + 1] = flat[i] \o seqs[i + 1]
          BY <2>5, <4>1
        <4>3. flat[i] \in Bytes /\ seqs[i + 1] \in Bytes
          BY <4>1
        <4>4. flat[i] \o seqs[i + 1] \in Bytes
          BY <4>3, ConcatBytes
        <4> QED
          BY <4>1, <4>2, <4>4
      <3> HIDE DEF T
      <3> QED
        BY <3>1, <3>2, UpTo
    <2>7. flat \in [0..n -> Bytes]
      <3>1. flat = [i \in 0..n |-> flat[i]]
        BY DEF flat
      <3> QED
        BY <2>6, <3>1
    <2> QED
      BY <2>4, <2>5, <2>7
  <1>5. n = 0 \/ n > 0
    OBVIOUS
  <1> QED
    BY <1>3, <1>4, <1>5, Zenon

(* Where each of them is, when the buffer has them all.                    *)
LEMMA FlattenHolds ==
  ASSUME NEW buf \in Bytes, NEW p \in Pos, NEW n \in Nat,
         NEW seqs \in [1..n -> Bytes], Holds(buf, p, FlattenSeq(seqs))
  PROVE  \E at \in [0..n -> Pos] :
           /\ at[0] = p /\ at[n] = p + Len(FlattenSeq(seqs))
           /\ \A i \in 1..n : /\ Holds(buf, at[i - 1], seqs[i])
                              /\ at[i] = at[i - 1] + Len(seqs[i])
  <1>1. PICK flat \in [0..n -> Bytes] :
          /\ flat[0] = <<>> /\ flat[n] = FlattenSeq(seqs)
          /\ \A i \in 1..n : flat[i] = flat[i - 1] \o seqs[i]
    BY FlattenUnfold
  <1> DEFINE at == [i \in 0..n |-> p + Len(flat[i])]
             T == {j \in 0..n : Holds(buf, p, flat[n - j])}
  <1>2. 0 \in T
    <2>1. n - 0 = n
      OBVIOUS
    <2> QED
      BY <1>1, <2>1
  <1>3. \A j \in Nat : j < n /\ j \in T => j + 1 \in T
    <2> TAKE j \in Nat
    <2> HAVE j < n /\ j \in T
    <2> DEFINE i == n - j
    <2>1. i \in 1..n /\ i - 1 = n - (j + 1) /\ j + 1 \in 0..n /\ i - 1 \in 0..n
      OBVIOUS
    <2>2. Holds(buf, p, flat[i])
      OBVIOUS
    <2> HIDE DEF i
    <2>3. Holds(buf, p, flat[i - 1] \o seqs[i])
      BY <1>1, <2>1, <2>2
    <2>4. flat[i - 1] \in Bytes /\ seqs[i] \in Bytes
      BY <2>1
    <2>5. Holds(buf, p, flat[i - 1])
      BY <2>3, <2>4, HoldsConcat
    <2> QED
      BY <2>1, <2>5
  <1>4. \A j \in 0..n : j \in T
    <2> HIDE DEF T
    <2> QED
      BY <1>2, <1>3, UpTo
  <1>5. \A i \in 0..n : Holds(buf, p, flat[i])
    <2> TAKE i \in 0..n
    <2>1. n - i \in 0..n /\ n - (n - i) = i
      OBVIOUS
    <2> QED
      BY <1>4, <2>1
  <1>6. at \in [0..n -> Pos] /\ at[0] = p /\ at[n] = p + Len(FlattenSeq(seqs))
    <2>1. \A i \in 0..n : Len(flat[i]) \in Nat
      BY ConcatBytes
    <2>2. at \in [0..n -> Pos]
      BY <2>1 DEF Pos
    <2>3. at[0] = p + Len(<<>>) /\ at[n] = p + Len(FlattenSeq(seqs))
      BY <1>1
    <2> QED
      BY <2>2, <2>3 DEF Pos
  <1>7. ASSUME NEW i \in 1..n
        PROVE  /\ Holds(buf, at[i - 1], seqs[i])
               /\ at[i] = at[i - 1] + Len(seqs[i])
    <2>1. i \in 0..n /\ i - 1 \in 0..n
      OBVIOUS
    <2>2. /\ flat[i - 1] \in Bytes /\ seqs[i] \in Bytes
          /\ flat[i] = flat[i - 1] \o seqs[i]
      BY <1>1, <2>1
    <2>3. Holds(buf, p, flat[i - 1] \o seqs[i])
      BY <1>5, <2>1, <2>2
    <2>4. /\ Holds(buf, p + Len(flat[i - 1]), seqs[i])
          /\ p + Len(flat[i - 1] \o seqs[i])
               = (p + Len(flat[i - 1])) + Len(seqs[i])
      BY <2>2, <2>3, HoldsConcat
    <2> QED
      BY <2>1, <2>2, <2>4
  <1> HIDE DEF at
  <1> QED
    BY <1>6, <1>7

(* Their bytes, and the first.                                             *)
LEMMA FlattenBytes ==
  ASSUME NEW n \in Nat, NEW seqs \in [1..n -> Bytes]
  PROVE  /\ FlattenSeq(seqs) \in Bytes
         /\ n = 0 => FlattenSeq(seqs) = <<>>
         /\ FlattenSeq(seqs) # <<>>
            => \E i \in 1..n : /\ seqs[i] # <<>>
                               /\ FlattenSeq(seqs)[1] = seqs[i][1]
  <1>1. PICK flat \in [0..n -> Bytes] :
          /\ flat[0] = <<>> /\ flat[n] = FlattenSeq(seqs)
          /\ \A i \in 1..n : flat[i] = flat[i - 1] \o seqs[i]
    BY FlattenUnfold
  <1> DEFINE first(j) == \E i \in 1..n : /\ seqs[i] # <<>>
                                         /\ flat[j][1] = seqs[i][1]
             T == {j \in 0..n : flat[j] # <<>> => first(j)}
  <1>2. 0 \in T
    BY <1>1
  <1>3. \A j \in Nat : j < n /\ j \in T => j + 1 \in T
    <2> TAKE j \in Nat
    <2> HAVE j < n /\ j \in T
    <2> DEFINE k == j + 1
    <2>1. k \in 1..n /\ k - 1 = j /\ k \in 0..n /\ j \in 0..n
      OBVIOUS
    <2> HIDE DEF k
    <2>2. /\ flat[j] \in Bytes /\ seqs[k] \in Bytes
          /\ flat[k] = flat[j] \o seqs[k]
      BY <1>1, <2>1
    <2>3. CASE flat[j] = <<>>
      <3>1. flat[k] = seqs[k]
        BY <2>2, <2>3, ConcatEmptySeq DEF Bytes
      <3>2. flat[k] # <<>> => first(k)
        BY <2>1, <3>1
      <3> QED
        BY <2>1, <3>2 DEF k
    <2>4. CASE flat[j] # <<>>
      <3>1. Len(flat[j]) \in Nat /\ Len(flat[j]) > 0 /\ Len(seqs[k]) \in Nat
        BY <2>2, <2>4, EmptySeq, ConcatBytes DEF Bytes
      <3>2. 1 \in 1 .. Len(flat[j]) + Len(seqs[k]) /\ 1 <= Len(flat[j])
        BY <3>1
      <3>3. flat[k][1] = flat[j][1]
        BY <2>2, <3>2, ConcatProperties DEF Bytes
      <3>4. first(j)
        BY <2>4
      <3>5. first(k)
        BY <3>3, <3>4
      <3> QED
        BY <2>1, <3>5 DEF k
    <2> QED
      BY <2>3, <2>4
  <1>4. n \in T
    <2>1. \A j \in 0..n : j \in T
      <3> HIDE DEF T
      <3> QED
        BY <1>2, <1>3, UpTo
    <2> QED
      BY <2>1
  <1>5. FlattenSeq(seqs) \in Bytes /\ (n = 0 => FlattenSeq(seqs) = <<>>)
    BY <1>1
  <1> QED
    BY <1>1, <1>4, <1>5

(* What is written for each value of each depth.                           *)
LEMMA WriterExists ==
  ASSUME NEW type, type.lists \in Nat
  PROVE  \E f : f = [i \in 0..type.lists |->
         IF i = 0
         THEN [v \in ScalarValues(type.of) |-> WriteScalar(v, type.of)]
         ELSE [v \in Short(DOMAIN f[i - 1]) |-> WriteList(v, f[i - 1])]]
  <1> DEFINE base == [v \in ScalarValues(type.of) |-> WriteScalar(v, type.of)]
             step(x, i) == [v \in Short(DOMAIN x) |-> WriteList(v, x)]
             upto(g, n) ==
               g = [i \in 0..n |-> IF i = 0 THEN base ELSE step(g[i - 1], i)]
             T == {n \in Nat : \E g : upto(g, n)}
  <1> HIDE DEF base, step
  <1>1. 0 \in T
    <2>1. upto([i \in 0..0 |-> base], 0)
      OBVIOUS
    <2> QED
      BY <2>1
  <1>2. \A n \in Nat : n \in T => n + 1 \in T
    <2> TAKE n \in Nat
    <2> HAVE n \in T
    <2>1. PICK g : upto(g, n)
      OBVIOUS
    <2> DEFINE h == [i \in 0..(n + 1) |-> IF i <= n THEN g[i]
                                          ELSE step(g[n], n + 1)]
    <2>2. \A i \in 0..(n + 1) :
            h[i] = IF i = 0 THEN base ELSE step(h[i - 1], i)
      <3> TAKE i \in 0..(n + 1)
      <3>1. CASE i = 0
        BY <2>1, <3>1
      <3>2. CASE i # 0 /\ i <= n
        BY <2>1, <3>2
      <3>3. CASE i = n + 1
        BY <2>1, <3>3
      <3> QED
        BY <3>1, <3>2, <3>3
    <2>3. upto(h, n + 1)
      BY <2>2
    <2> HIDE DEF h, upto
    <2> QED
      BY <2>3
  <1>3. type.lists \in T
    <2> HIDE DEF T
    <2> QED
      BY <1>1, <1>2, Induction
  <1>4. PICK g : upto(g, type.lists)
    BY <1>3
  <1>5. g = [i \in 0..type.lists |->
         IF i = 0
         THEN [v \in ScalarValues(type.of) |-> WriteScalar(v, type.of)]
         ELSE [v \in Short(DOMAIN g[i - 1]) |-> WriteList(v, g[i - 1])]]
    BY <1>4 DEF base, step
  <1> QED
    BY <1>5

IsWriter(f, type) ==
  f = [i \in 0..type.lists |->
         IF i = 0
         THEN [v \in ScalarValues(type.of) |-> WriteScalar(v, type.of)]
         ELSE [v \in Short(DOMAIN f[i - 1]) |-> WriteList(v, f[i - 1])]]

WriterTo(type) == CHOOSE f : IsWriter(f, type)

LEMMA WriterUnfold ==
  ASSUME NEW type \in Types
  PROVE  LET writer == WriterTo(type)
         IN /\ \A v : Write(v, type) = writer[type.lists][v]
            /\ DOMAIN writer[0] = ScalarValues(type.of)
            /\ \A v \in ScalarValues(type.of) :
                 writer[0][v] = WriteScalar(v, type.of)
            /\ writer[0] = [v \in DOMAIN writer[0] |-> writer[0][v]]
            /\ \A i \in 1..type.lists :
                 /\ DOMAIN writer[i] = Short(DOMAIN writer[i - 1])
                 /\ \A v \in Short(DOMAIN writer[i - 1]) :
                      writer[i][v] = WriteList(v, writer[i - 1])
                 /\ writer[i] = [v \in DOMAIN writer[i] |-> writer[i][v]]
  <1> DEFINE writer == WriterTo(type)
  <1>1. type.lists \in Nat
    BY DEF Types
  <1>2. \A v : Write(v, type) = writer[type.lists][v]
    BY DEF Write, WriterTo, IsWriter
  <1>3. IsWriter(writer, type)
    <2>1. \E f : IsWriter(f, type)
      BY <1>1, WriterExists, ZenonT(60) DEF IsWriter
    <2> QED
      BY <2>1, Zenon DEF WriterTo
  <1> HIDE DEF writer
  <1>4. writer[0] = [v \in ScalarValues(type.of) |-> WriteScalar(v, type.of)]
    BY <1>1, <1>3 DEF IsWriter
  <1>5. ASSUME NEW i \in 1..type.lists
        PROVE  writer[i] = [v \in Short(DOMAIN writer[i - 1]) |->
                              WriteList(v, writer[i - 1])]
    <2>1. i \in 0..type.lists /\ i # 0
      BY <1>1
    <2> QED
      BY <1>3, <2>1, Zenon DEF IsWriter
  <1>6. /\ DOMAIN writer[0] = ScalarValues(type.of)
        /\ \A v \in ScalarValues(type.of) :
             writer[0][v] = WriteScalar(v, type.of)
        /\ writer[0] = [v \in DOMAIN writer[0] |-> writer[0][v]]
    BY <1>4
  <1>7. ASSUME NEW i \in 1..type.lists
        PROVE  /\ DOMAIN writer[i] = Short(DOMAIN writer[i - 1])
               /\ \A v \in Short(DOMAIN writer[i - 1]) :
                    writer[i][v] = WriteList(v, writer[i - 1])
               /\ writer[i] = [v \in DOMAIN writer[i] |-> writer[i][v]]
    BY <1>5
  <1> QED
    BY <1>2, <1>6, <1>7 DEF writer

(* The first byte of what is written for a type, which is all that a       *)
(* reader of another type looks at.                                        *)
Starts(type) ==
  IF type.lists > 0 THEN {"a"}
  ELSE CASE type.of \in IntTypes ->
              {Numeral(d) : d \in 0..MaxDigit} \cup {"i", "l"}
         [] type.of = "bool"   -> {"t", "f"}
         [] type.of = "string" -> {"e", "s", "b"}
         [] type.of = "map"    -> {}

LEMMA WriteIntegerBytes ==
  ASSUME NEW of \in IntTypes, NEW n \in Integer(of)
  PROVE  /\ WriteInteger(n, of) \in Bytes /\ WriteInteger(n, of) # <<>>
         /\ WriteInteger(n, of)[1]
              \in {Numeral(d) : d \in 0..MaxDigit} \cup {"i", "l"}
  <1>1. Numeral(n) \in Token /\ {"i", "l", TagSemicolon} \subseteq Token
    BY IntegerNumbers, TokenFacts DEF Marks
  <1>2. CASE n \in 0..MaxDigit
    BY <1>1, <1>2 DEF WriteInteger, Bytes
  <1>3. CASE n \notin 0..MaxDigit
    <2>1. PICK tag \in {"i", "l"} :
            WriteInteger(n, of) = <<tag, Numeral(n), TagSemicolon>>
      BY <1>3 DEF WriteInteger
    <2> QED
      BY <1>1, <2>1 DEF Bytes
  <1> QED
    BY <1>2, <1>3

LEMMA WriteScalarBytes ==
  ASSUME NEW of \in Scalars, NEW v \in ScalarValues(of)
  PROVE  /\ WriteScalar(v, of) \in Bytes
         /\ of # "map" =>
              /\ WriteScalar(v, of) # <<>>
              /\ WriteScalar(v, of)[1] \in Starts([lists |-> 0, of |-> of])
         /\ of = "map" => WriteScalar(v, of) = <<>>
  <1>0. [lists |-> 0, of |-> of].lists = 0 /\ [lists |-> 0, of |-> of].of = of
    OBVIOUS
  <1>1. CASE of \in IntTypes
    <2>1. v \in Integer(of) /\ WriteScalar(v, of) = WriteInteger(v, of)
      BY <1>1 DEF ScalarValues, WriteScalar, IntTypes
    <2>2. Starts([lists |-> 0, of |-> of])
            = {Numeral(d) : d \in 0..MaxDigit} \cup {"i", "l"}
      BY <1>0, <1>1 DEF Starts, IntTypes
    <2>3. of # "map"
      BY <1>1 DEF IntTypes
    <2> QED
      BY <1>1, <2>1, <2>2, <2>3, WriteIntegerBytes
  <1>2. CASE of = "bool"
    <2>1. PICK b \in {"t", "f"} : WriteScalar(v, of) = <<b>>
      BY <1>2 DEF WriteScalar, WriteBool, IntTypes
    <2>2. {"t", "f"} \subseteq Token
      BY TokenFacts DEF Marks
    <2>3. Starts([lists |-> 0, of |-> of]) = {"t", "f"}
      BY <1>0, <1>2 DEF Starts, IntTypes
    <2>4. <<b>> # <<>> /\ <<b>>[1] = b /\ <<b>> \in Bytes
      BY <2>2 DEF Bytes
    <2>5. of # "map"
      BY <1>2
    <2> QED
      BY <2>1, <2>3, <2>4, <2>5, Zenon
  <1>3. CASE of = "string"
    <2>1. v \in Short(Token) /\ WriteScalar(v, of) = WriteString(v, FALSE)
      BY <1>3 DEF ScalarValues, WriteScalar, IntTypes
    <2>2. Starts([lists |-> 0, of |-> of]) = {"e", "s", "b"}
      BY <1>0, <1>3 DEF Starts, IntTypes
    <2>3. /\ WriteString(v, FALSE) \in Bytes
          /\ WriteString(v, FALSE) # <<>>
          /\ WriteString(v, FALSE)[1] \in {"e", "s", "b"}
      <3>1. CASE v = <<>>
        <4>1. WriteString(v, FALSE) = <<"e">>
          BY <3>1 DEF WriteString
        <4>2. WriteString(v, FALSE) \in Bytes
          BY <2>1, WriteStringBytes
        <4>3. <<"e">> # <<>> /\ <<"e">>[1] = "e"
          OBVIOUS
        <4> QED
          BY <4>1, <4>2, <4>3, Zenon
      <3>2. CASE v # <<>>
        <4> DEFINE head == <<"b", Numeral(Len(v)), TagQuote>>
                   quote == <<TagQuote>>
        <4>1. /\ WriteString(v, FALSE) \in Bytes
              /\ WriteString(v, FALSE) = head \o v \o quote
          BY <2>1, <3>2, WriteStringBytes
        <4>2. /\ head \in Bytes /\ Len(head) = 3 /\ head[1] = "b"
              /\ quote \in Bytes /\ v \in Bytes
          BY <2>1, ShortFacts, TokenFacts DEF Bytes, Marks
        <4> HIDE DEF head, quote
        <4>3. /\ head \o v \in Bytes /\ Len(head \o v) = 3 + Len(v)
              /\ Len(v) \in Nat /\ Len(quote) \in Nat
          BY <4>2, ConcatBytes
        <4>4. (head \o v)[1] = "b"
          <5>1. 1 \in 1 .. Len(head) + Len(v) /\ 1 <= Len(head)
            BY <4>2, <4>3
          <5> QED
            BY <4>2, <5>1, ConcatProperties DEF Bytes
        <4>5. ((head \o v) \o quote)[1] = "b"
          <5>1. /\ 1 \in 1 .. Len(head \o v) + Len(quote)
                /\ 1 <= Len(head \o v)
            BY <4>3
          <5> QED
            BY <4>2, <4>3, <4>4, <5>1, ConcatProperties DEF Bytes
        <4>6. (head \o v) \o quote # <<>>
          <5>1. Len((head \o v) \o quote) = Len(head \o v) + Len(quote)
            BY <4>2, <4>3, ConcatBytes
          <5> QED
            BY <4>3, <5>1
        <4> QED
          BY <4>1, <4>5, <4>6
      <3> QED
        BY <3>1, <3>2
    <2> QED
      BY <1>3, <2>1, <2>2, <2>3
  <1>4. CASE of = "map"
    BY <1>4 DEF WriteScalar, IntTypes, Bytes
  <1> QED
    BY <1>1, <1>2, <1>3, <1>4 DEF Scalars

(* The bytes of a list: its header, its elements and a brace.              *)
ListHead(v) ==
  IF v = <<>> THEN <<"a", TagOpenbrace>>
  ELSE <<"a", Numeral(Len(v)), TagOpenbrace>>

LEMMA WriteListBytes ==
  ASSUME NEW V, NEW write \in [V -> Bytes], NEW v \in Short(V)
  PROVE  LET seqs == [i \in 1..Len(v) |-> write[v[i]]]
         IN /\ Len(v) \in Nat /\ seqs \in [1..Len(v) -> Bytes]
            /\ ListHead(v) \in Bytes /\ FlattenSeq(seqs) \in Bytes
            /\ <<TagClosebrace>> \in Bytes
            /\ WriteList(v, write)
                 = (ListHead(v) \o FlattenSeq(seqs)) \o <<TagClosebrace>>
            /\ WriteList(v, write) \in Bytes
            /\ WriteList(v, write) # <<>> /\ WriteList(v, write)[1] = "a"
  <1> DEFINE seqs == [i \in 1..Len(v) |-> write[v[i]]]
             h == ListHead(v)
             f == FlattenSeq(seqs)
             c == <<TagClosebrace>>
  <1>1. Len(v) \in Nat /\ Len(v) \in Numbers /\ v \in Seq(V)
    BY ShortFacts
  <1>2. seqs \in [1..Len(v) -> Bytes]
    BY <1>1
  <1>3. {"a", TagOpenbrace, TagClosebrace, Numeral(Len(v))} \subseteq Token
    BY <1>1, TokenFacts DEF Marks
  <1>4. h \in Bytes /\ Len(h) \in {2, 3} /\ h[1] = "a"
    BY <1>3 DEF ListHead, Bytes
  <1>5. c \in Bytes /\ Len(c) = 1
    BY <1>3 DEF Bytes
  <1>6. f \in Bytes
    <2> HIDE DEF seqs
    <2> QED
      BY <1>1, <1>2, FlattenBytes
  <1>7. WriteList(v, write) = (h \o f) \o c
    BY DEF WriteList, ListHead
  <1> HIDE DEF seqs, h, f, c
  <1>8. /\ h \o f \in Bytes /\ Len(h \o f) = Len(h) + Len(f)
        /\ Len(f) \in Nat /\ Len(h) \in Nat
    BY <1>4, <1>6, ConcatBytes
  <1>9. (h \o f)[1] = "a"
    <2>1. 1 \in 1 .. Len(h) + Len(f) /\ 1 <= Len(h)
      BY <1>4, <1>8
    <2> QED
      BY <1>4, <1>6, <2>1, ConcatProperties DEF Bytes
  <1>10. /\ (h \o f) \o c \in Bytes
         /\ Len((h \o f) \o c) = Len(h \o f) + Len(c)
    BY <1>5, <1>8, ConcatBytes
  <1>11. ((h \o f) \o c)[1] = "a"
    <2>1. 1 \in 1 .. Len(h \o f) + Len(c) /\ 1 <= Len(h \o f)
      BY <1>4, <1>5, <1>8
    <2> QED
      BY <1>5, <1>8, <1>9, <2>1, ConcatProperties DEF Bytes
  <1>12. (h \o f) \o c # <<>>
    BY <1>5, <1>8, <1>10
  <1> QED
    BY <1>1, <1>2, <1>4, <1>5, <1>6, <1>7, <1>10, <1>11, <1>12
       DEF seqs, h, f, c

(* What is written for a value of any type.                                *)
LEMMA WriteBytes ==
  ASSUME NEW type \in Types
  PROVE  /\ \A i \in 0..type.lists :
              WriterTo(type)[i] \in [ValuesTo(type)[i] -> Bytes]
         /\ \A v \in Values(type) :
              /\ Write(v, type) \in Bytes
              /\ Write(v, type) # <<>> => Write(v, type)[1] \in Starts(type)
              /\ Supported(type) => Write(v, type) # <<>>
  <1> DEFINE writer == WriterTo(type)
             values == ValuesTo(type)
             T == {i \in 0..type.lists : writer[i] \in [values[i] -> Bytes]}
  <1>1. type.lists \in Nat /\ type.of \in Scalars
    BY ValuesUnfold
  <1>2. 0 \in T
    <2>1. /\ DOMAIN writer[0] = ScalarValues(type.of)
          /\ \A v \in ScalarValues(type.of) :
               writer[0][v] = WriteScalar(v, type.of)
          /\ writer[0] = [v \in DOMAIN writer[0] |-> writer[0][v]]
      BY WriterUnfold
    <2>2. values[0] = ScalarValues(type.of)
      BY ValuesUnfold
    <2>3. \A v \in ScalarValues(type.of) : WriteScalar(v, type.of) \in Bytes
      BY <1>1, WriteScalarBytes
    <2> HIDE DEF writer, values
    <2>4. writer[0] \in [values[0] -> Bytes]
      BY <2>1, <2>2, <2>3
    <2> QED
      BY <1>1, <2>4
  <1>3. \A i \in Nat : i < type.lists /\ i \in T => i + 1 \in T
    <2> TAKE i \in Nat
    <2> HAVE i < type.lists /\ i \in T
    <2> DEFINE w == writer[i]
               V == values[i]
    <2>1. i + 1 \in 1..type.lists /\ (i + 1) - 1 = i /\ i + 1 \in 0..type.lists
      BY <1>1
    <2> DEFINE k == i + 1
    <2>2. /\ DOMAIN writer[k] = Short(DOMAIN w)
          /\ \A v \in Short(DOMAIN w) : writer[k][v] = WriteList(v, w)
          /\ writer[k] = [v \in DOMAIN writer[k] |-> writer[k][v]]
      <3>1. k \in 1..type.lists /\ k - 1 = i
        BY <2>1
      <3> HIDE DEF k
      <3> QED
        BY <3>1, WriterUnfold
    <2>3. values[k] = Short(V)
      BY <2>1, ValuesUnfold
    <2>4. w \in [V -> Bytes] /\ DOMAIN w = V
      OBVIOUS
    <2> HIDE DEF w, V
    <2>5. \A v \in Short(V) : WriteList(v, w) \in Bytes
      BY <2>4, WriteListBytes
    <2> HIDE DEF writer, values, k
    <2>6. writer[k] \in [values[k] -> Bytes]
      BY <2>2, <2>3, <2>4, <2>5
    <2>7. k \in 0..type.lists
      BY <2>1 DEF k
    <2> QED
      BY <2>6, <2>7 DEF k
  <1>4. \A i \in 0..type.lists : i \in T
    <2> HIDE DEF T
    <2> QED
      BY <1>1, <1>2, <1>3, UpTo
  <1>5. ASSUME NEW v \in Values(type)
        PROVE  /\ Write(v, type) \in Bytes
               /\ Write(v, type) # <<>> => Write(v, type)[1] \in Starts(type)
               /\ Supported(type) => Write(v, type) # <<>>
    <2>1. v \in values[type.lists] /\ Write(v, type) = writer[type.lists][v]
      BY ValuesUnfold, WriterUnfold
    <2>2. CASE type.lists = 0
      <3>1. v \in ScalarValues(type.of)
        BY <2>1, <2>2, ValuesUnfold
      <3>2. Write(v, type) = WriteScalar(v, type.of)
        BY <2>1, <2>2, <3>1, WriterUnfold
      <3>3. Starts(type) = Starts([lists |-> 0, of |-> type.of])
        <4>1. type = [lists |-> 0, of |-> type.of]
          BY <2>2 DEF Types
        <4> QED
          BY <4>1
      <3> QED
        BY <1>1, <3>1, <3>2, <3>3, WriteScalarBytes DEF Supported
    <2>3. CASE type.lists # 0
      <3> DEFINE i == type.lists - 1
                 w == writer[i]
                 V == values[i]
      <3>1. type.lists \in 1..type.lists /\ i \in 0..type.lists
        BY <1>1, <2>3
      <3>2. /\ \A x \in Short(DOMAIN w) :
                  writer[type.lists][x] = WriteList(x, w)
            /\ values[type.lists] = Short(V)
        BY <3>1, WriterUnfold, ValuesUnfold, ZenonT(60)
      <3>3. w \in [V -> Bytes] /\ DOMAIN w = V
        BY <1>4, <3>1
      <3> HIDE DEF w, V
      <3>4. v \in Short(V) /\ Write(v, type) = WriteList(v, w)
        BY <2>1, <3>2, <3>3
      <3>5. Starts(type) = {"a"}
        BY <1>1, <2>3 DEF Starts
      <3> QED
        BY <3>3, <3>4, <3>5, WriteListBytes, ZenonT(60)
    <2> QED
      BY <2>2, <2>3
  <1> QED
    BY <1>4, <1>5

-----------------------------------------------------------------------------
(* Lists *)

IsElems(f, read, pos, n) ==
  f = [i \in 0..n |->
         IF i = 0 THEN Got(<<>>, pos)
         ELSE IF ~f[i - 1].ok \/ ~read[f[i - 1].pos].ok THEN Fail(pos)
         ELSE Got(Append(f[i - 1].v, read[f[i - 1].pos].v),
                  read[f[i - 1].pos].pos)]

(* The recursive function of ReadElems exists.                             *)
LEMMA ElemsExist ==
  ASSUME NEW read, NEW pos, NEW m \in Nat
  PROVE  \E f : IsElems(f, read, pos, m)
  <1> DEFINE base == Got(<<>>, pos)
             step(x, i) == IF ~x.ok \/ ~read[x.pos].ok THEN Fail(pos)
                          ELSE Got(Append(x.v, read[x.pos].v), read[x.pos].pos)
             upto(g, n) ==
               g = [i \in 0..n |-> IF i = 0 THEN base ELSE step(g[i - 1], i)]
             T == {n \in Nat : \E g : upto(g, n)}
  <1> HIDE DEF base, step
  <1>1. 0 \in T
    <2>1. upto([i \in 0..0 |-> base], 0)
      OBVIOUS
    <2> QED
      BY <2>1
  <1>2. \A n \in Nat : n \in T => n + 1 \in T
    <2> TAKE n \in Nat
    <2> HAVE n \in T
    <2>1. PICK g : upto(g, n)
      OBVIOUS
    <2> DEFINE h == [i \in 0..(n + 1) |-> IF i <= n THEN g[i]
                                          ELSE step(g[n], n + 1)]
    <2>2. \A i \in 0..(n + 1) :
            h[i] = IF i = 0 THEN base ELSE step(h[i - 1], i)
      <3> TAKE i \in 0..(n + 1)
      <3>1. CASE i = 0
        BY <2>1, <3>1
      <3>2. CASE i # 0 /\ i <= n
        BY <2>1, <3>2
      <3>3. CASE i = n + 1
        BY <2>1, <3>3
      <3> QED
        BY <3>1, <3>2, <3>3
    <2>3. upto(h, n + 1)
      BY <2>2
    <2> HIDE DEF h, upto
    <2> QED
      BY <2>3
  <1>3. m \in T
    <2> HIDE DEF T
    <2> QED
      BY <1>1, <1>2, Induction
  <1>4. PICK g : upto(g, m)
    BY <1>3
  <1>5. IsElems(g, read, pos, m)
    BY <1>4 DEF base, step, IsElems
  <1> QED
    BY <1>5

LEMMA ElemsUnfold ==
  ASSUME NEW read, NEW pos, NEW n \in Nat
  PROVE  \E got :
           /\ ReadElems(read, pos, n) = got[n]
           /\ got[0] = Got(<<>>, pos)
           /\ \A i \in 1..n :
                got[i] = IF ~got[i - 1].ok \/ ~read[got[i - 1].pos].ok
                         THEN Fail(pos)
                         ELSE Got(Append(got[i - 1].v, read[got[i - 1].pos].v),
                                  read[got[i - 1].pos].pos)
  <1> DEFINE got == CHOOSE f : IsElems(f, read, pos, n)
  <1>1. ReadElems(read, pos, n) = got[n]
    BY DEF ReadElems, IsElems
  <1>2. IsElems(got, read, pos, n)
    <2>1. \E f : IsElems(f, read, pos, n)
      BY ElemsExist, Zenon
    <2> QED
      BY <2>1, Zenon
  <1> HIDE DEF got
  <1>3. got[0] = Got(<<>>, pos)
    BY <1>2 DEF IsElems
  <1>4. ASSUME NEW i \in 1..n
        PROVE  got[i] = IF ~got[i - 1].ok \/ ~read[got[i - 1].pos].ok
                        THEN Fail(pos)
                        ELSE Got(Append(got[i - 1].v, read[got[i - 1].pos].v),
                                 read[got[i - 1].pos].pos)
    <2>1. i \in 0..n /\ i # 0
      OBVIOUS
    <2> QED
      BY <1>2, <2>1, Zenon DEF IsElems
  <1> QED
    BY <1>1, <1>3, <1>4

(* Elements of a type are read as such.                                    *)
LEMMA ElemsTyped ==
  ASSUME NEW read, NEW V, \A p \in Nat : Reads(read[p], V),
         NEW pos \in Nat, NEW n \in Int
  PROVE  /\ Reads(ReadElems(read, pos, n), Seq(V))
         /\ ReadElems(read, pos, n).ok
            => Len(ReadElems(read, pos, n).v) = n
  <1>1. CASE n < 0
    <2>1. ReadElems(read, pos, n) = Fail(pos)
      BY <1>1 DEF ReadElems
    <2> QED
      BY <2>1 DEF Reads, Fail
  <1>2. CASE ~(n < 0)
    <2>0. n \in Nat
      BY <1>2
    <2>1. PICK got :
            /\ ReadElems(read, pos, n) = got[n]
            /\ got[0] = Got(<<>>, pos)
            /\ \A i \in 1..n :
                 got[i] = IF ~got[i - 1].ok \/ ~read[got[i - 1].pos].ok
                          THEN Fail(pos)
                          ELSE Got(Append(got[i - 1].v,
                                          read[got[i - 1].pos].v),
                                   read[got[i - 1].pos].pos)
      BY <2>0, ElemsUnfold
    <2> DEFINE T == {i \in 0..n : /\ Reads(got[i], Seq(V))
                                  /\ got[i].ok => Len(got[i].v) = i}
    <2>2. 0 \in T
      <3>1. <<>> \in Seq(V) /\ Len(<<>>) = 0
        OBVIOUS
      <3>2. Reads(Got(<<>>, pos), Seq(V)) /\ Len(Got(<<>>, pos).v) = 0
        BY <3>1 DEF Reads, Got
      <3> QED
        BY <2>0, <2>1, <3>2
    <2>3. \A i \in Nat : i < n /\ i \in T => i + 1 \in T
      <3> TAKE i \in Nat
      <3> HAVE i < n /\ i \in T
      <3> DEFINE k == i + 1
                 g == got[i]
                 r == read[g.pos]
      <3>1. k \in 1..n /\ k - 1 = i /\ k \in 0..n
        BY <2>0
      <3>2. /\ g.ok \in BOOLEAN /\ g.pos \in Nat
            /\ g.ok => g.v \in Seq(V) /\ Len(g.v) = i
        BY DEF Reads
      <3>3. r.ok \in BOOLEAN /\ r.pos \in Nat /\ (r.ok => r.v \in V)
        BY <3>2 DEF Reads
      <3>4. got[k] = IF ~g.ok \/ ~r.ok THEN Fail(pos)
                     ELSE Got(Append(g.v, r.v), r.pos)
        <4> HIDE DEF k
        <4> QED
          BY <2>1, <3>1
      <3> HIDE DEF g, r
      <3>5. CASE g.ok /\ r.ok
        <4>1. Append(g.v, r.v) \in Seq(V) /\ Len(Append(g.v, r.v)) = i + 1
          BY <3>2, <3>3, <3>5, AppendProperties
        <4>2. got[k] = Got(Append(g.v, r.v), r.pos)
          BY <3>4, <3>5
        <4>3. /\ Reads(Got(Append(g.v, r.v), r.pos), Seq(V))
              /\ Len(Got(Append(g.v, r.v), r.pos).v) = k
          BY <3>3, <4>1 DEF Reads, Got
        <4> HIDE DEF k
        <4>4. k \in T
          BY <3>1, <4>2, <4>3
        <4> QED
          BY <4>4 DEF k
      <3>6. CASE ~(g.ok /\ r.ok)
        <4>1. got[k] = Fail(pos)
          BY <3>4, <3>6
        <4>2. Reads(Fail(pos), Seq(V)) /\ Fail(pos).ok = FALSE
          BY DEF Reads, Fail
        <4> HIDE DEF k
        <4>3. k \in T
          BY <3>1, <4>1, <4>2
        <4> QED
          BY <4>3 DEF k
      <3> QED
        BY <3>5, <3>6
    <2>4. n \in T
      <3>1. \A i \in 0..n : i \in T
        <4> HIDE DEF T
        <4> QED
          BY <2>0, <2>2, <2>3, UpTo
      <3> QED
        BY <2>0, <3>1
    <2> QED
      BY <2>1, <2>4
  <1> QED
    BY <1>1, <1>2

(* What is read if it was v that was written: if anything, v, if it is one *)
(* of P; and the next read starts at q.                                    *)
Back(r, q, v, P) == r.ok => r.pos = q /\ (v \in P => r.v = v)

LEMMA ElemsBack ==
  ASSUME NEW read, NEW V, \A p \in Nat : Reads(read[p], V),
         NEW v \in Seq(V), NEW P, NEW n \in Nat, n = Len(v),
         NEW at \in [0..n -> Pos],
         \A i \in 1..n : Back(read[at[i - 1]], at[i], v[i], P)
  PROVE  /\ Back(ReadElems(read, at[0], n), at[n], v, Seq(P))
         /\ (\A i \in 1..n : read[at[i - 1]].ok)
            => ReadElems(read, at[0], n).ok
  <1> DEFINE pos == at[0]
             all == \A i \in 1..n : read[at[i - 1]].ok
             pass == v \in Seq(P)
  <1>1. PICK got :
          /\ ReadElems(read, pos, n) = got[n]
          /\ got[0] = Got(<<>>, pos)
          /\ \A i \in 1..n :
               got[i] = IF ~got[i - 1].ok \/ ~read[got[i - 1].pos].ok
                        THEN Fail(pos)
                        ELSE Got(Append(got[i - 1].v, read[got[i - 1].pos].v),
                                 read[got[i - 1].pos].pos)
    BY ElemsUnfold
  <1> DEFINE T == {i \in 0..n :
                     /\ got[i].ok \in BOOLEAN
                     /\ got[i].ok => got[i].pos = at[i]
                     /\ got[i].ok /\ pass => got[i].v = SubSeq(v, 1, i)
                     /\ all => got[i].ok}
  <1>2. 0 \in T
    <2>1. SubSeq(v, 1, 0) = <<>>
      BY SubSeqEmpty
    <2>2. /\ got[0].ok = TRUE /\ got[0].pos = at[0]
          /\ got[0].v = SubSeq(v, 1, 0)
      BY <1>1, <2>1 DEF Got
    <2> HIDE DEF all, pass
    <2>3. got[0].ok \in BOOLEAN
      BY <2>2, Zenon
    <2>4. 0 \in 0..n
      OBVIOUS
    <2> QED
      BY <2>2, <2>3, <2>4, Zenon
  <1>3. \A i \in Nat : i < n /\ i \in T => i + 1 \in T
    <2> TAKE i \in Nat
    <2> HAVE i < n /\ i \in T
    <2> DEFINE k == i + 1
               g == got[i]
               r == read[at[i]]
    <2>1. k \in 1..n /\ k - 1 = i /\ k \in 0..n /\ i \in 0..n
      OBVIOUS
    <2>2. /\ g.ok \in BOOLEAN
          /\ g.ok => g.pos = at[i]
          /\ g.ok /\ pass => g.v = SubSeq(v, 1, i)
          /\ all => g.ok
      OBVIOUS
    <2>3. got[k] = IF ~g.ok \/ ~read[g.pos].ok THEN Fail(pos)
                   ELSE Got(Append(g.v, read[g.pos].v), read[g.pos].pos)
      <3> HIDE DEF k
      <3> QED
        BY <1>1, <2>1
    <2>4. /\ r.ok \in BOOLEAN
          /\ r.ok => r.pos = at[k] /\ (v[k] \in P => r.v = v[k])
      <3>1. at[i] \in Nat
        BY <2>1 DEF Pos
      <3>2. Back(read[at[k - 1]], at[k], v[k], P)
        <4> HIDE DEF k
        <4> QED
          BY <2>1
      <3> QED
        BY <2>1, <3>1, <3>2 DEF Back, Reads
    <2>5. all => r.ok
      <3> HIDE DEF k
      <3> QED
        BY <2>1
    <2>6. pass => v[k] \in P /\ SubSeq(v, 1, k) = Append(SubSeq(v, 1, i), v[k])
      <3> HAVE pass
      <3>1. v[k] \in P
        BY <2>1, ElementOfSeq
      <3>2. 1 \in 1..Len(v) /\ k \in 1..Len(v)
        BY <2>1
      <3> HIDE DEF k
      <3>3. SubSeq(v, 1, k) = SubSeq(v, 1, k - 1) \o <<v[k]>>
        BY <3>2, SubSeqRecursiveSecond
      <3>4. SubSeq(v, 1, i) \in Seq(V)
        <4>1. \A j \in 1..i : v[j] \in V
          BY <2>1, ElementOfSeq
        <4> QED
          BY <4>1, SubSeqProperties
      <3>5. Append(SubSeq(v, 1, i), v[k]) = SubSeq(v, 1, i) \o <<v[k]>>
        <4>1. v[k] \in V
          BY <3>2, ElementOfSeq
        <4> QED
          BY <3>4, <4>1, AppendIsConcat
      <3> QED
        BY <2>1, <3>1, <3>3, <3>5
    <2> HIDE DEF all, pass, r, g
    <2>7. CASE g.ok /\ r.ok
      <3>1. got[k] = Got(Append(g.v, r.v), r.pos)
        BY <2>2, <2>3, <2>7 DEF r
      <3>2. pass => Append(g.v, r.v) = SubSeq(v, 1, k)
        BY <2>2, <2>4, <2>6, <2>7
      <3>3. /\ got[k].ok = TRUE /\ got[k].pos = at[k]
            /\ pass => got[k].v = SubSeq(v, 1, k)
        BY <2>4, <2>7, <3>1, <3>2 DEF Got
      <3> HIDE DEF k
      <3>4. k \in T
        BY <2>1, <3>3
      <3> QED
        BY <3>4 DEF k
    <2>8. CASE ~(g.ok /\ r.ok)
      <3>1. got[k] = Fail(pos)
        BY <2>2, <2>3, <2>8 DEF r
      <3>2. ~all
        BY <2>2, <2>5, <2>8
      <3>3. got[k].ok = FALSE
        BY <3>1 DEF Fail
      <3> HIDE DEF k
      <3>4. k \in T
        BY <2>1, <3>2, <3>3
      <3> QED
        BY <3>4 DEF k
    <2> QED
      BY <2>7, <2>8
  <1>4. n \in T
    <2>1. \A i \in 0..n : i \in T
      <3> HIDE DEF T
      <3> QED
        BY <1>2, <1>3, UpTo
    <2> QED
      BY <2>1
  <1>5. SubSeq(v, 1, n) = v
    BY SubSeqFull
  <1>6. Back(got[n], at[n], v, Seq(P)) /\ (all => got[n].ok)
    BY <1>4, <1>5 DEF Back
  <1> HIDE DEF all
  <1> QED
    BY <1>1, <1>6 DEF all

IsReader(f, buf, type) ==
  f = [i \in 0..type.lists |->
         IF i = 0 THEN [p \in Nat |-> ReadScalar(buf, p, type.of)]
         ELSE [p \in Nat |-> ReadList(buf, p, f[i - 1])]]

ReaderTo(buf, type) == CHOOSE f : IsReader(f, buf, type)

(* What is read for each depth.                                            *)
LEMMA ReaderExists ==
  ASSUME NEW buf, NEW type, type.lists \in Nat
  PROVE  \E f : IsReader(f, buf, type)
  <1> DEFINE base == [p \in Nat |-> ReadScalar(buf, p, type.of)]
             step(x, i) == [p \in Nat |-> ReadList(buf, p, x)]
             upto(g, n) ==
               g = [i \in 0..n |-> IF i = 0 THEN base ELSE step(g[i - 1], i)]
             T == {n \in Nat : \E g : upto(g, n)}
  <1> HIDE DEF base, step, IsReader
  <1>1. 0 \in T
    <2>1. upto([i \in 0..0 |-> base], 0)
      OBVIOUS
    <2> QED
      BY <2>1
  <1>2. \A n \in Nat : n \in T => n + 1 \in T
    <2> TAKE n \in Nat
    <2> HAVE n \in T
    <2>1. PICK g : upto(g, n)
      OBVIOUS
    <2> DEFINE h == [i \in 0..(n + 1) |-> IF i <= n THEN g[i]
                                          ELSE step(g[n], n + 1)]
    <2>2. \A i \in 0..(n + 1) :
            h[i] = IF i = 0 THEN base ELSE step(h[i - 1], i)
      <3> TAKE i \in 0..(n + 1)
      <3>1. CASE i = 0
        BY <2>1, <3>1
      <3>2. CASE i # 0 /\ i <= n
        BY <2>1, <3>2
      <3>3. CASE i = n + 1
        BY <2>1, <3>3
      <3> QED
        BY <3>1, <3>2, <3>3
    <2>3. upto(h, n + 1)
      BY <2>2
    <2> HIDE DEF h, upto
    <2> QED
      BY <2>3
  <1>3. type.lists \in T
    <2> HIDE DEF T
    <2> QED
      BY <1>1, <1>2, Induction
  <1>4. PICK g : upto(g, type.lists)
    BY <1>3
  <1>5. IsReader(g, buf, type)
    BY <1>4 DEF base, step, IsReader
  <1> QED
    BY <1>5

LEMMA ReaderUnfold ==
  ASSUME NEW type \in Types, NEW buf
  PROVE  LET reader == ReaderTo(buf, type)
         IN /\ \A p : Read(buf, p, type) = reader[type.lists][p]
            /\ \A p \in Nat : reader[0][p] = ReadScalar(buf, p, type.of)
            /\ \A i \in 1..type.lists, p \in Nat :
                 reader[i][p] = ReadList(buf, p, reader[i - 1])
  <1> DEFINE reader == ReaderTo(buf, type)
  <1>1. type.lists \in Nat
    BY DEF Types
  <1>2. \A p : Read(buf, p, type) = reader[type.lists][p]
    BY DEF Read, ReaderTo, IsReader
  <1>3. IsReader(reader, buf, type)
    <2>1. \E f : IsReader(f, buf, type)
      BY <1>1, ReaderExists
    <2> QED
      BY <2>1, Zenon DEF ReaderTo
  <1> HIDE DEF reader
  <1>4. \A p \in Nat : reader[0][p] = ReadScalar(buf, p, type.of)
    BY <1>1, <1>3 DEF IsReader
  <1>5. ASSUME NEW i \in 1..type.lists, NEW p \in Nat
        PROVE  reader[i][p] = ReadList(buf, p, reader[i - 1])
    <2>1. i \in 0..type.lists /\ i # 0
      BY <1>1
    <2>2. reader[i] = [q \in Nat |-> ReadList(buf, q, reader[i - 1])]
      BY <1>3, <2>1, Zenon DEF IsReader
    <2> QED
      BY <2>2
  <1> QED
    BY <1>2, <1>4, <1>5 DEF reader

LEMMA ReadScalarTyped ==
  ASSUME NEW buf \in Bytes, NEW p \in Nat, NEW of \in Scalars
  PROVE  Reads(ReadScalar(buf, p, of), ScalarValues(of))
  <1>1. CASE of \in IntTypes
    <2>1. /\ ReadScalar(buf, p, of) = ReadInteger(buf, p, of)
          /\ ScalarValues(of) = Integer(of)
      BY <1>1 DEF ReadScalar, ScalarValues, IntTypes
    <2> QED
      BY <1>1, <2>1, ReadIntegerTyped
  <1>2. CASE of = "bool"
    BY <1>2, ReadBoolTyped DEF ReadScalar, ScalarValues, IntTypes
  <1>3. CASE of = "string"
    BY <1>3, ReadStringTyped DEF ReadScalar, ScalarValues, IntTypes
  <1>4. CASE of = "map"
    <2>1. ReadScalar(buf, p, of) = Fail(p)
      BY <1>4 DEF ReadScalar, IntTypes
    <2> QED
      BY <2>1 DEF Reads, Fail
  <1> QED
    BY <1>1, <1>2, <1>3, <1>4 DEF Scalars

LEMMA ReadListTyped ==
  ASSUME NEW buf \in Bytes, NEW p \in Nat, NEW read, NEW V,
         \A q \in Nat : Reads(read[q], V)
  PROVE  Reads(ReadList(buf, p, read), Short(V))
  <1> DEFINE size == ReadUntil(buf, p + 1, TagOpenbrace)
             len == atoi(size.v)
             elems == ReadElems(read, size.pos, len)
  <1>1. size.pos \in Nat
    <2>1. p + 1 \in Nat
      OBVIOUS
    <2> QED
      BY <2>1, ReadUntilPos
  <1>2. len \in Int /\ len < HalfInt
    <2>1. len \in -HalfInt .. HalfInt - 1
      BY AtoiFacts, IntegerFacts
    <2> QED
      BY <2>1, IntegerFacts
  <1> HIDE DEF size, len
  <1>3. /\ Reads(elems, Seq(V))
        /\ elems.ok => Len(elems.v) = len
    BY <1>1, <1>2, ElemsTyped
  <1> HIDE DEF elems
  <1>4. \/ ReadList(buf, p, read) = Fail(p)
        \/ elems.ok /\ ReadList(buf, p, read) = Got(elems.v, elems.pos + 1)
    BY DEF ReadList, CloseList, size, len, elems
  <1>5. elems.ok => elems.v \in Short(V) /\ elems.pos + 1 \in Nat
    BY <1>2, <1>3 DEF Short, Reads
  <1>6. Reads(Fail(p), Short(V))
    BY DEF Reads, Fail
  <1>7. \A v \in Short(V), q \in Nat : Reads(Got(v, q), Short(V))
    BY DEF Reads, Got
  <1> QED
    BY <1>4, <1>5, <1>6, <1>7

(* Whatever the buffer has, what is read is a value of the type.           *)
LEMMA ReaderTyped ==
  ASSUME NEW buf \in Bytes, NEW type \in Types
  PROVE  \A i \in 0..type.lists, p \in Nat :
           Reads(ReaderTo(buf, type)[i][p], ValuesTo(type)[i])
  <1> DEFINE reader == ReaderTo(buf, type)
             values == ValuesTo(type)
             T == {i \in 0..type.lists :
                     \A p \in Nat : Reads(reader[i][p], values[i])}
  <1>1. type.lists \in Nat /\ type.of \in Scalars
    BY ValuesUnfold
  <1>2. 0 \in T
    <2>1. values[0] = ScalarValues(type.of)
      BY ValuesUnfold
    <2>2. \A p \in Nat : reader[0][p] = ReadScalar(buf, p, type.of)
      BY ReaderUnfold
    <2> HIDE DEF reader, values
    <2> QED
      BY <1>1, <2>1, <2>2, ReadScalarTyped
  <1>3. \A i \in Nat : i < type.lists /\ i \in T => i + 1 \in T
    <2> TAKE i \in Nat
    <2> HAVE i < type.lists /\ i \in T
    <2> DEFINE k == i + 1
               V == values[i]
               read == reader[i]
    <2>1. k \in 1..type.lists /\ k - 1 = i /\ k \in 0..type.lists
      BY <1>1
    <2>2. \A q \in Nat : Reads(read[q], V)
      OBVIOUS
    <2>3. /\ values[k] = Short(V)
          /\ \A p \in Nat : reader[k][p] = ReadList(buf, p, read)
      <3> HIDE DEF k
      <3> QED
        BY <2>1, ValuesUnfold, ReaderUnfold
    <2> HIDE DEF k, V, read, values, reader
    <2>4. \A p \in Nat : Reads(reader[k][p], values[k])
      BY <2>2, <2>3, ReadListTyped
    <2>5. k \in T
      BY <2>1, <2>4
    <2> QED
      BY <2>5 DEF k
  <1>4. \A i \in 0..type.lists : i \in T
    <2> HIDE DEF T
    <2> QED
      BY <1>1, <1>2, <1>3, UpTo
  <1> HIDE DEF reader, values
  <1>5. \A i \in 0..type.lists, p \in Nat : Reads(reader[i][p], values[i])
    BY <1>4
  <1> QED
    BY <1>5 DEF reader, values

(* A read for a type returns a value of that type or fails, whatever bytes *)
(* the buffer has.                                                         *)
THEOREM ReadTyped ==
  ASSUME NEW buf \in Bytes, NEW type \in Types, NEW p \in Nat
  PROVE  Reads(Read(buf, p, type), Values(type))
  <1>1. type.lists \in 0..type.lists
    BY ValuesUnfold
  <1>2. Reads(ReaderTo(buf, type)[type.lists][p], ValuesTo(type)[type.lists])
    BY <1>1, ReaderTyped
  <1> QED
    BY <1>2, ReaderUnfold, ValuesUnfold

-----------------------------------------------------------------------------
(* What was written is read *)

LEMMA ListHeadRead ==
  ASSUME NEW buf \in Bytes, NEW p \in Pos, NEW V, NEW v \in Short(V),
         Holds(buf, p, ListHead(v))
  PROVE  LET size == ReadUntil(buf, p + 1, TagOpenbrace)
         IN /\ At(buf, p) = "a"
            /\ size.pos = p + Len(ListHead(v)) /\ atoi(size.v) = Len(v)
  <1> DEFINE size == ReadUntil(buf, p + 1, TagOpenbrace)
  <1>1. TagOpenbrace \in Marks
    BY DEF Marks
  <1>2. /\ Len(v) \in Integer("int") /\ Len(v) \in Numbers
        /\ (v # <<>>) <=> (Len(v) > 0)
        /\ Len(v) \in Nat
    BY ShortFacts
  <1>3. CASE v = <<>>
    <2>1. ListHead(v) = <<"a", TagOpenbrace>> /\ Len(ListHead(v)) = 2
      BY <1>3 DEF ListHead
    <2> DEFINE q == p + 1
    <2>2. q \in DOMAIN buf /\ buf[q] = TagOpenbrace /\ At(buf, p) = "a"
      BY <2>1, HoldsTwo
    <2>3. q \in Pos /\ q + 1 = p + 2
      BY DEF Pos
    <2> HIDE DEF q
    <2>4. /\ ReadUntil(buf, q, TagOpenbrace).pos = q + 1
          /\ Number(ReadUntil(buf, q, TagOpenbrace).v) = 0
      BY <1>1, <2>2, <2>3, ReadUntilMark, Zenon
    <2>5. 0 \in Integer("int") /\ Len(v) = 0
      BY <1>3, IntegerFacts
    <2>6. atoi(ReadUntil(buf, q, TagOpenbrace).v) = 0
      BY <2>4, <2>5, AtoiFacts
    <2> QED
      BY <2>1, <2>2, <2>3, <2>4, <2>5, <2>6 DEF q
  <1>4. CASE v # <<>>
    <2> DEFINE n == Len(v)
    <2>1. /\ ListHead(v) = <<"a", Numeral(n), TagOpenbrace>>
          /\ Len(ListHead(v)) = 3
      BY <1>4 DEF ListHead
    <2>2. n \in Numbers /\ Holds(buf, p, <<"a", Numeral(n), TagOpenbrace>>)
      BY <1>2, <2>1
    <2> HIDE DEF n
    <2>3. At(buf, p) = "a" /\ size.pos = p + 3 /\ Number(size.v) = n
      BY <1>1, <2>2, ReadUntilHeader, Zenon
    <2>4. n \in Integer("int")
      BY <1>2 DEF n
    <2> HIDE DEF size
    <2>5. atoi(size.v) = n
      BY <2>3, <2>4, AtoiFacts
    <2> QED
      BY <2>1, <2>3, <2>5 DEF n, size
  <1> QED
    BY <1>3, <1>4

(* A list is read as its elements are.                                     *)
LEMMA ListBack ==
  ASSUME NEW buf \in Bytes, NEW p \in Pos, NEW V, NEW v \in Short(V),
         NEW write \in [V -> Bytes], Holds(buf, p, WriteList(v, write)),
         NEW read, \A q \in Nat : Reads(read[q], V), NEW P,
         \A q \in Pos, x \in V :
           Holds(buf, q, write[x]) =>
             Back(read[q], q + Len(write[x]), x, P)
  PROVE  /\ Back(ReadList(buf, p, read), p + Len(WriteList(v, write)), v,
                 Short(P))
         /\ (\A q \in Pos, x \in V : Holds(buf, q, write[x]) => read[q].ok)
            => ReadList(buf, p, read).ok
  <1> DEFINE n == Len(v)
             seqs == [i \in 1..n |-> write[v[i]]]
             h == ListHead(v)
             f == FlattenSeq(seqs)
             c == <<TagClosebrace>>
             q0 == p + Len(h)
             all == \A q \in Pos, x \in V :
                      Holds(buf, q, write[x]) => read[q].ok
  <1>1. /\ n \in Nat /\ seqs \in [1..n -> Bytes]
        /\ h \in Bytes /\ f \in Bytes /\ c \in Bytes
        /\ WriteList(v, write) = (h \o f) \o c
    BY WriteListBytes, ZenonT(60)
  <1>2. /\ v \in Seq(V) /\ \A i \in 1..n : v[i] \in V
        /\ \A i \in 1..n : seqs[i] = write[v[i]]
    BY ShortFacts, ElementOfSeq
  <1>3. Len(c) = 1 /\ c # <<>> /\ c[1] = TagClosebrace
    OBVIOUS
  <1> HIDE DEF n, seqs, h, f, c
  <1>4. h \o f \in Bytes
    BY <1>1, ConcatBytes
  <1>5. Holds(buf, p, (h \o f) \o c)
    BY <1>1
  <1>6. /\ Holds(buf, p, h \o f) /\ Holds(buf, p + Len(h \o f), c)
        /\ p + Len(h \o f) \in Pos
        /\ p + Len((h \o f) \o c) = (p + Len(h \o f)) + Len(c)
    <2> DEFINE hf == h \o f
    <2>1. hf \in Bytes /\ Holds(buf, p, hf \o c)
      BY <1>4, <1>5
    <2> HIDE DEF hf
    <2>2. /\ Holds(buf, p, hf) /\ Holds(buf, p + Len(hf), c)
          /\ p + Len(hf) \in Pos
          /\ p + Len(hf \o c) = (p + Len(hf)) + Len(c)
      BY <1>1, <2>1, HoldsConcat
    <2> QED
      BY <2>2 DEF hf
  <1>7. /\ Holds(buf, p, h) /\ Holds(buf, q0, f) /\ q0 \in Pos
        /\ p + Len(h \o f) = q0 + Len(f)
    BY <1>1, <1>6, HoldsConcat
  <1>8. /\ At(buf, p) = "a"
        /\ ReadUntil(buf, p + 1, TagOpenbrace).pos = q0
        /\ atoi(ReadUntil(buf, p + 1, TagOpenbrace).v) = n
    BY <1>7, ListHeadRead DEF h, n
  <1> HIDE DEF q0
  <1>9. PICK at \in [0..n -> Pos] :
          /\ at[0] = q0 /\ at[n] = q0 + Len(FlattenSeq(seqs))
          /\ \A i \in 1..n : /\ Holds(buf, at[i - 1], seqs[i])
                             /\ at[i] = at[i - 1] + Len(seqs[i])
    <2>1. Holds(buf, q0, FlattenSeq(seqs))
      BY <1>7 DEF f
    <2>2. n \in Nat /\ seqs \in [1..n -> Bytes] /\ q0 \in Pos
      BY <1>1, <1>7
    <2> HIDE DEF n, seqs
    <2> QED
      BY <2>1, <2>2, FlattenHolds, ZenonT(100)
  <1>10. ASSUME NEW i \in 1..n
         PROVE  /\ Back(read[at[i - 1]], at[i], v[i], P)
                /\ all => read[at[i - 1]].ok
    <2>1. i - 1 \in 0..n /\ at[i - 1] \in Pos /\ v[i] \in V
      BY <1>1, <1>2
    <2>2. /\ Holds(buf, at[i - 1], write[v[i]])
          /\ at[i] = at[i - 1] + Len(write[v[i]])
      BY <1>2, <1>9
    <2> QED
      BY <2>1, <2>2
  <1> DEFINE elems == ReadElems(read, q0, n)
             end == at[n]
  <1>11. /\ Back(elems, end, v, Seq(P))
         /\ all => elems.ok
    <2>1. n = Len(v)
      BY DEF n
    <2>2. /\ Back(ReadElems(read, at[0], n), at[n], v, Seq(P))
          /\ (\A i \in 1..n : read[at[i - 1]].ok)
             => ReadElems(read, at[0], n).ok
      <3> HIDE DEF all
      <3> QED
        BY <1>1, <1>2, <1>10, <2>1, ElemsBack
    <2> HIDE DEF all
    <2> QED
      BY <1>9, <1>10, <2>2
  <1>12. end \in Pos /\ end = p + Len(h \o f) /\ At(buf, end) = TagClosebrace
    <2>1. end \in Pos /\ end = p + Len(h \o f)
      BY <1>1, <1>7, <1>9 DEF f
    <2> HIDE DEF end
    <2> QED
      BY <1>1, <1>3, <1>6, <2>1, HoldsFirst
  <1>13. ReadList(buf, p, read) = CloseList(elems, buf, p)
    BY <1>8 DEF ReadList
  <1> HIDE DEF elems, end, all
  <1>14. elems.ok => ReadList(buf, p, read) = Got(elems.v, end + 1)
    BY <1>11, <1>12, <1>13 DEF CloseList, Back
  <1>15. ~elems.ok => ReadList(buf, p, read).ok = FALSE
    BY <1>13 DEF CloseList, Fail
  <1>16. end + 1 = p + Len(WriteList(v, write))
    BY <1>1, <1>3, <1>6, <1>12
  <1>17. v \in Short(P) => v \in Seq(P)
    BY DEF Short
  <1>18. Back(ReadList(buf, p, read), p + Len(WriteList(v, write)), v,
              Short(P))
    BY <1>11, <1>14, <1>15, <1>16, <1>17 DEF Back, Got
  <1>19. all => ReadList(buf, p, read).ok
    BY <1>11, <1>14 DEF Got
  <1> QED
    BY <1>18, <1>19 DEF all

LEMMA ScalarBack ==
  ASSUME NEW buf \in Bytes, NEW p \in Pos, NEW of \in Scalars,
         NEW v \in ScalarValues(of), Holds(buf, p, WriteScalar(v, of)),
         NEW P, of = "ulong" => P = Integer("long")
  PROVE  /\ Back(ReadScalar(buf, p, of), p + Len(WriteScalar(v, of)), v, P)
         /\ of # "map" => ReadScalar(buf, p, of).ok
  <1>1. CASE of \in IntTypes
    <2>1. /\ v \in Integer(of) /\ WriteScalar(v, of) = WriteInteger(v, of)
          /\ ReadScalar(buf, p, of) = ReadInteger(buf, p, of)
      BY <1>1 DEF ScalarValues, WriteScalar, ReadScalar, IntTypes
    <2>2. /\ ReadInteger(buf, p, of).ok = TRUE
          /\ ReadInteger(buf, p, of).pos = p + Len(WriteInteger(v, of))
          /\ (of = "ulong" => v \in Integer("long"))
             => ReadInteger(buf, p, of).v = v
      BY <1>1, <2>1, IntegerRoundTrip
    <2> QED
      BY <2>1, <2>2 DEF Back
  <1>2. CASE of = "bool"
    <2>1. /\ v \in BOOLEAN /\ WriteScalar(v, of) = WriteBool(v)
          /\ ReadScalar(buf, p, of) = ReadBool(buf, p)
      BY <1>2 DEF ScalarValues, WriteScalar, ReadScalar, IntTypes
    <2>2. ReadBool(buf, p) = Got(v, p + Len(WriteBool(v)))
      BY <2>1, BoolRoundTrip
    <2> QED
      BY <2>1, <2>2 DEF Back, Got
  <1>3. CASE of = "string"
    <2>1. /\ v \in Short(Token) /\ WriteScalar(v, of) = WriteString(v, FALSE)
          /\ ReadScalar(buf, p, of) = ReadString(buf, p)
      BY <1>3 DEF ScalarValues, WriteScalar, ReadScalar, IntTypes
    <2>2. ReadString(buf, p) = Got(v, p + Len(WriteString(v, FALSE)))
      BY <2>1, StringRoundTrip
    <2> QED
      BY <2>1, <2>2 DEF Back, Got
  <1>4. CASE of = "map"
    <2>1. ReadScalar(buf, p, of).ok = FALSE
      BY <1>4 DEF ReadScalar, IntTypes, Fail
    <2> QED
      BY <1>4, <2>1 DEF Back
  <1> QED
    BY <1>1, <1>2, <1>3, <1>4 DEF Scalars

(* What passes: an unsigned long long as a long long.                      *)
PassedAs(type) ==
  IF type.of = "ulong" THEN [lists |-> type.lists, of |-> "long"] ELSE type

(* A value of any supported type is read as it was written, unless it is   *)
(* an unsigned long long that does not pass, and the next read starts      *)
(* behind it.                                                              *)
THEOREM RoundTrip ==
  ASSUME NEW buf \in Bytes, NEW p \in Pos, NEW type \in Types,
         NEW v \in Values(type), Holds(buf, p, Write(v, type))
  PROVE  LET r == Read(buf, p, type)
         IN /\ Supported(type) => r.ok
            /\ r.ok => /\ r.pos = p + Len(Write(v, type))
                       /\ Passes(v, type) => r.v = v
  <1> DEFINE reader == ReaderTo(buf, type)
             writer == WriterTo(type)
             values == ValuesTo(type)
             passed == ValuesTo(PassedAs(type))
             back(i, q, x) ==
               Holds(buf, q, writer[i][x]) =>
                 /\ Back(reader[i][q], q + Len(writer[i][x]), x, passed[i])
                 /\ Supported(type) => reader[i][q].ok
             T == {i \in 0..type.lists :
                     \A q \in Pos, x \in values[i] : back(i, q, x)}
  <1>1. /\ type.lists \in Nat /\ type.of \in Scalars
        /\ PassedAs(type) \in Types /\ PassedAs(type).lists = type.lists
    BY ValuesUnfold DEF PassedAs, Types, Scalars, IntTypes
  <1>2. 0 \in T
    <2>1. values[0] = ScalarValues(type.of)
      BY ValuesUnfold
    <2>2. \A q \in Nat : reader[0][q] = ReadScalar(buf, q, type.of)
      BY ReaderUnfold
    <2>3. \A x \in ScalarValues(type.of) :
            writer[0][x] = WriteScalar(x, type.of)
      BY WriterUnfold
    <2>4. type.of = "ulong" => passed[0] = Integer("long")
      <3> HAVE type.of = "ulong"
      <3>1. PassedAs(type).of = "long"
        BY DEF PassedAs
      <3>2. passed[0] = ScalarValues("long")
        BY <1>1, <3>1, ValuesUnfold
      <3> QED
        BY <3>2 DEF ScalarValues, IntTypes
    <2> HIDE DEF reader, writer, values, passed
    <2>5. ASSUME NEW q \in Pos, NEW x \in values[0],
                 Holds(buf, q, writer[0][x])
          PROVE  /\ Back(reader[0][q], q + Len(writer[0][x]), x, passed[0])
                 /\ Supported(type) => reader[0][q].ok
      <3>1. /\ x \in ScalarValues(type.of)
            /\ writer[0][x] = WriteScalar(x, type.of)
            /\ reader[0][q] = ReadScalar(buf, q, type.of)
        BY <2>1, <2>2, <2>3 DEF Pos
      <3>2. /\ Back(ReadScalar(buf, q, type.of),
                    q + Len(WriteScalar(x, type.of)), x, passed[0])
            /\ type.of # "map" => ReadScalar(buf, q, type.of).ok
        BY <1>1, <2>4, <2>5, <3>1, ScalarBack
      <3> QED
        BY <3>1, <3>2 DEF Supported
    <2>6. 0 \in 0..type.lists
      BY <1>1
    <2> QED
      BY <2>5, <2>6
  <1>3. \A i \in Nat : i < type.lists /\ i \in T => i + 1 \in T
    <2> TAKE i \in Nat
    <2> HAVE i < type.lists /\ i \in T
    <2> DEFINE k == i + 1
               V == values[i]
               P == passed[i]
               write == writer[i]
               read == reader[i]
    <2>1. /\ k \in 1..type.lists /\ k - 1 = i /\ k \in 0..type.lists
          /\ i \in 0..type.lists
      BY <1>1
    <2>2. \A q \in Pos, x \in V :
            Holds(buf, q, write[x]) =>
              /\ Back(read[q], q + Len(write[x]), x, P)
              /\ Supported(type) => read[q].ok
      OBVIOUS
    <2>3. /\ \A q \in Nat : Reads(read[q], V)
          /\ write \in [V -> Bytes] /\ DOMAIN write = V
      BY <2>1, ReaderTyped, WriteBytes
    <2>4. /\ values[k] = Short(V)
          /\ \A q \in Nat : reader[k][q] = ReadList(buf, q, read)
          /\ \A x \in Short(DOMAIN write) :
               writer[k][x] = WriteList(x, write)
      <3> HIDE DEF k
      <3>1. values[k] = Short(V)
        BY <2>1, ValuesUnfold
      <3>2. \A q \in Nat : reader[k][q] = ReadList(buf, q, read)
        BY <2>1, ReaderUnfold
      <3>3. \A x \in Short(DOMAIN write) : writer[k][x] = WriteList(x, write)
        <4>1. \A x \in Short(DOMAIN writer[k - 1]) :
                writer[k][x] = WriteList(x, writer[k - 1])
          BY <2>1, WriterUnfold
        <4>2. writer[k - 1] = write
          BY <2>1
        <4> HIDE DEF writer, write
        <4> QED
          BY <4>1, <4>2
      <3> QED
        BY <3>1, <3>2, <3>3
    <2>5. passed[k] = Short(P)
      <3> HIDE DEF k
      <3> QED
        BY <1>1, <2>1, ValuesUnfold
    <2> HIDE DEF k, V, P, write, read, values, passed, writer, reader
    <2>6. ASSUME NEW q \in Pos, NEW x \in values[k],
                 Holds(buf, q, writer[k][x])
          PROVE  /\ Back(reader[k][q], q + Len(writer[k][x]), x, passed[k])
                 /\ Supported(type) => reader[k][q].ok
      <3>1. x \in Short(V) /\ q \in Nat
        BY <2>4 DEF Pos
      <3>2. /\ writer[k][x] = WriteList(x, write)
            /\ reader[k][q] = ReadList(buf, q, read)
        BY <2>3, <2>4, <3>1
      <3>3. Holds(buf, q, WriteList(x, write))
        BY <2>6, <3>2
      <3>4. \A r \in Pos, y \in V :
              Holds(buf, r, write[y]) =>
                Back(read[r], r + Len(write[y]), y, P)
        BY <2>2
      <3>5. /\ Back(ReadList(buf, q, read), q + Len(WriteList(x, write)), x,
                    Short(P))
            /\ (\A r \in Pos, y \in V : Holds(buf, r, write[y]) => read[r].ok)
               => ReadList(buf, q, read).ok
        BY <2>3, <3>1, <3>3, <3>4, ListBack
      <3>6. Supported(type) => ReadList(buf, q, read).ok
        BY <2>2, <3>5
      <3> QED
        BY <2>5, <3>2, <3>5, <3>6
    <2>7. k \in T
      BY <2>1, <2>6
    <2> QED
      BY <2>7 DEF k
  <1>4. \A i \in 0..type.lists : i \in T
    <2> HIDE DEF T
    <2> QED
      BY <1>1, <1>2, <1>3, UpTo
  <1>5. /\ v \in values[type.lists]
        /\ Write(v, type) = writer[type.lists][v]
        /\ Read(buf, p, type) = reader[type.lists][p]
    <2>1. v \in values[type.lists]
      BY ValuesUnfold
    <2>2. Write(v, type) = writer[type.lists][v]
      BY WriterUnfold
    <2>3. Read(buf, p, type) = reader[type.lists][p]
      BY ReaderUnfold
    <2> QED
      BY <2>1, <2>2, <2>3
  <1>6. Passes(v, type) => v \in passed[type.lists]
    <2>1. passed[type.lists] = Values(PassedAs(type))
      BY <1>1, ValuesUnfold
    <2> QED
      BY <2>1 DEF Passes, PassedAs
  <1> DEFINE n == type.lists
  <1>7. n \in 0..type.lists
    BY <1>1
  <1>8. back(n, p, v)
    <2>1. n \in T
      BY <1>4, <1>7
    <2> HIDE DEF reader, writer, values, passed
    <2> QED
      BY <1>5, <2>1
  <1> HIDE DEF reader, writer, values, passed
  <1>9. /\ Back(Read(buf, p, type), p + Len(Write(v, type)), v, passed[n])
        /\ Supported(type) => Read(buf, p, type).ok
    BY <1>5, <1>8
  <1> QED
    BY <1>6, <1>9 DEF Back

-----------------------------------------------------------------------------
(* Types that are taken for one another *)

LEMMA ReadScalarStarts ==
  ASSUME NEW buf \in Bytes, NEW p \in Nat, NEW of \in Scalars,
         ReadScalar(buf, p, of).ok
  PROVE  At(buf, p) \in Starts([lists |-> 0, of |-> of])
  <1>0. [lists |-> 0, of |-> of].lists = 0 /\ [lists |-> 0, of |-> of].of = of
    OBVIOUS
  <1>1. CASE of \in IntTypes
    <2>1. Starts([lists |-> 0, of |-> of])
            = {Numeral(d) : d \in 0..MaxDigit} \cup {"i", "l"}
      BY <1>0, <1>1 DEF Starts, IntTypes
    <2>2. At(buf, p) \notin {Numeral(d) : d \in 0..MaxDigit} \cup {"i", "l"}
          => ReadInteger(buf, p, of).ok = FALSE
      BY DEF ReadInteger, Fail
    <2>3. ReadScalar(buf, p, of) = ReadInteger(buf, p, of)
      BY <1>1 DEF ReadScalar, IntTypes
    <2> QED
      BY <2>1, <2>2, <2>3
  <1>2. CASE of = "bool"
    <2>1. Starts([lists |-> 0, of |-> of]) = {"t", "f"}
      BY <1>0, <1>2 DEF Starts, IntTypes
    <2>2. At(buf, p) \notin {"t", "f"} => ReadBool(buf, p).ok = FALSE
      BY DEF ReadBool, Fail
    <2>3. ReadScalar(buf, p, of) = ReadBool(buf, p)
      BY <1>2 DEF ReadScalar, IntTypes
    <2> QED
      BY <2>1, <2>2, <2>3
  <1>3. CASE of = "string"
    <2>1. Starts([lists |-> 0, of |-> of]) = {"e", "s", "b"}
      BY <1>0, <1>3 DEF Starts, IntTypes
    <2>2. At(buf, p) \notin {"e", "s", "b"} => ReadString(buf, p).ok = FALSE
      BY DEF ReadString, Fail
    <2>3. ReadScalar(buf, p, of) = ReadString(buf, p)
      BY <1>3 DEF ReadScalar, IntTypes
    <2> QED
      BY <2>1, <2>2, <2>3
  <1>4. CASE of = "map"
    <2>1. ReadScalar(buf, p, of).ok = FALSE
      BY <1>4 DEF ReadScalar, IntTypes, Fail
    <2> QED
      BY <2>1
  <1> QED
    BY <1>1, <1>2, <1>3, <1>4 DEF Scalars

LEMMA ReadStarts ==
  ASSUME NEW buf \in Bytes, NEW p \in Nat, NEW type \in Types,
         Read(buf, p, type).ok
  PROVE  At(buf, p) \in Starts(type)
  <1> DEFINE reader == ReaderTo(buf, type)
             n == type.lists
  <1>1. /\ n \in Nat /\ type.of \in Scalars
        /\ Read(buf, p, type) = reader[n][p]
    <2>1. Read(buf, p, type) = reader[n][p]
      BY ReaderUnfold
    <2> QED
      BY <2>1, ValuesUnfold
  <1>2. CASE n = 0
    <2>1. reader[0][p] = ReadScalar(buf, p, type.of)
      BY ReaderUnfold
    <2>2. type = [lists |-> 0, of |-> type.of]
      BY <1>2 DEF Types
    <2> QED
      BY <1>1, <1>2, <2>1, <2>2, ReadScalarStarts
  <1>3. CASE n # 0
    <2>1. n \in 1..n
      BY <1>1, <1>3
    <2>2. reader[n][p] = ReadList(buf, p, reader[n - 1])
      BY <2>1, ReaderUnfold
    <2>3. At(buf, p) # "a" => ReadList(buf, p, reader[n - 1]).ok = FALSE
      BY DEF ReadList, Fail
    <2>4. Starts(type) = {"a"}
      BY <1>1, <1>3 DEF Starts
    <2> QED
      BY <1>1, <2>2, <2>3, <2>4
  <1> QED
    BY <1>2, <1>3

(* No value starts with a z; and those of different kinds with different   *)
(* bytes.                                                                  *)
LEMMA StartsFacts ==
  ASSUME NEW type \in Types
  PROVE  /\ "z" \notin Starts(type)
         /\ \A other \in Types :
              Starts(type) \cap Starts(other) # {} => SameKind(type, other)
  <1> DEFINE digits == {Numeral(d) : d \in 0..MaxDigit}
  <1>1. \A b \in digits : b \notin Marks
    <2>1. 0..MaxDigit \subseteq Numbers
      BY IntegerFacts, IntegerNumbers DEF IntTypes
    <2> QED
      BY <2>1, TokenFacts
  <1>2. {"z", "i", "l", "t", "f", "e", "s", "b", "a"} \subseteq Marks
    BY DEF Marks
  <1> HIDE DEF digits
  <1>3. \A t \in Types :
          /\ t.lists \in Nat /\ t.of \in Scalars
          /\ t = [lists |-> t.lists, of |-> t.of]
          /\ t.lists > 0 => Starts(t) = {"a"}
          /\ t.lists = 0 /\ t.of \in IntTypes
             => Starts(t) = digits \cup {"i", "l"}
          /\ t.lists = 0 /\ t.of = "bool" => Starts(t) = {"t", "f"}
          /\ t.lists = 0 /\ t.of = "string" => Starts(t) = {"e", "s", "b"}
          /\ t.lists = 0 /\ t.of = "map" => Starts(t) = {}
    BY DEF Types, Starts, IntTypes, digits
  <1>4. \A t \in Types :
          \/ t.lists > 0
          \/ t.lists = 0 /\ t.of \in IntTypes
          \/ t.lists = 0 /\ t.of = "bool"
          \/ t.lists = 0 /\ t.of = "string"
          \/ t.lists = 0 /\ t.of = "map"
    BY <1>3 DEF Scalars
  <1>5. "z" \notin Starts(type)
    <2>1. "z" \notin digits
      BY <1>1, <1>2
    <2> QED
      BY <1>3, <1>4, <2>1
  <1>6. ASSUME NEW other \in Types, NEW b \in Starts(type) \cap Starts(other)
        PROVE  SameKind(type, other)
    <2>1. b \in digits => b \notin {"t", "f", "e", "s", "b", "a", "i", "l"}
      BY <1>1, <1>2
    <2>2. CASE type.lists > 0
      <3>1. b = "a"
        BY <1>3, <1>6, <2>2
      <3>2. other.lists > 0
        BY <1>3, <1>4, <1>6, <2>1, <3>1
      <3> QED
        BY <2>2, <3>2 DEF SameKind
    <2>3. CASE type.lists = 0 /\ type.of \in IntTypes
      <3>1. b \in digits \cup {"i", "l"}
        BY <1>3, <1>6, <2>3
      <3>2. other.lists = 0 /\ other.of \in IntTypes
        BY <1>3, <1>4, <1>6, <2>1, <3>1
      <3> QED
        BY <2>3, <3>2 DEF SameKind, IsInteger
    <2>4. CASE type.lists = 0 /\ type.of = "bool"
      <3>1. b \in {"t", "f"}
        BY <1>3, <1>6, <2>4
      <3>2. other.lists = 0 /\ other.of = "bool"
        BY <1>3, <1>4, <1>6, <2>1, <3>1
      <3> QED
        BY <1>3, <2>4, <3>2 DEF SameKind
    <2>5. CASE type.lists = 0 /\ type.of = "string"
      <3>1. b \in {"e", "s", "b"}
        BY <1>3, <1>6, <2>5
      <3>2. other.lists = 0 /\ other.of = "string"
        BY <1>3, <1>4, <1>6, <2>1, <3>1
      <3> QED
        BY <1>3, <2>5, <3>2 DEF SameKind
    <2>6. CASE type.lists = 0 /\ type.of = "map"
      BY <1>3, <1>6, <2>6
    <2> QED
      BY <1>4, <2>2, <2>3, <2>4, <2>5, <2>6
  <1> QED
    BY <1>5, <1>6

(* SetToSeq has every element once.                                        *)
LEMMA SetToSeqFacts ==
  ASSUME NEW S, IsFiniteSet(S)
  PROVE  /\ SetToSeq(S) \in Seq(S) /\ Len(SetToSeq(S)) = Cardinality(S)
         /\ IsInjective(SetToSeq(S)) /\ ToSet(SetToSeq(S)) = S
  <1> DEFINE n == Cardinality(S)
             s == SetToSeq(S)
  <1>1. n \in Nat /\ ExistsBijection(1..n, S)
    BY FS_CardinalityType
  <1>2. PICK f \in [1..n -> S] : IsInjective(f)
    BY <1>1 DEF ExistsBijection, Bijection, Injection
  <1>3. s \in [1..n -> S] /\ IsInjective(s)
    BY <1>2, Zenon DEF SetToSeq
  <1> HIDE DEF s, n
  <1>4. s \in Seq(S) /\ Len(s) = n /\ DOMAIN s = 1..n
    BY <1>1, <1>3
  <1>5. ToSet(s) = S
    <2> DEFINE R == ToSet(s)
    <2>1. R \subseteq S
      BY <1>3, <1>4 DEF ToSet
    <2>2. s \in Bijection(1..n, R)
      BY <1>3, <1>4 DEF Bijection, Injection, Surjection, ToSet
    <2>3. Cardinality(R) = n
      <3>1. ExistsBijection(1..n, R)
        BY <2>2 DEF ExistsBijection
      <3> HIDE DEF R
      <3> QED
        BY <1>1, <3>1, FS_CountingElements
    <2> HIDE DEF R
    <2>4. R = S
      BY <2>1, <2>3, FS_Subset DEF n
    <2> QED
      BY <2>4 DEF R
  <1> QED
    BY <1>3, <1>4, <1>5 DEF s, n

-----------------------------------------------------------------------------
(* Requests and responses *)

(* A tag, some bytes and a z.                                              *)
LEMMA Framed ==
  ASSUME NEW t \in Token, NEW w \in Bytes
  PROVE  LET buf == <<t>> \o w \o <<"z">>
         IN /\ buf \in Bytes /\ buf[1] = t /\ At(buf, 1) = t
            /\ Holds(buf, 2, w) /\ At(buf, 2 + Len(w)) = "z"
  <1> DEFINE a == <<t>>
             z == <<"z">>
             buf == (a \o w) \o z
  <1>1. /\ a \in Bytes /\ z \in Bytes /\ Len(a) = 1 /\ Len(z) = 1
        /\ a[1] = t /\ z[1] = "z" /\ a # <<>> /\ z # <<>>
    BY TokenFacts DEF Bytes, Marks
  <1> HIDE DEF a, z
  <1> DEFINE aw == a \o w
  <1>2. /\ aw \in Bytes /\ aw \o z \in Bytes /\ Len(aw) = 1 + Len(w)
        /\ Len(w) \in Nat
    BY <1>1, ConcatBytes
  <1>3. Holds(aw \o z, 1, aw \o z) /\ 1 \in Pos /\ aw \o z \in Bytes
    BY <1>2, HoldsSelf DEF Pos
  <1> HIDE DEF aw
  <1>4. /\ Holds(aw \o z, 1, aw) /\ Holds(aw \o z, 1 + Len(aw), z)
        /\ 1 + Len(aw) \in Pos
    BY <1>1, <1>2, <1>3, HoldsConcat
  <1>5. Holds(aw \o z, 1, a) /\ Holds(aw \o z, 1 + Len(a), w)
    BY <1>1, <1>3, <1>4, HoldsConcat DEF aw
  <1>6. (aw \o z)[1] = t /\ At(aw \o z, 1) = t
    BY <1>1, <1>3, <1>5, HoldsFirst
  <1>7. At(aw \o z, 1 + Len(aw)) = "z"
    BY <1>1, <1>3, <1>4, HoldsFirst
  <1>8. 1 + Len(a) = 2 /\ 1 + Len(aw) = 2 + Len(w)
    BY <1>1, <1>2
  <1> QED
    BY <1>3, <1>5, <1>6, <1>7, <1>8 DEF aw, a, z

(* The arguments passed.                                                   *)
Args(args) ==
  /\ Len(args) \in Nat /\ DOMAIN args = 1..Len(args)
  /\ \A i \in 1..Len(args) :
       args[i].type \in Types /\ args[i].v \in Values(args[i].type)

Request(method, args) ==
  <<"C">> \o WriteString(method, TRUE) \o WriteArgs(args) \o <<"z">>

LEMMA WriteArgsFacts ==
  ASSUME NEW args, Args(args)
  PROVE  LET seqs == [i \in 1..Len(args) |-> Write(args[i].v, args[i].type)]
         IN /\ seqs \in [1..Len(args) -> Bytes]
            /\ WriteArgs(args) = FlattenSeq(seqs) /\ WriteArgs(args) \in Bytes
            /\ WriteArgs(args) # <<>> =>
                 \E i \in DOMAIN args :
                   WriteArgs(args)[1] \in Starts(args[i].type)
  <1> DEFINE n == Len(args)
             seqs == [i \in 1..n |-> Write(args[i].v, args[i].type)]
  <1>1. n \in Nat /\ DOMAIN args = 1..n
    BY DEF Args
  <1>2. \A i \in 1..n :
          /\ Write(args[i].v, args[i].type) \in Bytes
          /\ Write(args[i].v, args[i].type) # <<>> =>
               Write(args[i].v, args[i].type)[1] \in Starts(args[i].type)
    BY WriteBytes DEF Args
  <1> HIDE DEF n
  <1>3. seqs \in [1..n -> Bytes] /\ WriteArgs(args) = FlattenSeq(seqs)
    BY <1>2 DEF WriteArgs, n
  <1>4. \A i \in 1..n : seqs[i] = Write(args[i].v, args[i].type)
    OBVIOUS
  <1> HIDE DEF seqs
  <1>5. /\ FlattenSeq(seqs) \in Bytes
        /\ FlattenSeq(seqs) # <<>>
           => \E i \in 1..n : /\ seqs[i] # <<>>
                              /\ FlattenSeq(seqs)[1] = seqs[i][1]
    BY <1>1, <1>3, FlattenBytes
  <1>6. FlattenSeq(seqs) # <<>> =>
          \E i \in 1..n : FlattenSeq(seqs)[1] \in Starts(args[i].type)
    BY <1>2, <1>4, <1>5
  <1> QED
    BY <1>1, <1>3, <1>5, <1>6 DEF seqs, n

LEMMA ByteNames == Short(Byte) \subseteq Short(Token)
  <1>1. Byte \subseteq Token
    BY TokenFacts
  <1> QED
    BY <1>1, SeqMonotonic DEF Short

(* Where the method and the first argument of a request are, and which     *)
(* byte is behind the method.                                              *)
LEMMA RequestFacts ==
  ASSUME NEW method \in Short(Token), NEW args, Args(args)
  PROVE  LET request_ == Request(method, args)
             q == 2 + Len(WriteString(method, TRUE))
         IN /\ request_ \in Bytes /\ request_[1] = "C"
            /\ Holds(request_, 2, WriteString(method, TRUE))
            /\ q \in Pos
            /\ Len(args) > 0 =>
                 Holds(request_, q, Write(args[1].v, args[1].type))
            /\ \/ At(request_, q) = "z"
               \/ \E i \in DOMAIN args :
                    At(request_, q) \in Starts(args[i].type)
  <1> DEFINE c == <<"C">>
             s == WriteString(method, TRUE)
             a == WriteArgs(args)
             z == <<"z">>
             w == s \o a
             r == Request(method, args)
             q == 2 + Len(s)
  <1>1. c \in Bytes /\ z \in Bytes
    BY TokenFacts DEF Bytes, Marks
  <1>2. s \in Bytes
    BY WriteStringBytes
  <1>3. a \in Bytes
    BY WriteArgsFacts
  <1> HIDE DEF c, s, a, z
  <1>4. /\ w \in Bytes
        /\ c \o (s \o a) = (c \o s) \o a
    <2>1. w \in Bytes
      BY <1>2, <1>3, ConcatBytes
    <2>2. c \in Seq(Token) /\ s \in Seq(Token) /\ a \in Seq(Token)
      BY <1>1, <1>2, <1>3 DEF Bytes
    <2>3. (c \o s) \o a = c \o (s \o a)
      BY <2>2, ConcatAssociative
    <2> QED
      BY <2>1, <2>3
  <1>5. r = (c \o w) \o z
    BY <1>4 DEF Request, c, s, a, z
  <1> HIDE DEF w, r
  <1>6. /\ r \in Bytes /\ r[1] = "C"
        /\ Holds(r, 2, w) /\ At(r, 2 + Len(w)) = "z"
    <2>1. "C" \in Token
      BY TokenFacts DEF Marks
    <2> QED
      BY <1>4, <1>5, <2>1, Framed DEF c, z
  <1>7. 2 \in Pos
    BY DEF Pos
  <1>8. /\ Holds(r, 2, s) /\ Holds(r, q, a) /\ q \in Pos
        /\ 2 + Len(w) = q + Len(a)
    BY <1>2, <1>3, <1>6, <1>7, HoldsConcat DEF w
  <1> HIDE DEF q
  <1>9. Len(args) > 0 => Holds(r, q, Write(args[1].v, args[1].type))
    <2> HAVE Len(args) > 0
    <2> DEFINE n == Len(args)
               seqs == [i \in 1..n |-> Write(args[i].v, args[i].type)]
    <2>1. n \in Nat /\ 1 \in 1..n
      BY DEF Args
    <2>2. seqs \in [1..n -> Bytes] /\ a = FlattenSeq(seqs)
      BY WriteArgsFacts DEF a
    <2>3. seqs[1] = Write(args[1].v, args[1].type)
      BY <2>1
    <2> HIDE DEF n, seqs
    <2>4. Holds(r, q, FlattenSeq(seqs))
      BY <1>8, <2>2
    <2>5. PICK at \in [0..n -> Pos] :
            /\ at[0] = q /\ at[n] = q + Len(FlattenSeq(seqs))
            /\ \A i \in 1..n : /\ Holds(r, at[i - 1], seqs[i])
                               /\ at[i] = at[i - 1] + Len(seqs[i])
      BY <1>6, <1>8, <2>1, <2>2, <2>4, FlattenHolds, ZenonT(60)
    <2>6. 1 - 1 = 0
      OBVIOUS
    <2>7. Holds(r, q, seqs[1])
      BY <2>1, <2>5, <2>6
    <2> QED
      BY <2>3, <2>7
  <1>10. \/ At(r, q) = "z"
         \/ \E i \in DOMAIN args : At(r, q) \in Starts(args[i].type)
    <2>1. CASE a = <<>>
      <3>1. Len(a) = 0 /\ q + 0 = q
        BY <1>8, <2>1 DEF Pos
      <3>2. 2 + Len(w) = q
        BY <1>8, <3>1
      <3> QED
        BY <1>6, <3>2
    <2>2. CASE a # <<>>
      <3>1. At(r, q) = a[1]
        BY <1>3, <1>6, <1>8, <2>2, HoldsFirst
      <3>2. \E i \in DOMAIN args : a[1] \in Starts(args[i].type)
        BY <2>2, WriteArgsFacts DEF a
      <3> QED
        BY <3>1, <3>2
    <2> QED
      BY <2>1, <2>2
  <1> QED
    BY <1>6, <1>8, <1>9, <1>10 DEF r, q, s

(* The three refusals, as any error, are marked with an E.                 *)
LEMMA ErrorFirst ==
  /\ At(error_arguments, 1) = "E"
  /\ At(NoSupport, 1) = "E"
  /\ At(NoCallee, 1) = "E"
  <1>1. ASSUME NEW x PROVE At(ErrorText(<<x>>), 1) = "E"
    <2> DEFINE S == {x, "E", "b", "z", TagQuote, Numeral(1)}
               e == <<"E">>
               head == <<"b", Numeral(1), TagQuote>>
               body == <<x>>
               quote == <<TagQuote>>
               z == <<"z">>
    <2>1. ErrorText(<<x>>) = (e \o ((head \o body) \o quote)) \o z
      <3>1. <<x>> # <<>> /\ Len(<<x>>) = 1
        OBVIOUS
      <3> QED
        BY <3>1 DEF ErrorText, WriteString
    <2>2. /\ e \in Seq(S) /\ head \in Seq(S) /\ body \in Seq(S)
          /\ quote \in Seq(S) /\ z \in Seq(S) /\ Len(e) = 1 /\ e[1] = "E"
      OBVIOUS
    <2> HIDE DEF S, e, head, body, quote, z
    <2> DEFINE w == (head \o body) \o quote
    <2>3. w \in Seq(S)
      <3>1. head \o body \in Seq(S)
        BY <2>2, ConcatProperties
      <3> QED
        BY <2>2, <3>1, ConcatProperties
    <2> HIDE DEF w
    <2>4. /\ e \o w \in Seq(S) /\ Len(e \o w) = 1 + Len(w)
          /\ Len(w) \in Nat /\ (e \o w)[1] = "E"
      <3>1. Len(w) \in Nat
        BY <2>3, LenProperties
      <3>2. 1 \in 1 .. Len(e) + Len(w) /\ 1 <= Len(e)
        BY <2>2, <3>1
      <3> QED
        BY <2>2, <2>3, <3>1, <3>2, ConcatProperties
    <2> DEFINE ew == e \o w
    <2>5. Len(ew) \in Nat /\ Len(ew) > 0 /\ ew \in Seq(S) /\ ew[1] = "E"
      BY <2>4
    <2> HIDE DEF ew
    <2>6. (ew \o z)[1] = "E" /\ 1 \in DOMAIN (ew \o z)
      <3>1. Len(z) \in Nat
        BY <2>2, LenProperties
      <3>2. 1 \in 1 .. Len(ew) + Len(z) /\ 1 <= Len(ew)
        BY <2>5, <3>1
      <3>3. DOMAIN (ew \o z) = 1 .. Len(ew) + Len(z)
        BY <2>2, <2>5, ConcatProperties, LenProperties
      <3> QED
        BY <2>2, <2>5, <3>2, <3>3, ConcatProperties
    <2> QED
      BY <2>1, <2>6 DEF At, ew, w
  <1>2. At(error_arguments, 1) = "E"
    BY <1>1, Zenon DEF error_arguments
  <1>3. At(NoSupport, 1) = "E"
    BY <1>1, Zenon DEF NoSupport
  <1>4. At(NoCallee, 1) = "E"
    BY <1>1, Zenon DEF NoCallee
  <1> QED
    BY <1>2, <1>3, <1>4

-----------------------------------------------------------------------------
(* The inductive invariant *)

(* A function is registered under its name.                                *)
Registered ==
  /\ DOMAIN functions \subseteq FunctionNames
  /\ \A name \in DOMAIN functions :
       functions[name] \in Function /\ functions[name].name = name

(* What is asked for, and the request for it.                              *)
Asked ==
  /\ call.stage \in {"idle", "sent", "served", "over"}
  /\ call.stage # "idle" =>
       /\ {"stage", "method", "args"} \subseteq DOMAIN call
       /\ call.method \in Short(Byte) /\ Args(call.args)
       /\ \/ request \in {<<"z">>, <<"H">>}
          \/ /\ Len(call.args) > 0
             /\ request = Request(call.method, call.args)
  /\ HasRun => call.stage \in {"served", "over"}

(* Why nothing ran.                                                        *)
Refused(method, args, known) ==
  \/ method \notin known
  \/ \E i \in DOMAIN method : LeadingOnes(method[i]) > 0
  \/ LET passed == args[1] IN
       \/ passed.type # functions[method].param
       \/ ~Supported(passed.type)

ListOf(known) ==
  <<"F">> \o Write(SetToSeq(known), NameList) \o <<"z">>

Answered ==
  call.stage = "served" =>
    /\ "known" \in DOMAIN call
    /\ call.known \subseteq DOMAIN functions
    /\ request[1] = "z" => response = ListOf(call.known)
    /\ ~HasRun => At(response, 1) \in {"E", "F"}
    /\ request[1] = "C" /\ ~HasRun =>
         Refused(call.method, call.args, call.known)

(* What ran is what was asked for.                                         *)
AskedFor(f, arg, method, args, known) ==
  Legible(method) =>
    /\ f.name = IF method \in known THEN method ELSE <<"*">>
    /\ \E i \in DOMAIN args : SameKind(args[i].type, f.param)
    /\ args[1].type = f.param /\ Passes(args[1].v, args[1].type)
       => arg = args[1].v

Served ==
  HasRun =>
    LET f == functions[ran.name] IN
    /\ ran.name \in DOMAIN functions
    /\ ran.arg \in Values(f.param) /\ ran.result \in Values(f.result)
    /\ response = R2Hprose(ran.result, f.result)
    /\ AskedFor(f, ran.arg, call.method, call.args, call.known)

(* The value that the caller gets is the one returned.                     *)
Gets(result, type) ==
  /\ outcome.type \in Types
  /\ "v" \in DOMAIN outcome => outcome.v \in Values(outcome.type)
  /\ outcome.type = type /\ Supported(type) /\ Passes(result, type)
     => outcome.v = result

Told ==
  /\ call.stage # "over" => outcome = Nothing
  /\ "v" \in DOMAIN outcome => outcome.ec = "ok"
  /\ outcome.ec = "ok" =>
       HasRun /\ Gets(ran.result, functions[ran.name].result)
  /\ outcome.ec = "logic_error" => ~HasRun

IInv == Registered /\ Asked /\ Answered /\ Served /\ Told

LEMMA FunctionTypes ==
  ASSUME Registered, NEW name \in DOMAIN functions
  PROVE  /\ functions[name] \in Function /\ functions[name].name = name
         /\ functions[name].param \in Types
         /\ functions[name].result \in Types
  BY HproseAssumption DEF Registered

LEMMA InitInv == Init => IInv
  <1> SUFFICES ASSUME Init PROVE IInv
    OBVIOUS
  <1>1. /\ DOMAIN functions = {} /\ call.stage = "idle" /\ ran = NotRun
        /\ outcome = Nothing
    BY DEF Init
  <1>2. ~HasRun
    BY <1>1 DEF HasRun
  <1>3. outcome.ec = "none" /\ DOMAIN outcome = {"ec"}
    BY <1>1 DEF Nothing
  <1> QED
    BY <1>1, <1>2, <1>3
       DEF IInv, Registered, Asked, Answered, Served, Told

(* A function is registered, and no other is changed.                      *)
LEMMA RegisterFacts ==
  ASSUME NEW f \in Function, RegisterFunction(f)
  PROVE  /\ DOMAIN functions' = DOMAIN functions \cup {f.name}
         /\ \A name \in DOMAIN functions : functions'[name] = functions[name]
         /\ functions'[f.name] = f /\ f.name \notin DOMAIN functions
         /\ UNCHANGED <<call, request, response, ran, outcome>>
  <1>1. /\ functions' = [name \in DOMAIN functions \cup {f.name} |->
                            IF name = f.name THEN f ELSE functions[name]]
        /\ f.name \notin DOMAIN functions
        /\ UNCHANGED <<call, request, response, ran, outcome>>
    BY DEF RegisterFunction
  <1> QED
    BY <1>1

LEMMA RegisterInv ==
  ASSUME IInv, NEW f \in Function, RegisterFunction(f)
  PROVE  IInv'
  <1>0. /\ DOMAIN functions' = DOMAIN functions \cup {f.name}
        /\ \A name \in DOMAIN functions : functions'[name] = functions[name]
        /\ functions'[f.name] = f /\ f.name \notin DOMAIN functions
        /\ UNCHANGED <<call, request, response, ran, outcome>>
    BY RegisterFacts
  <1>1. Registered'
    BY <1>0 DEF IInv, Registered, FunctionNames
  <1>2. Asked'
    BY <1>0 DEF IInv, Asked, HasRun, Args, Request
  <1>3. Answered'
    <2> SUFFICES ASSUME call.stage = "served" PROVE Answered'
      BY <1>0 DEF Answered
    <2>1. /\ "known" \in DOMAIN call /\ call.known \subseteq DOMAIN functions
          /\ request[1] = "z" => response = ListOf(call.known)
          /\ ~HasRun => At(response, 1) \in {"E", "F"}
          /\ request[1] = "C" /\ ~HasRun =>
               Refused(call.method, call.args, call.known)
      BY DEF IInv, Answered
    <2>2. Refused(call.method, call.args, call.known)
          => Refused(call.method, call.args, call.known)'
      BY <1>0, <2>1 DEF Refused
    <2> QED
      BY <1>0, <2>1, <2>2 DEF Answered, HasRun, ListOf, Write, At
  <1>4. Served'
    <2>1. HasRun' => HasRun /\ functions'[ran.name] = functions[ran.name]
                            /\ ran.name \in DOMAIN functions
      BY <1>0 DEF IInv, Served, HasRun
    <2> QED
      BY <1>0, <2>1 DEF IInv, Served, AskedFor, R2Hprose
  <1>5. Told'
    <2>1. HasRun => functions'[ran.name] = functions[ran.name]
      BY <1>0 DEF IInv, Served
    <2> QED
      BY <1>0, <2>1 DEF IInv, Told, Gets, HasRun
  <1> QED
    BY <1>1, <1>2, <1>3, <1>4, <1>5 DEF IInv

LEMMA ArgsFacts ==
  ASSUME NEW type \in Types, NEW v \in Values(type),
         NEW more \in BoundedSeq(Extra, MaxExtra)
  PROVE  LET args == <<[type |-> type, v |-> v]>> \o more
         IN Args(args) /\ Len(args) > 0
  <1> DEFINE arg == [type |-> type, v |-> v]
             one == <<arg>>
             S == {arg} \cup Extra
             args == one \o more
  <1>1. \A x \in S : x.type \in Types /\ x.v \in Values(x.type)
    BY HproseAssumption
  <1>2. one \in Seq(S) /\ Len(one) = 1
    OBVIOUS
  <1>3. more \in Seq(S)
    <2>1. PICK m \in 0..MaxExtra : more \in [1..m -> Extra]
      BY DEF BoundedSeq, SeqOf
    <2>2. m \in Nat
      BY HproseAssumption
    <2>3. more \in Seq(Extra)
      BY <2>1, <2>2
    <2> QED
      BY <2>3, SeqMonotonic
  <1> HIDE DEF one, S
  <1>4. args \in Seq(S) /\ Len(args) = Len(one) + Len(more)
    BY <1>2, <1>3, ConcatProperties
  <1>5. Len(more) \in Nat
    BY <1>3, LenProperties
  <1> HIDE DEF args
  <1>6. Len(args) \in Nat /\ DOMAIN args = 1..Len(args) /\ Len(args) > 0
    BY <1>2, <1>4, <1>5, LenProperties
  <1>7. \A i \in 1..Len(args) : args[i] \in S
    BY <1>4, ElementOfSeq
  <1> QED
    BY <1>1, <1>6, <1>7 DEF Args, args, one

LEMMA StartCallInv ==
  ASSUME IInv, NEW method \in Method, NEW type \in Type,
         StartCall(method, type)
  PROVE  IInv'
  <1>1. PICK v \in Inputs(type), more \in BoundedSeq(Extra, MaxExtra) :
          LET args == <<[type |-> type, v |-> v]>> \o more
          IN /\ call' = [stage |-> "sent", method |-> method, args |-> args]
             /\ request' = <<"C">> \o WriteString(method, TRUE)
                           \o WriteArgs(args) \o <<"z">>
    BY DEF StartCall
  <1>2. /\ call.stage = "idle"
        /\ UNCHANGED <<functions, response, ran, outcome>>
    BY DEF StartCall
  <1> DEFINE args == <<[type |-> type, v |-> v]>> \o more
  <1>3. Args(args) /\ Len(args) > 0
    <2>1. type \in Types /\ v \in Values(type)
      BY HproseAssumption, InputsAreValues
    <2> QED
      BY <2>1, ArgsFacts
  <1> HIDE DEF args
  <1>4. /\ call' = [stage |-> "sent", method |-> method, args |-> args]
        /\ request' = Request(method, args)
    BY <1>1 DEF args, Request
  <1>5. ~HasRun /\ ~HasRun' /\ outcome = Nothing
    BY <1>2 DEF IInv, Asked, Told, HasRun
  <1>6. /\ DOMAIN call' = {"stage", "method", "args"}
        /\ call'.stage = "sent" /\ call'.method = method /\ call'.args = args
    BY <1>4
  <1>7. Asked'
    <2>1. method \in Short(Byte)
      BY HproseAssumption
    <2> QED
      BY <1>3, <1>4, <1>5, <1>6, <2>1 DEF Asked, Args, Request
  <1>8. Registered'
    BY <1>2 DEF IInv, Registered
  <1>9. Answered' /\ Served'
    BY <1>5, <1>6 DEF Answered, Served
  <1>10. Told'
    BY <1>2, <1>5, <1>6 DEF IInv, Told, Nothing
  <1> QED
    BY <1>7, <1>8, <1>9, <1>10 DEF IInv

LEMMA StartOtherInv ==
  ASSUME IInv, StartOther
  PROVE  IInv'
  <1>1. /\ call.stage = "idle"
        /\ call' = [stage |-> "sent", method |-> <<>>, args |-> <<>>]
        /\ request' \in {<<"z">>, <<"H">>}
        /\ UNCHANGED <<functions, response, ran, outcome>>
    BY DEF StartOther
  <1>2. /\ DOMAIN call' = {"stage", "method", "args"}
        /\ call'.stage = "sent" /\ call'.method = <<>> /\ call'.args = <<>>
    BY <1>1
  <1>3. ~HasRun /\ ~HasRun' /\ outcome = Nothing
    BY <1>1 DEF IInv, Asked, Told, HasRun
  <1>4. Asked'
    <2>1. <<>> \in Short(Byte)
      BY IntegerFacts DEF Short
    <2>2. Args(<<>>)
      BY DEF Args
    <2> QED
      BY <1>1, <1>2, <1>3, <2>1, <2>2 DEF Asked, Args
  <1>5. Registered'
    BY <1>1 DEF IInv, Registered
  <1>6. Answered' /\ Served'
    BY <1>2, <1>3 DEF Answered, Served
  <1>7. Told'
    BY <1>1, <1>3, <1>2 DEF IInv, Told, Nothing
  <1> QED
    BY <1>4, <1>5, <1>6, <1>7 DEF IInv

LEMMA NextCallInv ==
  ASSUME IInv, NextCall
  PROVE  IInv'
  <1>1. /\ call' = [stage |-> "idle"] /\ ran' = NotRun /\ outcome' = Nothing
        /\ UNCHANGED functions
    BY DEF NextCall
  <1>2. call'.stage = "idle" /\ ~HasRun'
    BY <1>1 DEF HasRun
  <1>3. outcome'.ec = "none" /\ DOMAIN outcome' = {"ec"}
    BY <1>1 DEF Nothing
  <1>4. Registered'
    BY <1>1 DEF IInv, Registered
  <1>5. Asked' /\ Answered' /\ Served'
    BY <1>2 DEF Asked, Answered, Served
  <1>6. Told'
    BY <1>1, <1>2, <1>3 DEF Told
  <1> QED
    BY <1>4, <1>5, <1>6 DEF IInv

(* A call that is over keeps what was asked for and what ran.              *)
LEMMA OverKeeps ==
  ASSUME IInv, call.stage \in {"sent", "served"},
         call' = [call EXCEPT !.stage = "over"],
         UNCHANGED <<functions, request, response, ran>>
  PROVE  /\ Registered' /\ Asked' /\ Answered' /\ Served'
         /\ call'.stage = "over"
  <1>1. {"stage", "method", "args"} \subseteq DOMAIN call
    BY DEF IInv, Asked
  <1>2. /\ DOMAIN call' = DOMAIN call /\ call'.stage = "over"
        /\ call'.method = call.method /\ call'.args = call.args
        /\ call.stage = "served" => call'.known = call.known
    <2>1. call.stage = "served" => "known" \in DOMAIN call
      BY DEF IInv, Answered
    <2> QED
      BY <1>1, <2>1
  <1>3. Registered'
    BY DEF IInv, Registered
  <1>4. Asked'
    BY <1>1, <1>2 DEF IInv, Asked, HasRun, Args, Request
  <1>5. Answered'
    BY <1>2 DEF Answered
  <1>6. Served'
    <2>1. HasRun => call.stage = "served"
      BY DEF IInv, Asked
    <2> QED
      BY <1>2, <2>1 DEF IInv, Served, HasRun, AskedFor, R2Hprose
  <1> QED
    BY <1>2, <1>3, <1>4, <1>5, <1>6

LEMMA FailCallInv ==
  ASSUME IInv, FailCall
  PROVE  IInv'
  <1>1. /\ call.stage \in {"sent", "served"}
        /\ call' = [call EXCEPT !.stage = "over"]
        /\ outcome' = [ec |-> "call"]
        /\ UNCHANGED <<functions, request, response, ran>>
    BY DEF FailCall
  <1>2. /\ Registered' /\ Asked' /\ Answered' /\ Served'
        /\ call'.stage = "over"
    BY <1>1, OverKeeps
  <1>3. outcome'.ec = "call" /\ DOMAIN outcome' = {"ec"}
    BY <1>1
  <1>4. Told'
    BY <1>2, <1>3 DEF Told
  <1> QED
    BY <1>2, <1>4 DEF IInv

LEMMA ResultFacts ==
  ASSUME NEW type \in Types, NEW v \in Values(type)
  PROVE  /\ R2Hprose(v, type) \in Bytes
         /\ At(R2Hprose(v, type), 1) = "R"
         /\ Holds(R2Hprose(v, type), 2, Write(v, type))
  <1>1. "R" \in Token
    BY TokenFacts DEF Marks
  <1>2. Write(v, type) \in Bytes
    BY WriteBytes
  <1> QED
    BY <1>1, <1>2, Framed DEF R2Hprose

LEMMA ReturnCallInv ==
  ASSUME IInv, NEW type \in Type, ReturnCall(type)
  PROVE  IInv'
  <1> DEFINE tag == At(response, 1)
             r == Read(response, 2, type)
             f == functions[ran.name]
  <1>1. /\ call.stage = "served"
        /\ call' = [call EXCEPT !.stage = "over"]
        /\ UNCHANGED <<functions, request, response, ran>>
        /\ outcome' = CASE tag = "E" -> [ec |-> "logic_error"]
                        [] tag = "R" /\ r.ok ->
                             [ec |-> "ok", type |-> type, v |-> r.v]
                        [] tag = "R" /\ ~r.ok -> [ec |-> "ok", type |-> type]
                        [] OTHER -> [ec |-> "call_error"]
    BY DEF ReturnCall
  <1>2. /\ Registered' /\ Asked' /\ Answered' /\ Served'
        /\ call'.stage = "over"
    BY <1>1, OverKeeps
  <1>3. type \in Types
    BY HproseAssumption
  <1>4. ~HasRun => tag \in {"E", "F"}
    BY <1>1 DEF IInv, Answered
  <1>5. HasRun => /\ tag = "R" /\ Reads(r, Values(type))
                  /\ type = f.result /\ Supported(type) =>
                       r.ok /\ (Passes(ran.result, type) => r.v = ran.result)
    <2> HAVE HasRun
    <2>1. /\ ran.name \in DOMAIN functions /\ ran.result \in Values(f.result)
          /\ response = R2Hprose(ran.result, f.result)
      BY DEF IInv, Served
    <2>2. f.result \in Types
      BY <2>1, FunctionTypes DEF IInv
    <2> HIDE DEF f
    <2>3. /\ response \in Bytes /\ tag = "R"
          /\ Holds(response, 2, Write(ran.result, f.result))
      BY <2>1, <2>2, ResultFacts
    <2>4. Reads(r, Values(type))
      BY <1>3, <2>3, ReadTyped
    <2>5. type = f.result /\ Supported(type) =>
            r.ok /\ (Passes(ran.result, type) => r.v = ran.result)
      <3> HAVE type = f.result /\ Supported(type)
      <3>1. 2 \in Pos /\ ran.result \in Values(type)
            /\ Holds(response, 2, Write(ran.result, type))
        BY <2>1, <2>3 DEF Pos
      <3> QED
        BY <1>3, <2>3, <3>1, RoundTrip
    <2> QED
      BY <2>3, <2>4, <2>5
  <1> HIDE DEF tag, r, f
  <1>6. CASE tag = "E"
    <2>1. outcome' = [ec |-> "logic_error"]
      BY <1>1, <1>6
    <2>2. outcome'.ec = "logic_error" /\ DOMAIN outcome' = {"ec"}
      BY <2>1
    <2>3. ~HasRun'
      BY <1>1, <1>5, <1>6 DEF HasRun
    <2> QED
      BY <1>2, <2>2, <2>3 DEF Told, IInv
  <1>7. CASE tag = "R" /\ r.ok
    <2>1. outcome' = [ec |-> "ok", type |-> type, v |-> r.v]
      BY <1>1, <1>7
    <2>2. outcome'.ec = "ok" /\ outcome'.type = type /\ outcome'.v = r.v
      BY <2>1
    <2>3. HasRun /\ HasRun'
      BY <1>1, <1>4, <1>7 DEF HasRun
    <2>4. Gets(ran.result, f.result)'
      BY <1>1, <1>3, <1>5, <1>7, <2>2, <2>3 DEF Gets, f, Reads
    <2>5. Told'
      BY <1>2, <2>2, <2>3, <2>4 DEF Told, f
    <2> QED
      BY <1>2, <2>5 DEF IInv
  <1>8. CASE tag = "R" /\ ~r.ok
    <2>1. outcome' = [ec |-> "ok", type |-> type]
      BY <1>1, <1>8
    <2>2. /\ outcome'.ec = "ok" /\ outcome'.type = type
          /\ DOMAIN outcome' = {"ec", "type"}
      BY <2>1
    <2>3. HasRun /\ HasRun'
      BY <1>1, <1>4, <1>8 DEF HasRun
    <2>4. Gets(ran.result, f.result)'
      BY <1>1, <1>3, <1>5, <1>8, <2>2, <2>3 DEF Gets, f
    <2>5. Told'
      BY <1>2, <2>2, <2>3, <2>4 DEF Told, f
    <2> QED
      BY <1>2, <2>5 DEF IInv
  <1>9. CASE tag \notin {"E", "R"}
    <2>1. outcome' = [ec |-> "call_error"]
      BY <1>1, <1>9
    <2>2. outcome'.ec = "call_error" /\ DOMAIN outcome' = {"ec"}
      BY <2>1
    <2> QED
      BY <1>2, <2>2 DEF Told, IInv
  <1> QED
    BY <1>6, <1>7, <1>8, <1>9

(* The names that a list of functions has.                                 *)
LEMMA ListFacts ==
  ASSUME NEW known \in SUBSET FunctionNames
  PROVE  /\ NameList \in Types
         /\ SetToSeq(known) \in Values(NameList)
         /\ IsInjective(SetToSeq(known)) /\ ToSet(SetToSeq(known)) = known
         /\ ListOf(known) \in Bytes
         /\ ListOf(known)[1] = "F" /\ At(ListOf(known), 1) = "F"
         /\ Holds(ListOf(known), 2, Write(SetToSeq(known), NameList))
         /\ At(ListOf(known), 2 + Len(Write(SetToSeq(known), NameList))) = "z"
  <1> DEFINE names == SetToSeq(known)
             w == Write(names, NameList)
  <1>1. NameList \in Types /\ NameList.lists = 1 /\ NameList.of = "string"
    BY DEF NameList, Types, Scalars
  <1>2. IsFiniteSet(known) /\ Cardinality(known) < HalfInt
    <2>1. IsFiniteSet(FunctionNames) /\ Cardinality(FunctionNames) < HalfInt
      BY HproseAssumption
    <2>2. /\ IsFiniteSet(known)
          /\ Cardinality(known) <= Cardinality(FunctionNames)
      BY <2>1, FS_Subset
    <2>3. /\ Cardinality(known) \in Nat /\ Cardinality(FunctionNames) \in Nat
          /\ HalfInt \in Nat
      BY <2>1, <2>2, FS_CardinalityType, IntegerFacts
    <2> QED
      BY <2>1, <2>2, <2>3
  <1>3. /\ names \in Seq(known) /\ Len(names) = Cardinality(known)
        /\ IsInjective(names) /\ ToSet(names) = known
    BY <1>2, SetToSeqFacts
  <1>4. known \subseteq Short(Token)
    BY HproseAssumption, ByteNames DEF FunctionNames
  <1>5. Values(NameList) = Short(Short(Token))
    <2>1. /\ Values(NameList) = ValuesTo(NameList)[1]
          /\ ValuesTo(NameList)[0] = ScalarValues("string")
          /\ \A i \in 1..1 :
               ValuesTo(NameList)[i] = Short(ValuesTo(NameList)[i - 1])
      BY <1>1, ValuesUnfold
    <2>2. 1 \in 1..1 /\ 1 - 1 = 0
      OBVIOUS
    <2>3. ScalarValues("string") = Short(Token)
      BY DEF ScalarValues, IntTypes
    <2> QED
      BY <2>1, <2>2, <2>3
  <1> HIDE DEF names
  <1>6. names \in Values(NameList)
    <2>1. names \in Seq(Short(Token))
      BY <1>3, <1>4, SeqMonotonic
    <2> QED
      BY <1>2, <1>3, <1>5, <2>1 DEF Short
  <1>7. w \in Bytes
    BY <1>1, <1>6, WriteBytes
  <1>8. "F" \in Token
    BY TokenFacts DEF Marks
  <1>9. ListOf(known) = <<"F">> \o w \o <<"z">>
    BY DEF ListOf, names
  <1> HIDE DEF w
  <1> QED
    BY <1>1, <1>3, <1>6, <1>7, <1>8, <1>9, Framed DEF names, w

(* What an answer leaves as it is.                                         *)
LEMMA RespondFacts ==
  ASSUME IInv, call.stage = "sent", NEW buf, Respond(buf)
  PROVE  /\ call'.stage = "served" /\ call'.method = call.method
         /\ call'.args = call.args /\ call'.known = DOMAIN functions
         /\ "known" \in DOMAIN call'
         /\ response' = buf /\ UNCHANGED <<functions, request>>
         /\ Registered' /\ Asked' /\ Told'
         /\ ~HasRun
  <1>1. /\ call' = [stage |-> "served", method |-> call.method,
                    args |-> call.args, known |-> DOMAIN functions]
        /\ response' = buf /\ UNCHANGED <<functions, request, outcome>>
    BY DEF Respond
  <1>2. /\ call'.stage = "served" /\ call'.method = call.method
        /\ call'.args = call.args /\ call'.known = DOMAIN functions
        /\ DOMAIN call' = {"stage", "method", "args", "known"}
    BY <1>1
  <1>3. ~HasRun /\ outcome = Nothing
    BY DEF IInv, Asked, Told
  <1>4. Registered'
    BY <1>1 DEF IInv, Registered
  <1>5. Asked'
    BY <1>1, <1>2 DEF IInv, Asked, Args, Request
  <1>6. Told'
    <2>1. /\ outcome'.ec = "none" /\ DOMAIN outcome' = {"ec"}
          /\ outcome' = Nothing
      BY <1>1, <1>3 DEF Nothing
    <2> QED
      BY <2>1 DEF Told
  <1> QED
    BY <1>1, <1>2, <1>3, <1>4, <1>5, <1>6

LEMMA AnswerTagInv ==
  ASSUME IInv, AnswerTag
  PROVE  IInv'
  <1> DEFINE buf == IF request[1] = "z" THEN GetFunctionList ELSE NoSupport
  <1>1. /\ call.stage = "sent" /\ request[1] # "C" /\ Respond(buf)
        /\ UNCHANGED ran
    BY DEF AnswerTag
  <1> HIDE DEF buf
  <1>2. /\ call'.stage = "served" /\ call'.known = DOMAIN functions
        /\ "known" \in DOMAIN call'
        /\ response' = buf /\ UNCHANGED <<functions, request>>
        /\ Registered' /\ Asked' /\ Told' /\ ~HasRun
    BY <1>1, RespondFacts
  <1>3. ~HasRun'
    BY <1>1, <1>2 DEF HasRun
  <1>4. DOMAIN functions \in SUBSET FunctionNames
    BY DEF IInv, Registered
  <1>5. GetFunctionList = ListOf(DOMAIN functions)
    BY DEF GetFunctionList, ListOf
  <1>6. At(GetFunctionList, 1) = "F" /\ At(NoSupport, 1) = "E"
    BY <1>4, <1>5, ListFacts, ErrorFirst
  <1>7. At(buf, 1) \in {"E", "F"}
    BY <1>6 DEF buf
  <1>8. Answered'
    <2>1. At(response, 1)' \in {"E", "F"}
      BY <1>2, <1>7 DEF At
    <2>2. request[1] = "z" => response' = ListOf(DOMAIN functions)
      BY <1>2, <1>5 DEF buf
    <2>3. ListOf(call.known)' = ListOf(DOMAIN functions)
      BY <1>2
    <2> QED
      BY <1>1, <1>2, <2>1, <2>2, <2>3 DEF Answered
  <1>9. Served'
    BY <1>3 DEF Served
  <1> QED
    BY <1>2, <1>8, <1>9 DEF IInv

(* What the service finds in a request.                                    *)
LEMMA RequestRead ==
  ASSUME IInv, call.stage = "sent", request[1] = "C"
  PROVE  LET m == ReadString(request, 2)
             q == 2 + Len(WriteString(call.method, TRUE))
             passed == call.args[1]
         IN /\ request \in Bytes /\ Args(call.args)
            /\ m.ok \in BOOLEAN /\ m.pos \in Nat
            /\ q \in Pos /\ passed.type \in Types
            /\ passed.v \in Values(passed.type)
            /\ Holds(request, q, Write(passed.v, passed.type))
            /\ \/ At(request, q) = "z"
               \/ \E i \in DOMAIN call.args :
                    At(request, q) \in Starts(call.args[i].type)
            /\ Legible(call.method) =>
                 \/ m = Got(call.method, q)
                 \/ /\ m = Fail(2)
                    /\ \E i \in DOMAIN call.method :
                         LeadingOnes(call.method[i]) > 0
            /\ ~Legible(call.method) =>
                 \E i \in DOMAIN call.method :
                   LeadingOnes(call.method[i]) > 0
  <1> DEFINE method == call.method
             args == call.args
             m == ReadString(request, 2)
             q == 2 + Len(WriteString(method, TRUE))
  <1>1. /\ method \in Short(Token) /\ Args(args)
        /\ Len(args) > 0 /\ request = Request(method, args)
    <2>1. /\ method \in Short(Byte) /\ Args(args)
          /\ \/ request \in {<<"z">>, <<"H">>}
             \/ Len(args) > 0 /\ request = Request(method, args)
      BY DEF IInv, Asked
    <2>2. request \notin {<<"z">>, <<"H">>}
      OBVIOUS
    <2> QED
      BY <2>1, <2>2, ByteNames
  <1>2. args[1].type \in Types /\ args[1].v \in Values(args[1].type)
    BY <1>1 DEF Args
  <1>3. 2 \in Pos /\ 2 \in Nat
    BY DEF Pos
  <1> HIDE DEF method, args
  <1>4. /\ request \in Bytes /\ Holds(request, 2, WriteString(method, TRUE))
        /\ q \in Pos
        /\ Holds(request, q, Write(args[1].v, args[1].type))
        /\ \/ At(request, q) = "z"
           \/ \E i \in DOMAIN args : At(request, q) \in Starts(args[i].type)
    BY <1>1, RequestFacts
  <1>5. m.ok \in BOOLEAN /\ m.pos \in Nat
    BY <1>3, <1>4, ReadStringTyped DEF Reads
  <1>6. Legible(method) =>
          \/ m = Got(method, q)
          \/ /\ m = Fail(2)
             /\ \E i \in DOMAIN method : LeadingOnes(method[i]) > 0
    BY <1>1, <1>3, <1>4, NameRoundTrip
  <1>7. ~Legible(method) =>
          \E i \in DOMAIN method : LeadingOnes(method[i]) > 0
    <2>1. \A i \in DOMAIN method : LeadingOnes(method[i]) \in Nat
      BY DEF LeadingOnes
    <2> QED
      BY <2>1 DEF Legible
  <1> QED
    BY <1>1, <1>2, <1>4, <1>5, <1>6, <1>7 DEF method, args

(* A refusal that has a reason.                                            *)
LEMMA RefuseInv ==
  ASSUME IInv, call.stage = "sent", request[1] = "C", NEW buf,
         At(buf, 1) = "E", Respond(buf), UNCHANGED ran,
         Refused(call.method, call.args, DOMAIN functions)
  PROVE  IInv'
  <1>1. /\ call'.stage = "served" /\ call'.method = call.method
        /\ call'.args = call.args /\ call'.known = DOMAIN functions
        /\ "known" \in DOMAIN call'
        /\ response' = buf /\ UNCHANGED <<functions, request>>
        /\ Registered' /\ Asked' /\ Told' /\ ~HasRun
    BY RespondFacts
  <1>2. ~HasRun'
    BY <1>1 DEF HasRun
  <1>3. Refused(call.method, call.args, call.known)'
    BY <1>1 DEF Refused
  <1>4. Answered'
    BY <1>1, <1>3 DEF Answered, At
  <1>5. Served'
    BY <1>2 DEF Served
  <1> QED
    BY <1>1, <1>4, <1>5 DEF IInv

(* What an argument is read as, behind a method that is legible.           *)
LEMMA ArgumentRead ==
  ASSUME IInv, call.stage = "sent", request[1] = "C", NEW param \in Types
  PROVE  LET q == 2 + Len(WriteString(call.method, TRUE))
             r == Read(request, q, param)
             passed == call.args[1]
         IN /\ r.ok =>
                 \E i \in DOMAIN call.args :
                   SameKind(call.args[i].type, param)
            /\ passed.type = param =>
                 /\ Supported(param) => r.ok
                 /\ r.ok /\ Passes(passed.v, param) => r.v = passed.v
  <1> DEFINE args == call.args
             passed == args[1]
             q == 2 + Len(WriteString(call.method, TRUE))
             r == Read(request, q, param)
  <1>1. /\ request \in Bytes /\ Args(args) /\ q \in Pos
        /\ passed.v \in Values(passed.type)
        /\ Holds(request, q, Write(passed.v, passed.type))
        /\ \/ At(request, q) = "z"
           \/ \E i \in DOMAIN args : At(request, q) \in Starts(args[i].type)
    BY RequestRead
  <1> HIDE DEF args, q
  <1>2. r.ok => \E i \in DOMAIN args : SameKind(args[i].type, param)
    <2> HAVE r.ok
    <2>1. At(request, q) \in Starts(param)
      BY <1>1, ReadStarts DEF Pos
    <2>2. PICK i \in DOMAIN args : At(request, q) \in Starts(args[i].type)
      BY <1>1, <2>1, StartsFacts
    <2>3. args[i].type \in Types
      BY <1>1 DEF Args
    <2> QED
      BY <2>1, <2>2, <2>3, StartsFacts
  <1>3. passed.type = param =>
          /\ Supported(param) => r.ok
          /\ r.ok /\ Passes(passed.v, param) => r.v = passed.v
    <2> HAVE passed.type = param
    <2>1. /\ passed.v \in Values(param)
          /\ Holds(request, q, Write(passed.v, param))
      BY <1>1
    <2> QED
      BY <1>1, <2>1, RoundTrip
  <1> QED
    BY <1>2, <1>3 DEF args, q

LEMMA CallMethodInv ==
  ASSUME IInv, CallMethod
  PROVE  IInv'
  <1> DEFINE m == ReadString(request, 2)
             name == Lookup(m.v)
             q == 2 + Len(WriteString(call.method, TRUE))
             plain == \A i \in DOMAIN call.method :
                        ~(LeadingOnes(call.method[i]) > 0)
             f == functions[name]
             r == Read(request, m.pos, f.param)
  <1>1. call.stage = "sent" /\ request[1] = "C"
    BY DEF CallMethod
  <1>2. /\ m.ok \in BOOLEAN /\ m.pos \in Nat /\ request \in Bytes
        /\ Legible(call.method) => m = Got(call.method, q) \/ m = Fail(2)
        /\ plain => m = Got(call.method, q)
    BY <1>1, RequestRead
  <1>3. \/ /\ ~m.ok /\ Respond(error_arguments) /\ UNCHANGED ran
        \/ /\ m.ok /\ name \notin DOMAIN functions
           /\ Respond(NoCallee) /\ UNCHANGED ran
        \/ /\ m.ok /\ name \in DOMAIN functions
           /\ Callee(f, m.pos)
    BY DEF CallMethod
  <1>4. ~plain => Refused(call.method, call.args, DOMAIN functions)
    BY DEF Refused
  <1> HIDE DEF m, q, plain
  <1>5. plain => m.ok /\ m.v = call.method /\ m.pos = q
    BY <1>2 DEF Got
  <1>6. Legible(call.method) /\ m.ok => m.v = call.method /\ m.pos = q
    BY <1>2 DEF Got, Fail
  <1>7. CASE ~m.ok /\ Respond(error_arguments) /\ UNCHANGED ran
    <2>1. Refused(call.method, call.args, DOMAIN functions)
      BY <1>4, <1>5, <1>7
    <2> QED
      BY <1>1, <1>7, <2>1, ErrorFirst, RefuseInv
  <1>8. CASE /\ m.ok /\ name \notin DOMAIN functions
             /\ Respond(NoCallee) /\ UNCHANGED ran
    <2>1. plain => call.method \notin DOMAIN functions
      BY <1>5, <1>8 DEF Lookup
    <2>2. Refused(call.method, call.args, DOMAIN functions)
      BY <1>4, <2>1 DEF Refused
    <2> QED
      BY <1>1, <1>8, <2>2, ErrorFirst, RefuseInv
  <1>9. CASE /\ m.ok /\ name \in DOMAIN functions
             /\ Callee(f, m.pos)
    <2>1. f.name = name /\ f.param \in Types /\ f.result \in Types
      BY <1>9, FunctionTypes DEF IInv
    <2>2. Reads(r, Values(f.param))
      BY <1>2, <2>1, ReadTyped
    <2>3. Legible(call.method) =>
            /\ name = IF call.method \in DOMAIN functions
                      THEN call.method ELSE <<"*">>
            /\ r.ok => \E i \in DOMAIN call.args :
                         SameKind(call.args[i].type, f.param)
            /\ call.args[1].type = f.param =>
                 /\ Supported(f.param) => r.ok
                 /\ r.ok /\ Passes(call.args[1].v, f.param)
                    => r.v = call.args[1].v
      <3> HAVE Legible(call.method)
      <3>1. m.v = call.method /\ m.pos = q
        BY <1>6, <1>9
      <3>2. name = IF call.method \in DOMAIN functions
                   THEN call.method ELSE <<"*">>
        BY <3>1 DEF Lookup
      <3>3. r = Read(request, q, f.param)
        BY <3>1
      <3> HIDE DEF name, f, r
      <3> QED
        BY <1>1, <2>1, <3>2, <3>3, ArgumentRead DEF q
    <2>4. plain => Legible(call.method)
      <3>1. \A i \in DOMAIN call.method :
              LeadingOnes(call.method[i]) \in Nat
        BY DEF LeadingOnes
      <3> QED
        BY <3>1 DEF plain, Legible
    <2>5. \/ ~r.ok /\ Respond(error_arguments) /\ UNCHANGED ran
          \/ /\ r.ok
             /\ \E result \in Inputs(f.result) :
                  /\ ran' = [name |-> f.name, arg |-> r.v, result |-> result]
                  /\ Respond(R2Hprose(result, f.result))
      BY <1>9 DEF Callee
    <2> HIDE DEF r
    <2>6. CASE ~r.ok /\ Respond(error_arguments) /\ UNCHANGED ran
      <3>1. Refused(call.method, call.args, DOMAIN functions)
        BY <1>4, <2>3, <2>4, <2>6 DEF Refused
      <3> QED
        BY <1>1, <2>6, <3>1, ErrorFirst, RefuseInv
    <2>7. ASSUME r.ok, NEW result \in Inputs(f.result),
                 ran' = [name |-> f.name, arg |-> r.v, result |-> result],
                 Respond(R2Hprose(result, f.result))
          PROVE  IInv'
      <3>1. /\ call'.stage = "served" /\ call'.method = call.method
            /\ call'.args = call.args /\ call'.known = DOMAIN functions
            /\ "known" \in DOMAIN call'
            /\ response' = R2Hprose(result, f.result)
            /\ UNCHANGED <<functions, request>>
            /\ Registered' /\ Asked' /\ Told'
        BY <1>1, <2>7, RespondFacts
      <3>2. /\ ran'.name = name /\ ran'.arg = r.v /\ ran'.result = result
            /\ HasRun'
        <4>1. "arg" \in DOMAIN ran' /\ "arg" \notin DOMAIN NotRun
          BY <2>7 DEF NotRun
        <4> QED
          BY <2>1, <2>7, <4>1 DEF HasRun
      <3>3. result \in Values(f.result)
        BY <2>1, InputsAreValues
      <3>4. r.v \in Values(f.param)
        BY <2>2, <2>7 DEF Reads
      <3>5. Answered'
        BY <1>1, <3>1, <3>2 DEF Answered
      <3>6. AskedFor(f, r.v, call.method, call.args, DOMAIN functions)
        BY <2>1, <2>3, <2>7 DEF AskedFor
      <3> HIDE DEF name
      <3>7. Served'
        BY <1>9, <3>1, <3>2, <3>3, <3>4, <3>6 DEF Served
      <3> QED
        BY <3>1, <3>5, <3>7 DEF IInv
    <2> QED
      BY <2>5, <2>6, <2>7
  <1> QED
    BY <1>3, <1>7, <1>8, <1>9

-----------------------------------------------------------------------------
(* Theorems *)

(* The invariant that the properties follow from.                          *)
THEOREM Invariant == Spec => []IInv
  <1>1. IInv /\ Next => IInv'
    <2> SUFFICES ASSUME IInv, Next PROVE IInv'
      OBVIOUS
    <2>1. ASSUME NEW f \in Function, RegisterFunction(f) PROVE IInv'
      BY <2>1, RegisterInv
    <2>2. ASSUME NEW method \in Method, NEW type \in Type,
                 StartCall(method, type)
          PROVE  IInv'
      BY <2>2, StartCallInv
    <2>3. CASE StartOther
      BY <2>3, StartOtherInv
    <2>4. CASE CallMethod
      BY <2>4, CallMethodInv
    <2>5. CASE AnswerTag
      BY <2>5, AnswerTagInv
    <2>6. CASE FailCall
      BY <2>6, FailCallInv
    <2>7. ASSUME NEW type \in Type, ReturnCall(type) PROVE IInv'
      BY <2>7, ReturnCallInv
    <2>8. CASE NextCall
      BY <2>8, NextCallInv
    <2> QED
      BY <2>1, <2>2, <2>3, <2>4, <2>5, <2>6, <2>7, <2>8 DEF Next
  <1>2. IInv /\ UNCHANGED vars => IInv'
    BY ZenonT(60) DEF IInv, vars, Registered, Asked, Answered, Served, Told,
           HasRun, Args, Request, Refused, ListOf, AskedFor, Gets, R2Hprose, At
  <1> QED
    BY InitInv, <1>1, <1>2, PTL DEF Spec

(* What runs is registered, its argument and what the caller gets are      *)
(* values of their types, whatever was written for another type.           *)
THEOREM TypeCorrect == Spec => []TypeOK
  <1>1. IInv => TypeOK
    <2> SUFFICES ASSUME IInv PROVE TypeOK
      OBVIOUS
    <2>1. \A name \in DOMAIN functions :
            functions[name] \in Function /\ functions[name].name = name
      BY DEF IInv, Registered
    <2>2. call.stage \in {"idle", "sent", "served", "over"}
      BY DEF IInv, Asked
    <2>3. ran # NotRun => /\ ran.name \in DOMAIN functions
                          /\ ran.arg \in Values(functions[ran.name].param)
      BY DEF IInv, Served, HasRun
    <2>4. "v" \in DOMAIN outcome => outcome.v \in Values(outcome.type)
      BY DEF IInv, Told, Gets
    <2> QED
      BY <2>1, <2>2, <2>3, <2>4 DEF TypeOK
  <1> QED
    BY Invariant, <1>1, PTL

(* Arguments and results pass unchanged between types that agree.          *)
THEOREM TransparentCalls == Spec => []Transparent
  <1>1. IInv => Transparent
    <2> SUFFICES ASSUME IInv, HasRun PROVE Transparent
      BY DEF Transparent
    <2> DEFINE f == functions[ran.name]
               passed == call.args[1]
    <2>1. Legible(call.method) /\ passed.type = f.param
          /\ Passes(passed.v, passed.type)
          => ran.arg = passed.v
      BY DEF IInv, Served, AskedFor
    <2>2. outcome.ec = "ok" =>
            (outcome.type = f.result /\ Supported(f.result)
             /\ Passes(ran.result, f.result)
             => outcome.v = ran.result)
      BY DEF IInv, Told, Gets
    <2> QED
      BY <2>1, <2>2 DEF Transparent
  <1> QED
    BY Invariant, <1>1, PTL

(* The caller is told whether a function ran, what ran was asked for, and  *)
(* nothing is refused without a reason.                                    *)
THEOREM ErrorsAreTold == Spec => []ErrorsTold
  <1>1. IInv => ErrorsTold
    <2> SUFFICES ASSUME IInv PROVE ErrorsTold
      OBVIOUS
    <2>1. /\ outcome.ec = "ok" => HasRun
          /\ outcome.ec = "logic_error" => ~HasRun
      BY DEF IInv, Told
    <2>2. HasRun /\ Legible(call.method) =>
            /\ ran.name = IF call.method \in call.known
                          THEN call.method ELSE <<"*">>
            /\ \E i \in DOMAIN call.args :
                 SameKind(call.args[i].type, functions[ran.name].param)
      <3> HAVE HasRun /\ Legible(call.method)
      <3>1. /\ ran.name \in DOMAIN functions
            /\ functions[ran.name].name = ran.name
            /\ AskedFor(functions[ran.name], ran.arg, call.method, call.args,
                        call.known)
        BY DEF IInv, Served, Registered
      <3> QED
        BY <3>1 DEF AskedFor
    <2>3. call.stage = "served" /\ request[1] = "C" /\ ~HasRun =>
            Refused(call.method, call.args, call.known)
      BY DEF IInv, Answered
    <2> QED
      BY <2>1, <2>2, <2>3 DEF ErrorsTold, Refused
  <1> QED
    BY Invariant, <1>1, PTL

(* The list of functions is read to its end, and has every name once.      *)
THEOREM ListIsTold == Spec => []ListTold
  <1>1. IInv => ListTold
    <2> SUFFICES ASSUME IInv, call.stage = "served", request[1] = "z"
                 PROVE  ListTold
      BY DEF ListTold
    <2> DEFINE names == SetToSeq(call.known)
               w == Write(names, NameList)
               r == Read(response, 2, NameList)
    <2>1. response = ListOf(call.known) /\ call.known \in SUBSET FunctionNames
      BY DEF IInv, Answered, Registered
    <2>2. /\ NameList \in Types /\ names \in Values(NameList)
          /\ IsInjective(names) /\ ToSet(names) = call.known
          /\ response \in Bytes /\ response[1] = "F"
          /\ Holds(response, 2, w) /\ At(response, 2 + Len(w)) = "z"
      BY <2>1, ListFacts
    <2> HIDE DEF names
    <2>3. 2 \in Pos /\ Supported(NameList) /\ Passes(names, NameList)
      BY DEF Pos, Supported, Passes, NameList
    <2>4. r.ok /\ r.pos = 2 + Len(w) /\ r.v = names
      BY <2>2, <2>3, RoundTrip
    <2> HIDE DEF w, r
    <2> QED
      BY <2>2, <2>4 DEF ListTold, r
  <1> QED
    BY Invariant, <1>1, PTL
=============================================================================
