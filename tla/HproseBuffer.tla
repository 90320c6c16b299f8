---------------------------- MODULE HproseBuffer ----------------------------
(***************************************************************************)
(* Buffer of ucorf/hprose/hprose_protocol.h: how values are written into a *)
(* buffer and read back from it.                                           *)
(*                                                                         *)
(* A buffer is a sequence of bytes, each a string; a numeral (the bytes    *)
(* between a tag and the mark that ends it, or one digit) counts as one,   *)
(* since no string here has digits.  Left out: double, which cannot be     *)
(* instantiated (its Read and that of the containers are ambiguous), null, *)
(* and dates, which no callee can take.                                    *)
(***************************************************************************)
EXTENDS Integers, Sequences, SequencesExt

CONSTANTS
  HalfInt,    \* an int is at least -HalfInt and less than HalfInt (2^31)
  HalfLong,   \* the same for long long (2^63)
  MaxDigit,   \* the greatest digit (9)
  Numeral(_), \* std::to_string
  Byte,       \* bytes that strings and names are made of
  IntSample,  \* the integers passed, if they are of the type
  StrSample,  \* the strings passed
  MaxList     \* bound on the elements of a list passed

TagSemicolon == ";"
TagOpenbrace == "{"
TagClosebrace == "}"
TagQuote == "\""

(* The numbers that are ever written, what stands between them, and all    *)
(* that a buffer is made of.                                               *)
Numbers == -HalfLong .. 2 * HalfLong - 1
Marks == {"C", "H", "R", "E", "F", "z", "i", "l", "s", "b", "e", "t", "f",
          "a", TagOpenbrace, TagClosebrace, TagQuote, TagSemicolon, "eof"}
Token == {Numeral(n) : n \in Numbers} \cup Marks \cup Byte

(* Sequences whose length is an int.                                       *)
Short(S) == {s \in Seq(S) : Len(s) < HalfInt}

(* An unsigned fits in a long long, and a length in an int.  The numeral   *)
(* of a number is that of no other, and can be told from the marks.        *)
ASSUME HproseBufferAssumption ==
  /\ HalfInt \in Nat \ {0} /\ HalfLong \in Nat /\ 2 * HalfInt <= HalfLong
  /\ MaxDigit \in Nat /\ MaxDigit < HalfInt
  /\ StrSample \subseteq Short(Byte)
  /\ MaxList \in Nat /\ MaxList < HalfInt
  /\ \A n \in Numbers :
       /\ Numeral(n) \notin Marks
       /\ \A m \in Numbers : Numeral(m) = Numeral(n) => m = n

-----------------------------------------------------------------------------
(* Types and values.  A type is a scalar type within any number of lists:  *)
(* std::vector<std::vector<int>> is [lists |-> 2, of |-> "int"].           *)

IntTypes == {"int", "uint", "long", "ulong"}
Scalars == IntTypes \cup {"bool", "string", "map"}
Types == [lists : Nat, of : Scalars]

IsInteger(type) == type.lists = 0 /\ type.of \in IntTypes

Half(of) == IF of \in {"int", "uint"} THEN HalfInt ELSE HalfLong

Integer(of) ==
  IF of \in {"int", "long"} THEN -Half(of) .. Half(of) - 1
  ELSE 0 .. 2 * Half(of) - 1

ScalarValues(of) ==
  CASE of \in IntTypes -> Integer(of)
    [] of = "bool"     -> BOOLEAN
    [] of = "string"   -> Short(Token)
    [] of = "map"      -> {<<>>}

Values(type) ==
  LET values[n \in 0..type.lists] ==
        IF n = 0 THEN ScalarValues(type.of) ELSE Short(values[n - 1])
  IN values[type.lists]

(* Those that are passed.                                                  *)
ScalarInputs(of) ==
  CASE of \in IntTypes -> Integer(of) \cap IntSample
    [] of = "string"   -> StrSample
    [] OTHER           -> ScalarValues(of)

Inputs(type) ==
  LET inputs[n \in 0..type.lists] ==
        IF n = 0 THEN ScalarInputs(type.of)
        ELSE BoundedSeq(inputs[n - 1], MaxList)
  IN inputs[type.lists]

(* The value of type that a number becomes in an assignment.               *)
Cast(n, of) ==
  IF of \in {"int", "long"} THEN ((n + Half(of)) % (2 * Half(of))) - Half(of)
  ELSE n % (2 * Half(of))

(* The nearest long long.                                                  *)
Saturate(n) ==
  IF n \in Integer("long") THEN n
  ELSE IF n > 0 THEN HalfLong - 1 ELSE -HalfLong

(* The number that a sequence of bytes begins with; 0 if there is none.    *)
Number(s) ==
  LET numbers == {n \in Numbers : s # <<>> /\ Numeral(n) = s[1]}
  IN IF numbers = {} THEN 0 ELSE CHOOSE n \in numbers : TRUE

atoll(s) == Saturate(Number(s))
atoi(s) == Cast(atoll(s), "int")

-----------------------------------------------------------------------------
(* Writing *)

(* A mistake for WriteInteger, which no specification uses: the semicolon  *)
(* is forgotten.                                                           *)
WriteIntegerOpen(n, of) ==
  IF n \in 0..MaxDigit THEN <<Numeral(n)>>
  ELSE <<IF of \in {"int", "uint"} THEN "i" ELSE "l", Numeral(n)>>

WriteInteger(n, of) ==
  IF n \in 0..MaxDigit THEN <<Numeral(n)>>
  ELSE <<IF of \in {"int", "uint"} THEN "i" ELSE "l", Numeral(n),
         TagSemicolon>>

(* The number of 1 bits before the first 0 in a byte: 2 for the first of a *)
(* two-byte character, 1 for the others of a character.                    *)
LeadingOnes(b) == CASE b = "C3" -> 2 [] b = "A9" -> 1 [] OTHER -> 0

(* The characters of a string, but that each of more than one byte is      *)
(* taken to have a byte more than it has: skip is the bytes still to skip. *)
CharCount(str) ==
  LET scan[i \in 0..Len(str)] ==
        IF i = 0 THEN [chars |-> 0, skip |-> 0]
        ELSE IF scan[i - 1].skip > 0
        THEN [chars |-> scan[i - 1].chars, skip |-> scan[i - 1].skip - 1]
        ELSE [chars |-> scan[i - 1].chars + 1, skip |-> LeadingOnes(str[i])]
  IN scan[Len(str)].chars

WriteString(str, utf8) ==
  IF str = <<>> THEN <<"e">>
  ELSE <<IF utf8 THEN "s" ELSE "b",
         Numeral(IF utf8 THEN CharCount(str) ELSE Len(str)), TagQuote>>
       \o str \o <<TagQuote>>

WriteBool(b) == <<IF b THEN "t" ELSE "f">>

(* Nothing is written for a map.                                           *)
WriteScalar(v, of) ==
  CASE of \in IntTypes -> WriteInteger(v, of)
    [] of = "bool"     -> WriteBool(v)
    [] of = "string"   -> WriteString(v, FALSE)
    [] of = "map"      -> <<>>

(* Nothing is written for the size of an empty list.  write has the bytes  *)
(* of the elements.                                                        *)
WriteList(v, write) ==
  (IF v = <<>> THEN <<"a", TagOpenbrace>>
   ELSE <<"a", Numeral(Len(v)), TagOpenbrace>>)
  \o FlattenSeq([i \in 1..Len(v) |-> write[v[i]]]) \o <<TagClosebrace>>

Write(v, type) ==
  LET writer[n \in 0..type.lists] ==
        IF n = 0 THEN [x \in ScalarValues(type.of) |-> WriteScalar(x, type.of)]
        ELSE [x \in Short(DOMAIN writer[n - 1]) |->
                WriteList(x, writer[n - 1])]
  IN writer[type.lists][v]

-----------------------------------------------------------------------------
(* Reading.  A read of buf at pos returns whether it succeeded, the value  *)
(* and the next position: rb_sentry puts the position back after a failure.*)

Got(v, pos) == [ok |-> TRUE, v |-> v, pos |-> pos]
Fail(pos) == [ok |-> FALSE, v |-> <<>>, pos |-> pos]

At(buf, pos) == IF pos \in DOMAIN buf THEN buf[pos] ELSE "eof"

(* The bytes from pos to the next mark, which are followed by the mark; or *)
(* none.                                                                   *)
ReadUntil(buf, pos, mark) ==
  LET ends == {i \in DOMAIN buf : i >= pos /\ buf[i] = mark}
  IN IF ends = {} THEN Fail(pos)
     ELSE LET end == CHOOSE i \in ends : \A j \in ends : i <= j
          IN Got(SubSeq(buf, pos, end), end + 1)

(* A mistake for ReadInteger, which no specification uses: a number is not *)
(* cut to the width of its reader.                                         *)
ReadIntegerWide(buf, pos, of) ==
  LET tag == At(buf, pos)
      s == ReadUntil(buf, pos + 1, TagSemicolon)
  IN CASE tag \in {Numeral(d) : d \in 0..MaxDigit} ->
            Got(Number(<<tag>>), pos + 1)
       [] tag = "i" -> Got(atoi(s.v), s.pos)
       [] tag = "l" -> Got(atoll(s.v), s.pos)
       [] OTHER -> Fail(pos)

ReadInteger(buf, pos, of) ==
  LET tag == At(buf, pos)
      s == ReadUntil(buf, pos + 1, TagSemicolon)
  IN CASE tag \in {Numeral(d) : d \in 0..MaxDigit} ->
            Got(Cast(Number(<<tag>>), of), pos + 1)
       [] tag = "i" -> Got(Cast(atoi(s.v), of), s.pos)
       [] tag = "l" -> Got(Cast(atoll(s.v), of), s.pos)
       [] OTHER -> Fail(pos)

ReadBool(buf, pos) ==
  IF At(buf, pos) \in {"t", "f"} THEN Got(At(buf, pos) = "t", pos + 1)
  ELSE Fail(pos)

(* ReadN wants a byte after the n ones that it takes.                      *)
ReadN(buf, pos, n) ==
  IF pos + n \in DOMAIN buf THEN SubSeq(buf, pos, pos + n - 1) ELSE <<>>

(* Read drops its argument utf8: the length counts bytes.                  *)
ReadString(buf, pos) ==
  LET size == ReadUntil(buf, pos + 1, TagQuote)
      len == atoi(size.v)
      str == ReadN(buf, size.pos, len)
  IN CASE At(buf, pos) = "e" -> Got(<<>>, pos + 1)
       [] /\ At(buf, pos) \in {"s", "b"}
          /\ size.ok /\ len > 0 /\ Len(str) = len
          /\ At(buf, size.pos + len) = TagQuote ->
            Got(str, size.pos + len + 1)
       [] OTHER -> Fail(pos)

ReadScalar(buf, pos, of) ==
  CASE of \in IntTypes -> ReadInteger(buf, pos, of)
    [] of = "bool"     -> ReadBool(buf, pos)
    [] of = "string"   -> ReadString(buf, pos)
    [] of = "map"      -> Fail(pos)

(* n values, one after the other; read has what is read at each position.  *)
(* A size less than 0 is never written: resize would throw.                *)
ReadElems(read, pos, n) ==
  LET got[i \in 0..n] ==
        IF i = 0 THEN Got(<<>>, pos)
        ELSE IF ~got[i - 1].ok \/ ~read[got[i - 1].pos].ok THEN Fail(pos)
        ELSE Got(Append(got[i - 1].v, read[got[i - 1].pos].v),
                 read[got[i - 1].pos].pos)
  IN IF n < 0 THEN Fail(pos) ELSE got[n]

(* A mistake for CloseList, which no specification uses: the brace that    *)
(* ends the list is not consumed.                                          *)
CloseListOpen(elems, buf, pos) ==
  IF elems.ok /\ At(buf, elems.pos) = TagClosebrace
  THEN Got(elems.v, elems.pos)
  ELSE Fail(pos)

(* The list that began at pos, when its elements have been read.           *)
CloseList(elems, buf, pos) ==
  IF elems.ok /\ At(buf, elems.pos) = TagClosebrace
  THEN Got(elems.v, elems.pos + 1)
  ELSE Fail(pos)

ReadList(buf, pos, read) ==
  LET size == ReadUntil(buf, pos + 1, TagOpenbrace)
  IN IF At(buf, pos) # "a" THEN Fail(pos)
     ELSE CloseList(ReadElems(read, size.pos, atoi(size.v)), buf, pos)

Read(buf, pos, type) ==
  LET reader[n \in 0..type.lists] ==
        IF n = 0 THEN [p \in Nat |-> ReadScalar(buf, p, type.of)]
        ELSE [p \in Nat |-> ReadList(buf, p, reader[n - 1])]
  IN reader[type.lists][pos]

-----------------------------------------------------------------------------
(* What a value is read as *)

(* Types whose values the program can write and read.                      *)
Supported(type) == type.of # "map"

(* Types that the reader may take for one another: it looks at tags only,  *)
(* and an empty list has no elements.                                      *)
SameKind(type, other) ==
  \/ type = other
  \/ IsInteger(type) /\ IsInteger(other)
  \/ type.lists > 0 /\ other.lists > 0

(* An unsigned long long must be a long long to pass.                      *)
Passes(v, type) ==
  type.of = "ulong" => v \in Values([lists |-> type.lists, of |-> "long"])

(* The count of the characters of a name cannot hide a quote within it.    *)
Legible(name) ==
  \/ \A i \in DOMAIN name : LeadingOnes(name[i]) = 0
  \/ \A i \in DOMAIN name : name[i] # TagQuote
=============================================================================
