------------------------------ MODULE MCHprose ------------------------------
(***************************************************************************)
(* Hprose with a function f of any type to bool, or of bool to any type;   *)
(* one whose name is a character of two bytes; and one for all names.      *)
(***************************************************************************)
EXTENDS Hprose

Plain(of) == [lists |-> 0, of |-> of]
List(of) == [lists |-> 1, of |-> of]

MCType == {Plain(of) : of \in Scalars} \cup {List("int"), List("string")}
          \cup {[lists |-> 2, of |-> "bool"]}

MCFunction ==
  [name : {<<"f">>}, param : MCType, result : {Plain("bool")}]
  \cup [name : {<<"f">>}, param : {Plain("bool")}, result : MCType]
  \cup [name : {<<"*">>}, param : {Plain("string")}, result : {List("int")}]
  \cup [name : {<<"C3", "A9">>}, param : {Plain("bool")},
         result : {Plain("bool")}]

MCNumeral(n) == ToString(n)

MCByte == {"a", "t", "f", "g", "*", "\"", "C3", "A9"}

MCStrSample == BoundedSeq({"a", "\""}, 2)

(* The greatest int is also the first number that is no digit.             *)
MCIntSample == {-HalfLong, -HalfInt, 0, HalfInt - 1, 2 * HalfInt - 1,
             HalfLong - 1, HalfLong, 2 * HalfLong - 1}

MCMethod == {<<"f">>, <<"g">>, <<"C3", "A9">>, <<"C3", "A9", "\"", "t">>}

MCExtra == {[type |-> Plain("int"), v |-> -1]}
=============================================================================
