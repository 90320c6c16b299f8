SPECIFICATION Spec
CONSTANTS
  HalfInt = 8
  HalfLong = 16
  MaxDigit = 6
  Numeral <- MCNumeral
  Byte <- MCByte
  IntSample <- MCIntSample
  StrSample <- MCStrSample
  MaxList = 2
  Function <- MCFunction
  Method <- MCMethod
  Type <- MCType
  Extra <- MCExtra
  MaxExtra = 1
INVARIANTS
  TypeOK
  Transparent
  ErrorsTold
  ListTold
