-------------------------- MODULE BBLValues_proofs --------------------------
(* The operators of BBLValues stay within the values, and make no objects.  *)
EXTENDS BBLValues, TLAPS

Plain(v) == v \in Value /\ ~ IsObj(v)

(* Constants of the machine are plain values.                               *)
LEMMA PlainValues ==
  /\ Plain(None)
  /\ \A n \in Int : Plain(Num(n))
  /\ \A b \in BOOLEAN : Plain(Bool(b))
  /\ \A s \in STRING : Plain(Str(s))
<1>1. Plain(None) /\ \A n \in Int : Plain(Num(n))
  BY DEF Plain, Value, Scalar, IsObj, None, Num
<1>2. \A b \in BOOLEAN : Plain(Bool(b))
  BY DEF Plain, Value, Scalar, IsObj, Bool
<1>3. ASSUME NEW s \in STRING PROVE Plain(Str(s))
  <2>1. <<"lit", s>> \in Piece
    BY DEF Piece
  <2>2. <<<<"lit", s>>>> \in Seq(Piece) /\ <<>> \in Seq(Piece)
    BY <2>1
  <2> QED
    BY <2>2 DEF Plain, Value, IsObj, Str
<1> QED
  BY <1>1, <1>2, <1>3

(* Text(v) is a sequence of pieces.                                         *)
LEMMA TextType == ASSUME NEW v \in Value PROVE Text(v) \in Seq(Piece)
<1>1. CASE v[1] = "str"
  BY <1>1 DEF Value, Scalar, Text, IsStr
<1>2. CASE v[1] # "str"
  <2>1. v \in Piece
    BY <1>2 DEF Value, Piece
  <2> QED
    BY <1>2, <2>1 DEF Text, IsStr
<1> QED
  BY <1>1, <1>2

(* A number's payload is an integer, a text's a sequence of pieces.         *)
LEMMA Payload ==
  ASSUME NEW v \in Value
  PROVE  /\ IsNum(v) => v[2] \in Int
         /\ IsStr(v) => v[2] \in Seq(Piece)
         /\ IsObj(v) => v[2] \in Nat \ {0}
  BY DEF Value, Scalar, IsNum, IsStr, IsObj

LEMMA CopiesType ==
  ASSUME NEW s \in Seq(Piece), NEW n \in Int
  PROVE  Copies(s, n) \in Seq(Piece)
<1>1. CASE n <= 0 \/ s = <<>>
  BY <1>1 DEF Copies
<1>2. CASE ~ (n <= 0 \/ s = <<>>)
  <2>1. Len(s) \in Nat /\ Len(s) > 0 /\ n > 0
    BY <1>2
  <2>2. Len(s) * n \in Nat
    BY <2>1
  <2>3. ASSUME NEW i \in 1 .. Len(s) * n PROVE s[((i - 1) % Len(s)) + 1] \in Piece
    <3>1. (i - 1) % Len(s) \in 0 .. Len(s) - 1
      BY <2>1, <2>2
    <3> QED
      BY <2>1, <3>1
  <2> QED
    BY <1>2, <2>2, <2>3 DEF Copies
<1> QED
  BY <1>1, <1>2

LEMMA FloorDivType ==
  ASSUME NEW a \in Int, NEW b \in Int, b # 0
  PROVE  FloorDiv(a, b) \in Int
  BY DEF FloorDiv

(* a op b, when it raises nothing, is a value and no object.                *)
LEMMA ArithmeticType ==
  ASSUME NEW op \in ArithmeticOps, NEW a \in Value, NEW b \in Value,
         ArithmeticFault(op, a, b) = "none"
  PROVE  Plain(Arithmetic(op, a, b))
<1> DEFINE Txt(t) == <<"str", t>>
<1>1. \A t \in Seq(Piece) : Plain(Txt(t))
  BY DEF Plain, Value, IsObj
<1>2. CASE op = "BINARY_ADD" /\ (IsStr(a) \/ IsStr(b))
  <2>1. Text(a) \o Text(b) \in Seq(Piece)
    BY TextType
  <2>2. Arithmetic(op, a, b) = Txt(Text(a) \o Text(b))
    BY <1>2 DEF Arithmetic
  <2> QED
    BY <1>1, <2>1, <2>2
<1>3. CASE op = "BINARY_MUL" /\ IsStr(a)
  <2>1. IsNum(b)
    BY <1>3 DEF ArithmeticFault, IsNum, IsStr
  <2>2. Copies(a[2], b[2]) \in Seq(Piece)
    BY <1>3, <2>1, Payload, CopiesType
  <2>3. Arithmetic(op, a, b) = Txt(Copies(a[2], b[2]))
    BY <1>3 DEF Arithmetic
  <2> QED
    BY <1>1, <2>2, <2>3
<1>4. CASE op = "BINARY_MUL" /\ ~ IsStr(a) /\ IsStr(b)
  <2>1. IsNum(a)
    BY <1>4 DEF ArithmeticFault, IsNum, IsStr
  <2>2. Copies(b[2], a[2]) \in Seq(Piece)
    BY <1>4, <2>1, Payload, CopiesType
  <2>3. Arithmetic(op, a, b) = Txt(Copies(b[2], a[2]))
    BY <1>4 DEF Arithmetic
  <2> QED
    BY <1>1, <2>2, <2>3
<1>5. CASE IsNum(a) /\ IsNum(b)
  <2>1. a[2] \in Int /\ b[2] \in Int /\ ~ IsStr(a) /\ ~ IsStr(b)
    BY <1>5, Payload DEF IsNum, IsStr
  <2>2. op = "BINARY_DIV" => FloorDiv(a[2], b[2]) \in Int
    BY <1>5, <2>1, FloorDivType DEF ArithmeticFault
  <2>3. \E n \in Int : Arithmetic(op, a, b) = Num(n)
    BY <2>1, <2>2 DEF Arithmetic, ArithmeticOps
  <2> QED
    BY <2>3, PlainValues
<1>6. (IsNum(a) /\ IsNum(b)) \/ (op = "BINARY_ADD" /\ (IsStr(a) \/ IsStr(b)))
        \/ (op = "BINARY_MUL" /\ (IsStr(a) \/ IsStr(b)))
  BY DEF ArithmeticFault
<1> QED
  BY <1>2, <1>3, <1>4, <1>5, <1>6

(* A comparison gives a truth value.                                        *)
LEMMA CompareType ==
  ASSUME NEW op, NEW a, NEW b, NEW v \in Compare(op, a, b)
  PROVE  Plain(v)
<1>1. \E c \in BOOLEAN : v = Bool(c)
  BY DEF Compare, Bool
<1> QED
  BY <1>1, PlainValues
=============================================================================
