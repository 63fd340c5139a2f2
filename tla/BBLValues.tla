------------------------------ MODULE BBLValues ------------------------------
(***************************************************************************)
(* The run-time values of the BBVM (runtime/vm/bbvm.py) and the Python      *)
(* operators the machine applies to them.  A value is a tagged pair, so     *)
(* that values of different Python types can be compared.  A text is the    *)
(* sequence of the pieces it was concatenated from: a literal of the        *)
(* program, or the value str() was applied to.  Two texts are equal when    *)
(* they have the same pieces; the alphabetic order of two different texts   *)
(* is left open.                                                            *)
(***************************************************************************)
EXTENDS Integers, Sequences

None    == <<"none", 0>>
Num(n)  == <<"int", n>>
Bool(b) == <<"bool", IF b THEN 1 ELSE 0>>
Obj(i)  == <<"obj", i>>
Str(s)  == <<"str", IF s = "" THEN <<>> ELSE <<<<"lit", s>>>>>>

Scalar == ({"none"} \X {0}) \cup ({"int"} \X Int) \cup ({"bool"} \X {0, 1})
            \cup ({"obj"} \X (Nat \ {0}))
Piece  == Scalar \cup ({"lit"} \X STRING)
Value  == Scalar \cup ({"str"} \X Seq(Piece))

IsNum(v) == v[1] \in {"int", "bool"}
IsStr(v) == v[1] = "str"
IsObj(v) == v[1] = "obj"

(* `if not cond`: None, 0, False and the empty text are false.              *)
Truthy(v) == \/ IsNum(v) /\ v[2] # 0
             \/ IsStr(v) /\ v[2] # <<>>
             \/ IsObj(v)

(* str(v).                                                                  *)
Text(v) == IF IsStr(v) THEN v[2] ELSE <<v>>

(* s * n on a Python string: n copies, none for a negative n.               *)
Copies(s, n) == IF n <= 0 \/ s = <<>> THEN <<>>
                ELSE [i \in 1 .. Len(s) * n |-> s[((i - 1) % Len(s)) + 1]]

(* a // b rounds towards minus infinity.                                    *)
FloorDiv(a, b) == IF b > 0 THEN a \div b ELSE (-a) \div (-b)

ArithmeticOps == {"BINARY_ADD", "BINARY_SUB", "BINARY_MUL", "BINARY_DIV"}

(* The exception `a op b` raises, "none" when it has a value.               *)
ArithmeticFault(op, a, b) ==
  IF op = "BINARY_ADD" /\ (IsStr(a) \/ IsStr(b)) THEN "none"
  ELSE IF op = "BINARY_MUL" /\ ((IsStr(a) /\ IsNum(b)) \/ (IsNum(a) /\ IsStr(b))) THEN "none"
  ELSE IF ~ (IsNum(a) /\ IsNum(b)) THEN "type_error"
  ELSE IF op = "BINARY_DIV" /\ b[2] = 0 THEN "zero_division"
  ELSE "none"

Arithmetic(op, a, b) ==
  IF op = "BINARY_ADD" /\ (IsStr(a) \/ IsStr(b)) THEN <<"str", Text(a) \o Text(b)>>
  ELSE IF op = "BINARY_MUL" /\ IsStr(a) THEN <<"str", Copies(a[2], b[2])>>
  ELSE IF op = "BINARY_MUL" /\ IsStr(b) THEN <<"str", Copies(b[2], a[2])>>
  ELSE IF op = "BINARY_ADD" THEN Num(a[2] + b[2])
  ELSE IF op = "BINARY_SUB" THEN Num(a[2] - b[2])
  ELSE IF op = "BINARY_MUL" THEN Num(a[2] * b[2])
  ELSE Num(FloorDiv(a[2], b[2]))

(* a == b: True equals 1, an object equals only itself.                     *)
SameValue(a, b) == IF IsNum(a) /\ IsNum(b) THEN a[2] = b[2] ELSE a = b

CompareFault(op, a, b) ==
  IF op \in {"==", "!="} \/ (IsNum(a) /\ IsNum(b)) \/ (IsStr(a) /\ IsStr(b))
  THEN "none" ELSE "type_error"

(* The values `a op b` may have.                                            *)
Compare(op, a, b) ==
  IF op = "==" THEN {Bool(SameValue(a, b))}
  ELSE IF op = "!=" THEN {Bool(~ SameValue(a, b))}
  ELSE IF IsStr(a) THEN IF a = b THEN {Bool(op \in {"<=", ">="})} ELSE {Bool(TRUE), Bool(FALSE)}
  ELSE IF op = "<" THEN {Bool(a[2] < b[2])}
  ELSE IF op = ">" THEN {Bool(a[2] > b[2])}
  ELSE IF op = "<=" THEN {Bool(a[2] <= b[2])}
  ELSE {Bool(a[2] >= b[2])}
=============================================================================
