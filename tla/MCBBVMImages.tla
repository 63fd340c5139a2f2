---------------------------- MODULE MCBBVMImages ----------------------------
(***************************************************************************)
(* BBVM on bytecode files: every main program of four instructions out of   *)
(* seventeen whose first pushes a value, with or without a HALT after them, *)
(* with a function that always returns or one that may run off its end, and *)
(* with a contract.                                                         *)
(***************************************************************************)
EXTENDS StackHeights, TLC

I(op, arg, n) == [op |-> op, arg |-> arg, n |-> n]
Const(n)      == I("LOAD_CONST", Num(n), 0)
Plain(op)     == I(op, "", 0)

Instructions == <<
  Const(1), I("LOAD_GLOBAL", "f", 0), I("LOAD_GLOBAL", "C", 0), I("LOAD_FAST", "x", 0),
  I("CALL_FUNCTION", "", 0), I("CALL_FUNCTION", "", 1), I("CALL_METHOD", "m", 0),
  I("CALL_METHOD", "g", 0), I("STORE_GLOBAL", "f", 0), I("STORE_FAST", "x", 0),
  I("LOAD_GLOBAL", "g", 0), Plain("BINARY_DIV"), I("JUMP_IF_FALSE", "", 2),
  I("LOAD_ATTR", "n", 0), I("STORE_ATTR", "n", 0), Plain("RETURN_VALUE"), I("PRINT", "", 1)>>

Choice == 1 .. Len(Instructions)

(* The variants: the function may run off its end; the main program has no  *)
(* HALT and the function has a parameter.                                   *)
Variants == {"plain", "runs_off", "no_halt"}

(* The second one is `kung (mali) { ibalik 1 }`: its branch jumps past the  *)
(* last RETURN_VALUE.                                                       *)
FunctionCode(k) ==
  IF k # "runs_off" THEN <<Const(1), Plain("RETURN_VALUE")>>
  ELSE <<I("LOAD_CONST", Bool(FALSE), 0), I("JUMP_IF_FALSE", "", 4), Const(1), Plain("RETURN_VALUE")>>

(* simulan stores 0 in the field n, m returns the object itself.            *)
MethodCode(m) ==
  IF m = "simulan"
  THEN <<Const(0), I("LOAD_FAST", "self", 0), I("STORE_ATTR", "n", 0),
         I("LOAD_CONST", None, 0), Plain("RETURN_VALUE")>>
  ELSE <<I("LOAD_FAST", "self", 0), Plain("RETURN_VALUE")>>

Programs == Variants \X (1 .. 4) \X Choice \X Choice \X Choice

MainCode(p) == [i \in 1 .. 4 |-> Instructions[p[i + 1]]]
                 \o (IF p[1] = "no_halt" THEN <<>> ELSE <<Plain("HALT")>>)

BytecodeOf(p) ==
  LET units   == {Main, Function("f"), Method("C", "simulan"), Method("C", "m")}
      code(u) == CASE u[1] = "main"     -> MainCode(p)
                   [] u[1] = "function" -> FunctionCode(p[1])
                   [] OTHER             -> MethodCode(u[3])
  IN [functions |-> {"f"},
      contracts |-> {"C"},
      fields    |-> [c \in {"C"} |-> [x \in {"n"} |-> Num(7)]],
      methods   |-> [c \in {"C"} |-> {"simulan", "m"}],
      params    |-> [u \in units |-> IF u[1] = "function" /\ p[1] = "no_halt" THEN <<"x">> ELSE <<>>],
      code      |-> [u \in units |-> code(u)],
      height    |-> [u \in units |-> Heights(code(u))]]

MCName  == {"self", "x", "n", "f", "g", "C", "m", "simulan"}
MCImage == [p \in Programs |-> BytecodeOf(p)]
=============================================================================
