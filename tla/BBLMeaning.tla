----------------------------- MODULE BBLMeaning -----------------------------
(***************************************************************************)
(* What a BBL program means, read from its syntax tree alone: a big-step    *)
(* evaluator with the block scopes and the name resolution of               *)
(* SemanticAnalyzer (compiler/semantic.py).  It has no instruction, jump or *)
(* operand stack.  It is the reference the compiled code is checked         *)
(* against; an erroneous program (a type error, a missing argument) has no  *)
(* meaning here.                                                            *)
(*                                                                          *)
(* A state has the scopes in force, the global scope first; the object the  *)
(* running method belongs to, if any; the objects; the printed lines.       *)
(***************************************************************************)
EXTENDS VMCompiler

Start == [scopes |-> <<<<>>>>, self |-> <<>>, heap |-> <<>>, out |-> <<>>]

(* A scope is a sequence of name-value pairs, the latest declaration last.  *)
Declares(scope, x) == \E i \in DOMAIN scope : scope[i][1] = x
ValueIn(scope, x)  == scope[CHOOSE i \in DOMAIN scope : scope[i][1] = x][2]
Assign(scope, x, v) == [i \in DOMAIN scope |-> IF scope[i][1] = x THEN <<x, v>> ELSE scope[i]]

IsField(s, x) == s.self # <<>> /\ x \in DOMAIN s.heap[s.self[1]].fields

(* lookup: the innermost local scope, then the contract's fields, then the  *)
(* global scope; 0 stands for the fields.                                   *)
ScopeOf(s, x) ==
  LET local == {i \in 2 .. Len(s.scopes) : Declares(s.scopes[i], x)}
  IN IF local # {} THEN CHOOSE i \in local : \A j \in local : j <= i
     ELSE IF IsField(s, x) THEN 0 ELSE 1

Lookup(s, x) ==
  IF ScopeOf(s, x) = 0 THEN s.heap[s.self[1]].fields[x] ELSE ValueIn(s.scopes[ScopeOf(s, x)], x)

SetField(s, i, x, v) ==
  [s EXCEPT !.heap[i].fields = [y \in DOMAIN @ \cup {x} |-> IF y = x THEN v ELSE @[y]]]

AssignName(s, x, v) ==
  IF ScopeOf(s, x) = 0 THEN SetField(s, s.self[1], x, v)
  ELSE [s EXCEPT !.scopes[ScopeOf(s, x)] = Assign(@, x, v)]

Declare(s, x, v) == [s EXCEPT !.scopes[Len(s.scopes)] = Append(@, <<x, v>>)]

-----------------------------------------------------------------------------
(* A value or values, and the state after them.                             *)
Res(v, s) == [val |-> v, st |-> s]

(* The expressions inside an expression, or in a statement before its       *)
(* blocks, in the order they are evaluated: an object after the arguments   *)
(* or the value for it.                                                     *)
Parts(e) ==
  CASE e.kind = "MemberExpr" -> <<e.obj>>
    [] e.kind = "BinaryExpr" -> <<e.left, e.right>>
    [] e.kind = "UnaryExpr"  -> <<e.operand>>
    [] e.kind = "CallExpr"   ->
         e.arguments \o IF e.callee.kind = "MemberExpr" THEN <<e.callee.obj>> ELSE <<>>
    [] e.kind = "VarDecl"    -> e.initializer
    [] e.kind = "AssignStmt" ->
         <<e.value>> \o IF e.target.kind = "MemberExpr" THEN <<e.target.obj>> ELSE <<>>
    [] e.kind \in {"IfStmt", "WhileStmt"} -> <<e.condition>>
    [] e.kind = "ReturnStmt" -> e.expression
    [] e.kind = "ExprStmt"   -> <<e.expression>>
    [] OTHER                 -> <<>>

ArithmeticOf(op) == CASE op = "+" -> "BINARY_ADD" [] op = "-" -> "BINARY_SUB"
                      [] op = "*" -> "BINARY_MUL" [] op = "/" -> "BINARY_DIV"

EvalBinary(op, a, b) == IF op \in {"+", "-", "*", "/"} THEN Arithmetic(ArithmeticOf(op), a, b)
                        ELSE CHOOSE v \in Compare(op, a, b) : TRUE

(* The value of an expression that is no call, from those of its operands.  *)
Simple(e, vals, s) ==
  CASE e.kind = "Literal"    -> e.value
    [] e.kind = "Identifier" -> Lookup(s, e.name)
    [] e.kind = "MemberExpr" -> s.heap[vals[1][2]].fields[e.member]
    [] e.kind = "BinaryExpr" -> EvalBinary(e.operator, vals[1], vals[2])
    [] e.kind = "UnaryExpr"  -> IF e.operator = "-" THEN Num(- vals[1][2]) ELSE Bool(~ Truthy(vals[1]))

(* What a call runs: the declaration, if any; its object, if any; the state *)
(* it starts in; and the value of the call where that is not what the       *)
(* declaration returns.                                                     *)
Callee(decl, self, s, val) == [decl |-> decl, self |-> self, st |-> s, val |-> val]

MembersOf(p, c) == Named(p, "ContractDecl", c).members

CalleeMethod(p, e, o, s) ==
  Callee(<<Named(MembersOf(p, s.heap[o].class_name), "FuncDecl", e.callee.member)>>, <<o>>, s, <<>>)

CalleeContract(p, c, s) ==
  LET members == MembersOf(p, c)
      i    == Len(s.heap) + 1
      new  == [s EXCEPT !.heap = Append(@, [class_name |-> c, fields |->
                [x \in NamesOf(members, "VarDecl") |-> FieldDefault(Named(members, "VarDecl", x))]])]
      ctor == IF "simulan" \in NamesOf(members, "FuncDecl")
              THEN <<Named(members, "FuncDecl", "simulan")>> ELSE <<>>
  IN Callee(ctor, <<i>>, new, <<Obj(i)>>)

CalleeOf(p, e, vals, s) ==
  CASE e.callee.kind = "MemberExpr" -> CalleeMethod(p, e, Last(vals)[2], s)
    [] e.callee.name = "ipakita"    -> Callee(<<>>, <<>>, [s EXCEPT !.out = Append(@, vals)], <<None>>)
    [] e.callee.name \in NamesOf(p, "ContractDecl") -> CalleeContract(p, e.callee.name, s)
    [] OTHER -> Callee(<<Named(p, "FuncDecl", e.callee.name)>>, <<>>, s, <<>>)

-----------------------------------------------------------------------------
(* Statements: the value returned, if any, and the state.                   *)
Done(ret, s) == [ret |-> ret, st |-> s]

(* A statement without blocks, from the values of its operands.             *)
Effect(t, vals, s) ==
  CASE t.kind = "VarDecl"    -> Declare(s, t.name, IF vals = <<>> THEN None ELSE vals[1])
    [] t.kind = "AssignStmt" -> IF t.target.kind = "Identifier" THEN AssignName(s, t.target.name, vals[1])
                                ELSE SetField(s, vals[2][2], t.target.member, vals[1])
    [] OTHER                 -> s

Returns(t, vals) ==
  IF t.kind # "ReturnStmt" THEN <<>> ELSE IF vals = <<>> THEN <<None>> ELSE vals

(* The block a statement goes on to, if any.                                *)
Chosen(t, vals) ==
  CASE t.kind = "IfStmt"    -> IF Truthy(vals[1]) THEN <<t.then_branch>> ELSE t.else_branch
    [] t.kind = "WhileStmt" -> IF Truthy(vals[1]) THEN <<t.body>> ELSE <<>>
    [] t.kind = "Block"     -> <<t.statements>>
    [] OTHER                -> <<>>

RECURSIVE EvalAll(_, _, _), ExecAll(_, _, _)

(* The body of a callee runs with the global scope and its parameters; None *)
(* is its value when it does not return one.                                *)
Body(f, c, args) ==
  [c.st EXCEPT !.scopes = <<c.st.scopes[1], [i \in 1 .. Len(f.params) |-> <<f.params[i], args[i]>>],
                            <<>>>>,
               !.self = c.self]

Leave(c, r) ==
  Res(IF c.val # <<>> THEN c.val[1] ELSE IF r.ret = <<>> THEN None ELSE r.ret[1],
      [r.st EXCEPT !.scopes = [c.st.scopes EXCEPT ![1] = r.st.scopes[1]]])

Invoke(p, c, args) ==
  IF c.decl = <<>> THEN Res(c.val[1], c.st)
  ELSE Leave(c, ExecAll(p, c.decl[1].body, Body(c.decl[1], c, args)))

(* The caller's self comes back with the call.                              *)
ValueOf(p, e, a) ==
  IF e.kind # "CallExpr" THEN Res(Simple(e, a.val, a.st), a.st)
  ELSE LET r == Invoke(p, CalleeOf(p, e, a.val, a.st), a.val)
       IN [r EXCEPT !.st.self = a.st.self]

Eval(p, e, s) == ValueOf(p, e, EvalAll(p, Parts(e), s))

EvalRest(p, es, first) ==
  LET rest == EvalAll(p, es, first.st) IN Res(<<first.val>> \o rest.val, rest.st)

EvalAll(p, es, s) ==
  IF es = <<>> THEN Res(<<>>, s) ELSE EvalRest(p, Tail(es), Eval(p, Head(es), s))

(* A block leaves its scope; a loop starts again unless the block returned. *)
AfterBlock(p, rest, t, s, r) ==
  LET out == [r.st EXCEPT !.scopes = SubSeq(@, 1, Len(s.scopes))]
  IN IF r.ret # <<>> THEN Done(r.ret, out)
     ELSE ExecAll(p, IF t.kind = "WhileStmt" THEN <<t>> \o rest ELSE rest, out)

ExecRest(p, rest, t, a) ==
  LET block == Chosen(t, a.val)
      s     == Effect(t, a.val, a.st)
  IN IF Returns(t, a.val) # <<>> THEN Done(Returns(t, a.val), s)
     ELSE IF block = <<>> THEN ExecAll(p, rest, s)
     ELSE AfterBlock(p, rest, t, s, ExecAll(p, block[1], [s EXCEPT !.scopes = Append(@, <<>>)]))

(* An assignment is an expression of the grammar that stands as a statement. *)
Plain(t) == IF t.kind = "ExprStmt" /\ t.expression.kind = "AssignStmt" THEN t.expression ELSE t

ExecAll(p, stmts, s) ==
  IF stmts = <<>> THEN Done(<<>>, s)
  ELSE ExecRest(p, Tail(stmts), Plain(Head(stmts)), EvalAll(p, Parts(Plain(Head(stmts))), s))

(* The lines a program prints.                                              *)
Prints(p) == ExecAll(p, p, Start).st.out
=============================================================================
