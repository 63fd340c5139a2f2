----------------------------- MODULE VMCompiler -----------------------------
(***************************************************************************)
(* BBLVMCompiler of compiler/vm_compiler.py: from the syntax tree of a      *)
(* program (compiler/ast.py) to the image BBVM runs.  The Python visitor    *)
(* appends to one instruction list and patches jump targets afterwards;     *)
(* here a visit returns the code of a node, given `base`, the index its     *)
(* first instruction gets, and `fields`, current_contract_fields.           *)
(*                                                                          *)
(* A node is a record with the fields of its class and its kind; a          *)
(* statement list stands for a Block, and an optional child is a sequence   *)
(* of at most one element.                                                  *)
(***************************************************************************)
EXTENDS BBLValues, SequencesExt

Emit(op)         == [op |-> op, arg |-> "", n |-> 0]
EmitArg(op, arg) == [op |-> op, arg |-> arg, n |-> 0]
EmitN(op, n)     == [op |-> op, arg |-> "", n |-> n]
EmitConst(v)     == EmitArg("LOAD_CONST", v)

visit_identifier(x, fields) ==
  IF x \in fields THEN <<EmitArg("LOAD_FAST", "self"), EmitArg("LOAD_ATTR", x)>>
  ELSE <<EmitArg("LOAD_FAST", x)>>

BinaryInstr(op) ==
  CASE op = "+" -> Emit("BINARY_ADD")
    [] op = "-" -> Emit("BINARY_SUB")
    [] op = "*" -> Emit("BINARY_MUL")
    [] op = "/" -> Emit("BINARY_DIV")
    [] OTHER    -> EmitArg("COMPARE_OP", op)

UnaryCode(op) ==
  IF op = "-" THEN <<EmitConst(Num(-1)), Emit("BINARY_MUL")>>
  ELSE <<EmitConst(Bool(FALSE)), EmitArg("COMPARE_OP", "==")>>

(* What an expression visits before it emits: its operands in order, the    *)
(* arguments of a call before its object.                                   *)
Operands(e) ==
  CASE e.kind = "MemberExpr" -> <<e.obj>>
    [] e.kind = "BinaryExpr" -> <<e.left, e.right>>
    [] e.kind = "UnaryExpr"  -> <<e.operand>>
    [] e.kind = "CallExpr"   -> e.arguments \o
         (IF e.callee.kind = "MemberExpr" THEN <<e.callee.obj>>
          ELSE IF e.callee.kind = "Identifier" THEN <<>> ELSE <<e.callee>>)
    [] OTHER                 -> <<>>

visit_call_expr(e) ==
  LET n == Len(e.arguments) IN
  CASE e.callee.kind = "Identifier" /\ e.callee.name = "ipakita" -> <<EmitN("PRINT", n)>>
    [] e.callee.kind = "MemberExpr" ->
         <<[op |-> "CALL_METHOD", arg |-> e.callee.member, n |-> n]>>
    [] e.callee.kind = "Identifier" ->
         <<EmitArg("LOAD_GLOBAL", e.callee.name), EmitN("CALL_FUNCTION", n)>>
    [] OTHER -> <<EmitN("CALL_FUNCTION", n)>>

(* What it emits after them.                                                *)
Emitted(e, fields) ==
  CASE e.kind = "Literal"    -> <<EmitConst(e.value)>>
    [] e.kind = "Identifier" -> visit_identifier(e.name, fields)
    [] e.kind = "MemberExpr" -> <<EmitArg("LOAD_ATTR", e.member)>>
    [] e.kind = "BinaryExpr" -> <<BinaryInstr(e.operator)>>
    [] e.kind = "UnaryExpr"  -> UnaryCode(e.operator)
    [] e.kind = "CallExpr"   -> visit_call_expr(e)

RECURSIVE visit_expr(_, _)

(* An assignment leaves no value, although the grammar has it where an      *)
(* expression is.                                                           *)
visit_assign_stmt(s, fields) ==
  visit_expr(s.value, fields) \o
    CASE s.target.kind = "MemberExpr" ->
           Append(visit_expr(s.target.obj, fields), EmitArg("STORE_ATTR", s.target.member))
      [] s.target.kind = "Identifier" /\ s.target.name \in fields ->
           <<EmitArg("LOAD_FAST", "self"), EmitArg("STORE_ATTR", s.target.name)>>
      [] OTHER -> <<EmitArg("STORE_FAST", s.target.name)>>

visit_expr(e, fields) ==
  IF e.kind = "AssignStmt" THEN visit_assign_stmt(e, fields)
  ELSE FlattenSeq([i \in DOMAIN Operands(e) |-> visit_expr(Operands(e)[i], fields)])
         \o Emitted(e, fields)

visit_var_decl(s, fields) ==
  Append(IF s.initializer = <<>> THEN <<EmitConst(None)>> ELSE visit_expr(s.initializer[1], fields),
         EmitArg("STORE_FAST", s.name))

visit_return_stmt(s, fields) ==
  Append(IF s.expression = <<>> THEN <<EmitConst(None)>> ELSE visit_expr(s.expression[1], fields),
         Emit("RETURN_VALUE"))

RECURSIVE visit_block(_, _, _)

(* Mutant: a false condition jumps to the JUMP over the else branch.        *)
VisitIfOffByOne(s, base, fields) ==
  LET cond   == visit_expr(s.condition, fields)
      thenAt == base + Len(cond) + 1
      then   == visit_block(s.then_branch, thenAt, fields)
      elseAt == thenAt + Len(then) + 1
      else   == visit_block(s.else_branch[1], elseAt, fields)
  IN IF s.else_branch = <<>>
     THEN Append(cond, EmitN("JUMP_IF_FALSE", thenAt + Len(then))) \o then
     ELSE Append(cond, EmitN("JUMP_IF_FALSE", elseAt - 1)) \o then
            \o <<EmitN("JUMP", elseAt + Len(else))>> \o else

visit_if_stmt(s, base, fields) ==
  LET cond   == visit_expr(s.condition, fields)
      thenAt == base + Len(cond) + 1
      then   == visit_block(s.then_branch, thenAt, fields)
      elseAt == thenAt + Len(then) + 1
      else   == visit_block(s.else_branch[1], elseAt, fields)
  IN IF s.else_branch = <<>>
     THEN Append(cond, EmitN("JUMP_IF_FALSE", thenAt + Len(then))) \o then
     ELSE Append(cond, EmitN("JUMP_IF_FALSE", elseAt)) \o then
            \o <<EmitN("JUMP", elseAt + Len(else))>> \o else

visit_while_stmt(s, base, fields) ==
  LET cond   == visit_expr(s.condition, fields)
      bodyAt == base + Len(cond) + 1
      body   == visit_block(s.body, bodyAt, fields)
  IN Append(cond, EmitN("JUMP_IF_FALSE", bodyAt + Len(body) + 1)) \o body \o <<EmitN("JUMP", base)>>

(* A function or contract declared inside a block compiles to nothing, and  *)
(* the value of an expression statement stays on the stack.                 *)
visit_stmt(s, base, fields) ==
  CASE s.kind = "VarDecl"    -> visit_var_decl(s, fields)
    [] s.kind = "IfStmt"     -> visit_if_stmt(s, base, fields)
    [] s.kind = "WhileStmt"  -> visit_while_stmt(s, base, fields)
    [] s.kind = "ReturnStmt" -> visit_return_stmt(s, fields)
    [] s.kind = "ExprStmt"   -> visit_expr(s.expression, fields)
    [] s.kind = "Block"      -> visit_block(s.statements, base, fields)
    [] OTHER                 -> <<>>

visit_block(stmts, base, fields) ==
  FoldLeft(LAMBDA code, s : code \o visit_stmt(s, base + Len(code), fields), <<>>, stmts)

(* Mutant: no return is emitted at the end of a function.                   *)
CompileNoReturn(f, fields) == visit_block(f.body, 0, fields)

compile_function(f, fields) ==
  LET code == visit_block(f.body, 0, fields)
  IN IF code = <<>> \/ Last(code).op # "RETURN_VALUE"
     THEN code \o <<EmitConst(None), Emit("RETURN_VALUE")>>
     ELSE code

-----------------------------------------------------------------------------
(* The declarations of a kind; the last one of a name counts.               *)

OfKind(decls, kind)    == SelectSeq(decls, LAMBDA d : d.kind = kind)
NamesOf(decls, kind)   == {decls[i].name : i \in {j \in DOMAIN decls : decls[j].kind = kind}}
Named(decls, kind, x)  == Last(SelectSeq(OfKind(decls, kind), LAMBDA d : d.name = x))

(* Only a literal initializer of a field survives.                          *)
FieldDefault(field) ==
  IF field.initializer # <<>> /\ field.initializer[1].kind = "Literal"
  THEN field.initializer[1].value ELSE None

compile(program) ==
  LET functions    == NamesOf(program, "FuncDecl")
      contracts    == NamesOf(program, "ContractDecl")
      Members(c)   == Named(program, "ContractDecl", c).members
      FieldsOf(c)  == NamesOf(Members(c), "VarDecl")
      MethodsOf(c) == NamesOf(Members(c), "FuncDecl")
      units        == {<<"main", "", "">>} \cup {<<"function", "", f>> : f \in functions}
                        \cup UNION {{<<"method", c, m>> : m \in MethodsOf(c)} : c \in contracts}
      Decl(u)      == IF u[1] = "function" THEN Named(program, "FuncDecl", u[3])
                      ELSE Named(Members(u[2]), "FuncDecl", u[3])
  IN [functions |-> functions,
      contracts |-> contracts,
      fields    |-> [c \in contracts |->
                       [x \in FieldsOf(c) |-> FieldDefault(Named(Members(c), "VarDecl", x))]],
      methods   |-> [c \in contracts |-> MethodsOf(c)],
      params    |-> [u \in units |-> IF u[1] = "main" THEN <<>> ELSE Decl(u).params],
      code      |-> [u \in units |->
                       CASE u[1] = "main"     -> Append(visit_block(program, 0, {}), Emit("HALT"))
                         [] u[1] = "function" -> compile_function(Decl(u), {})
                         [] OTHER             -> compile_function(Decl(u), FieldsOf(u[2]))]]
=============================================================================
