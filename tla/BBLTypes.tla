------------------------------ MODULE BBLTypes ------------------------------
(***************************************************************************)
(* SemanticAnalyzer of compiler/semantic.py: which programs are accepted.   *)
(* The first SemanticError rejects a program, so an expression that has one *)
(* has the type "error" here, and a statement leaves no scopes.             *)
(*                                                                          *)
(* The context has the scopes, the innermost last: functions from names to  *)
(* symbols; the contracts; the contract and the function the analyzer is    *)
(* in, <<>> for none.                                                       *)
(***************************************************************************)
EXTENDS BBLSyntax, SequencesExt

Or(optional, default) == IF optional = <<>> THEN default ELSE optional[1]
Symbol(type, kind, params) == [type |-> type, kind |-> kind, params |-> params]

IndicesOf(decls, kind) == {i \in DOMAIN decls : decls[i].kind = kind}
LastNamed(decls, kind, x) ==
  decls[CHOOSE i \in IndicesOf(decls, kind) :
          decls[i].name = x /\ \A j \in IndicesOf(decls, kind) : decls[j].name = x => j <= i]
NamesIn(decls, kind) == {decls[i].name : i \in IndicesOf(decls, kind)}

Signature(f) == Symbol(Or(f.return_type, "wala"), "func", f.types)

(* pre_pass: the initializers of fields are not looked at.                  *)
ContractMeta(c) ==
  [fields  |-> [x \in NamesIn(c.members, "VarDecl") |->
                  Or(LastNamed(c.members, "VarDecl", x).type_ann, "any")],
   methods |-> [m \in NamesIn(c.members, "FuncDecl") |->
                  [Signature(LastNamed(c.members, "FuncDecl", m)) EXCEPT !.kind = "method"]]]
pre_pass(program) ==
  [c \in NamesIn(program, "ContractDecl") |-> ContractMeta(LastNamed(program, "ContractDecl", c))]

Nobody == <<>>
Failed(ctx) == ctx.scopes = <<>>
Fail(ctx) == [ctx EXCEPT !.scopes = <<>>]
enter_scope(ctx) == [ctx EXCEPT !.scopes = Append(@, <<>>)]

declare(ctx, x, symbol) ==
  IF Failed(ctx) \/ x \in DOMAIN Last(ctx.scopes) THEN Fail(ctx)
  ELSE [ctx EXCEPT !.scopes[Len(ctx.scopes)] =
          [y \in DOMAIN @ \cup {x} |-> IF y = x THEN symbol ELSE @[y]]]

(* The innermost scope, the members of the contract, the contracts.         *)
lookup(ctx, x) ==
  LET found   == {i \in DOMAIN ctx.scopes : x \in DOMAIN ctx.scopes[i]}
      members == IF ctx.contract = Nobody THEN {} ELSE DOMAIN ctx.contracts[ctx.contract[1]].methods
  IN CASE found # {} -> ctx.scopes[CHOOSE i \in found : \A j \in found : j <= i][x]
       [] found = {} /\ x \in members -> ctx.contracts[ctx.contract[1]].methods[x]
       [] found = {} /\ x \notin members /\ x \in DOMAIN ctx.contracts -> Symbol(x, "contract", <<>>)
       [] OTHER -> Symbol("error", "none", <<>>)

(* Mutant: a text may stand where a number is expected.                     *)
AssertLoosely(expected, actual) ==
  \/ "any" \in {expected, actual} /\ "error" \notin {expected, actual}
  \/ actual = "teksto" /\ expected \in {"alamat", "buo"}
  \/ expected = actual /\ actual # "error"

assert_type(expected, actual) ==
  \/ "any" \in {expected, actual} /\ "error" \notin {expected, actual}
  \/ actual = "teksto" /\ expected = "alamat"
  \/ expected = actual /\ actual # "error"

(* The type, if all is well.                                                *)
Provided(condition, type) == IF condition THEN type ELSE "error"

-----------------------------------------------------------------------------
(* Expressions.                                                             *)

visit_literal(v) ==
  CASE v[1] = "int" -> "buo" [] v[1] = "bool" -> "kondisyon" [] v[1] = "str" -> "teksto" [] OTHER -> "wala"

visit_binary_expr(op, left, right) ==
  LET numbers == assert_type("buo", left) /\ assert_type("buo", right) IN
  CASE "error" \in {left, right} -> "error"
    [] op = "+" /\ "teksto" \in {left, right} -> "teksto"
    [] op = "+" /\ "teksto" \notin {left, right} -> Provided(numbers, "buo")
    [] op \in {"-", "*", "/"} -> Provided(numbers, "buo")
    [] op \in {"<", ">", "<=", ">="} -> Provided(numbers, "kondisyon")
    [] OTHER -> Provided(assert_type(left, right), "kondisyon")

visit_unary_expr(op, operand) ==
  IF op = "!" THEN Provided(assert_type("kondisyon", operand), "kondisyon")
  ELSE Provided(assert_type("buo", operand), "buo")

visit_member_expr(ctx, obj, member) ==
  IF obj \notin DOMAIN ctx.contracts THEN Provided(obj # "error", "any")
  ELSE LET meta == ctx.contracts[obj] IN
       CASE member \in DOMAIN meta.fields -> meta.fields[member]
         [] member \in DOMAIN meta.methods \ DOMAIN meta.fields -> meta.methods[member].type
         [] OTHER -> "error"

Fits(params, types) == Len(params) = Len(types) /\ \A i \in DOMAIN params : assert_type(params[i], types[i])

ConstructorParams(meta) == IF "simulan" \in DOMAIN meta.methods THEN meta.methods["simulan"].params ELSE <<>>

(* A call of a name that is no function, contract or method is not looked   *)
(* at any further.                                                          *)
CallName(ctx, x, types) ==
  LET symbol == lookup(ctx, x) IN
  CASE symbol.kind = "contract" -> Provided(Fits(ConstructorParams(ctx.contracts[x]), types), x)
    [] symbol.kind \in {"func", "method"} -> Provided(Fits(symbol.params, types), symbol.type)
    [] x = "ipakita" /\ symbol.kind = "none" -> Provided(\A i \in DOMAIN types : types[i] # "error", "wala")
    [] OTHER -> "any"

CallMember(ctx, obj, member, types) ==
  IF obj \notin DOMAIN ctx.contracts THEN Provided(obj # "error", "any")
  ELSE LET methods == ctx.contracts[obj].methods IN
       IF member \notin DOMAIN methods THEN "error"
       ELSE Provided(Fits(methods[member].params, types), methods[member].type)

RECURSIVE visit_expr(_, _)

visit_call_expr(ctx, e) ==
  LET types == [i \in DOMAIN e.arguments |-> visit_expr(ctx, e.arguments[i])] IN
  CASE e.callee.kind = "Identifier" -> CallName(ctx, e.callee.name, types)
    [] e.callee.kind = "MemberExpr" -> CallMember(ctx, visit_expr(ctx, e.callee.obj), e.callee.member, types)
    [] OTHER -> "any"

(* The type of an assignment is Python's None, which equals no type.        *)
visit_assign_stmt(ctx, s) ==
  Provided(assert_type(visit_expr(ctx, s.target), visit_expr(ctx, s.value)), "nothing")

visit_expr(ctx, e) ==
  CASE e.kind = "Literal"    -> visit_literal(e.value)
    [] e.kind = "Identifier" -> lookup(ctx, e.name).type
    [] e.kind = "MemberExpr" -> visit_member_expr(ctx, visit_expr(ctx, e.obj), e.member)
    [] e.kind = "BinaryExpr" -> visit_binary_expr(e.operator, visit_expr(ctx, e.left), visit_expr(ctx, e.right))
    [] e.kind = "UnaryExpr"  -> visit_unary_expr(e.operator, visit_expr(ctx, e.operand))
    [] e.kind = "CallExpr"   -> visit_call_expr(ctx, e)
    [] e.kind = "AssignStmt" -> visit_assign_stmt(ctx, e)

-----------------------------------------------------------------------------
(* Statements: the context after them.                                      *)

If(condition, ctx) == IF condition THEN ctx ELSE Fail(ctx)

visit_var_decl(ctx, s) ==
  LET want == Or(s.type_ann, "any")
      have == IF s.initializer = <<>> THEN want ELSE visit_expr(ctx, s.initializer[1])
  IN IF ~assert_type(want, have) THEN Fail(ctx)
     ELSE declare(ctx, s.name, Symbol(IF want = "any" THEN have ELSE want, "var", <<>>))

(* Outside of a function anything may be returned.                          *)
visit_return_stmt(ctx, s) ==
  LET type == IF s.expression = <<>> THEN "wala" ELSE visit_expr(ctx, s.expression[1])
  IN If(IF ctx.function = Nobody THEN type # "error"
        ELSE assert_type(Or(ctx.function[1].return_type, "wala"), type), ctx)

RECURSIVE visit_block(_, _), visit_stmts(_, _), visit_stmt(_, _)

visit_stmts(ctx, stmts) ==
  FoldLeft(LAMBDA c, s : IF Failed(c) THEN c ELSE visit_stmt(c, s), ctx, stmts)

(* What is declared inside is gone afterwards; the current function is not  *)
(* what it was when another one was declared inside.                        *)
Left(ctx, inner) ==
  IF Failed(inner) THEN Fail(ctx) ELSE [ctx EXCEPT !.function = inner.function, !.contract = inner.contract]

visit_block(ctx, stmts) ==
  IF Failed(ctx) THEN ctx ELSE Left(ctx, visit_stmts(enter_scope(ctx), stmts))

visit_func_decl(ctx, f) ==
  LET own  == [enter_scope(ctx) EXCEPT !.function = <<f>>]
      with == FoldLeft(LAMBDA c, i : declare(c, f.params[i], Symbol(f.types[i], "param", <<>>)),
                       own, [i \in DOMAIN f.params |-> i])
  IN [Left(ctx, visit_block(with, f.body)) EXCEPT !.function = Nobody]

(* A contract inside a block has not been scanned: KeyError.                *)
visit_contract_decl(ctx, c) ==
  LET fields  == ctx.contracts[c.name].fields
      own     == [ctx EXCEPT !.contract = <<c.name>>,
                             !.scopes = Append(@, [x \in DOMAIN fields |-> Symbol(fields[x], "field", <<>>)])]
      methods == SelectSeq(c.members, LAMBDA m : m.kind = "FuncDecl")
  IN IF c.name \notin DOMAIN ctx.contracts THEN Fail(ctx)
     ELSE [Left(ctx, visit_stmts(own, methods)) EXCEPT !.contract = Nobody]

visit_if_stmt(ctx, s) ==
  LET checked == If(assert_type("kondisyon", visit_expr(ctx, s.condition)), ctx)
      then    == visit_block(checked, s.then_branch)
  IN IF s.else_branch = <<>> THEN then ELSE visit_block(then, s.else_branch[1])

visit_while_stmt(ctx, s) ==
  visit_block(If(assert_type("kondisyon", visit_expr(ctx, s.condition)), ctx), s.body)

visit_stmt(ctx, s) ==
  CASE s.kind = "VarDecl"      -> visit_var_decl(ctx, s)
    [] s.kind = "ExprStmt"     -> If(visit_expr(ctx, s.expression) # "error", ctx)
    [] s.kind = "ReturnStmt"   -> visit_return_stmt(ctx, s)
    [] s.kind = "IfStmt"       -> visit_if_stmt(ctx, s)
    [] s.kind = "WhileStmt"    -> visit_while_stmt(ctx, s)
    [] s.kind = "Block"        -> visit_block(ctx, s.statements)
    [] s.kind = "FuncDecl"     -> visit_func_decl(ctx, s)
    [] s.kind = "ContractDecl" -> visit_contract_decl(ctx, s)

(* visit_program: the functions first, then everything in order.            *)
analyze(program) ==
  LET none  == [scopes |-> <<<<>>>>, contracts |-> pre_pass(program), contract |-> Nobody, function |-> Nobody]
      funcs == SelectSeq(program, LAMBDA d : d.kind = "FuncDecl")
      known == FoldLeft(LAMBDA c, f : declare(c, f.name, Signature(f)), none, funcs)
  IN ~Failed(visit_stmts(known, program))
=============================================================================
