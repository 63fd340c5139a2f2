------------------------------ MODULE BBLText -------------------------------
(***************************************************************************)
(* How a syntax tree is written down, from the tree and the usual           *)
(* precedence of the operators alone: the reference the parser is checked   *)
(* against.  Parentheses are put where the tree needs them, a condition is  *)
(* put into parentheses when it begins with one, and a statement ends in a  *)
(* semicolon or not.                                                        *)
(***************************************************************************)
EXTENDS BBLSyntax, SequencesExt

Mark(m)  == <<"mark", m>>
Spell(w) == <<"word", w>>

Level(e) ==
  CASE e.kind = "AssignStmt" -> 0
    [] e.kind = "BinaryExpr" -> CASE e.operator \in {"==", "!="} -> 1
                                  [] e.operator \in {"<", ">", "<=", ">="} -> 2
                                  [] e.operator \in {"+", "-"} -> 3
                                  [] OTHER -> 4
    [] e.kind = "UnaryExpr"  -> 5
    [] OTHER                 -> 6

Between(parts, mark) ==
  FoldLeft(LAMBDA text, part : IF text = <<>> THEN part ELSE text \o <<Mark(mark)>> \o part, <<>>, parts)

LiteralText(v) ==
  CASE v[1] = "int"  -> <<<<"number", v[2]>>>>
    [] v[1] = "bool" -> <<Spell(IF v[2] = 1 THEN "tama" ELSE "mali")>>
    [] v[1] = "str"  -> <<<<"text", v[2][1][2]>>>>
    [] OTHER         -> <<Spell("wala")>>

RECURSIVE Written(_), At(_, _)

\* An expression where one that binds at least as tight as level is wanted.
At(level, e) ==
  IF Level(e) >= level THEN Written(e) ELSE <<Mark("(")>> \o Written(e) \o <<Mark(")")>>

Written(e) ==
  CASE e.kind = "Literal"    -> LiteralText(e.value)
    [] e.kind = "Identifier" -> <<Spell(e.name)>>
    [] e.kind = "MemberExpr" -> At(6, e.obj) \o <<Mark("."), Spell(e.member)>>
    [] e.kind = "CallExpr"   -> At(6, e.callee) \o <<Mark("(")>>
                                  \o Between([i \in DOMAIN e.arguments |-> At(0, e.arguments[i])], ",")
                                  \o <<Mark(")")>>
    [] e.kind = "UnaryExpr"  -> <<Mark(e.operator)>> \o At(5, e.operand)
    [] e.kind = "BinaryExpr" -> At(Level(e), e.left) \o <<Mark(e.operator)>> \o At(Level(e) + 1, e.right)
    [] e.kind = "AssignStmt" -> At(6, e.target) \o <<Mark("=")>> \o At(0, e.value)

Conditional(e) ==
  IF Head(Written(e)) = Mark("(") THEN <<Mark("(")>> \o Written(e) \o <<Mark(")")>> ELSE Written(e)

Annotation(types) == IF types = <<>> THEN <<>> ELSE <<Mark(":"), Spell(types[1])>>

RECURSIVE Statement(_, _)

BlockText(stmts, end) ==
  <<Mark("{")>> \o FlattenSeq([i \in DOMAIN stmts |-> Statement(stmts[i], end)]) \o <<Mark("}")>>

\* `kundi kung` without semicolons, `kundi { kung` with them.
ElseText(stmts, end) ==
  IF end = <<>> /\ Len(stmts) = 1 /\ stmts[1].kind = "IfStmt" THEN Statement(stmts[1], end)
  ELSE BlockText(stmts, end)

\* end: the semicolon, or nothing.
Statement(s, end) ==
  CASE s.kind = "VarDecl"    -> <<Spell("itakda"), Spell(s.name)>> \o Annotation(s.type_ann)
                                  \o (IF s.initializer = <<>> THEN <<>>
                                      ELSE <<Mark("=")>> \o Written(s.initializer[1])) \o end
    [] s.kind = "ExprStmt"   -> Written(s.expression) \o end
    [] s.kind = "ReturnStmt" -> <<Spell("ibalik")>>
                                  \o (IF s.expression = <<>> THEN <<Mark(";")>>
                                      ELSE Written(s.expression[1]) \o end)
    [] s.kind = "IfStmt"     -> <<Spell("kung")>> \o Conditional(s.condition) \o BlockText(s.then_branch, end)
                                  \o (IF s.else_branch = <<>> THEN <<>>
                                      ELSE <<Spell("kundi")>> \o ElseText(s.else_branch[1], end))
    [] s.kind = "WhileStmt"  -> <<Spell("habang")>> \o Conditional(s.condition) \o BlockText(s.body, end)
    [] s.kind = "Block"      -> BlockText(s.statements, end)
    [] s.kind = "ContractDecl" -> <<Spell("kontrata"), Spell(s.name)>> \o BlockText(s.members, end)
    [] s.kind = "FuncDecl"   ->
         <<Spell("tungkulin"), Spell(s.name), Mark("(")>>
           \o Between([i \in DOMAIN s.params |-> <<Spell(s.params[i])>> \o Annotation(<<s.types[i]>>)], ",")
           \o <<Mark(")")>> \o (IF s.is_public THEN <<Spell("ibahagi")>> ELSE <<>>)
           \o Annotation(s.return_type) \o BlockText(s.body, end)

ProgramText(program, end) == FlattenSeq([i \in DOMAIN program |-> Statement(program[i], end)])
=============================================================================
