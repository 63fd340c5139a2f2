------------------------------ MODULE BBLSyntax ------------------------------
(***************************************************************************)
(* The nodes of compiler/ast.py.  A statement list stands for a Block, and  *)
(* an optional child is a sequence of at most one element; the branch after *)
(* `kundi kung` is the list of that one statement.  A parameter is a pair   *)
(* of a name and a type.                                                    *)
(***************************************************************************)
EXTENDS BBLValues

Literal(v)          == [kind |-> "Literal", value |-> v]
Lit(n)              == Literal(Num(n))
Identifier(x)       == [kind |-> "Identifier", name |-> x]
MemberExpr(obj, m)  == [kind |-> "MemberExpr", obj |-> obj, member |-> m]
BinaryExpr(l, o, r) == [kind |-> "BinaryExpr", left |-> l, operator |-> o, right |-> r]
UnaryExpr(o, e)     == [kind |-> "UnaryExpr", operator |-> o, operand |-> e]
CallExpr(c, args)   == [kind |-> "CallExpr", callee |-> c, arguments |-> args]
Call(f, args)       == CallExpr(Identifier(f), args)
CallOn(x, m, args)  == CallExpr(MemberExpr(Identifier(x), m), args)

VarDeclaring(x, type, init) ==
  [kind |-> "VarDecl", name |-> x, type_ann |-> type, initializer |-> init]
VarDecl(x, e)       == VarDeclaring(x, <<>>, <<e>>)
VarTyped(x, t, e)   == VarDeclaring(x, <<t>>, <<e>>)
VarDeclOnly(x, t)   == VarDeclaring(x, <<t>>, <<>>)
AssignStmt(t, e)    == [kind |-> "AssignStmt", target |-> t, value |-> e]
ExprStmt(e)         == [kind |-> "ExprStmt", expression |-> e]
SetTo(target, e)    == ExprStmt(AssignStmt(target, e))
Set(x, e)           == SetTo(Identifier(x), e)
IfStmt(c, t)        == [kind |-> "IfStmt", condition |-> c, then_branch |-> t, else_branch |-> <<>>]
IfElse(c, t, e)     == [kind |-> "IfStmt", condition |-> c, then_branch |-> t, else_branch |-> <<e>>]
WhileStmt(c, b)     == [kind |-> "WhileStmt", condition |-> c, body |-> b]
ReturnStmt(e)       == [kind |-> "ReturnStmt", expression |-> <<e>>]
ReturnOnly          == [kind |-> "ReturnStmt", expression |-> <<>>]
Block(b)            == [kind |-> "Block", statements |-> b]
Ipakita(args)       == ExprStmt(Call("ipakita", args))
FuncDecl(f, ps, ret, public, b) ==
  [kind |-> "FuncDecl", name |-> f, params |-> [i \in DOMAIN ps |-> ps[i][1]],
   types |-> [i \in DOMAIN ps |-> ps[i][2]], return_type |-> ret, is_public |-> public, body |-> b]
ContractDecl(c, ms) == [kind |-> "ContractDecl", name |-> c, members |-> ms]
=============================================================================
