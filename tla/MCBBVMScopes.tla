---------------------------- MODULE MCBBVMScopes ----------------------------
(***************************************************************************)
(* BBVM on accepted programs whose compiled code does not do what the       *)
(* compiler's own comments say: a function whose last statement is a `kung` *)
(* that returns, a block that declares a name again, and a parameter with   *)
(* the name of a field.                                                     *)
(***************************************************************************)
EXTENDS BBLSyntax, BBLMeaning, StackHeights

Var(x) == Identifier(x)

(* tungkulin maliit(a: buo): buo { kung (a < 0) { ibalik 1 } }              *)
MayNotReturn ==
  <<FuncDecl("maliit", <<<<"a", "buo">>>>, <<"buo">>, FALSE,
      <<IfStmt(BinaryExpr(Var("a"), "<", Lit(0)), <<ReturnStmt(Lit(1))>>)>>),
    VarDecl("x", Call("maliit", <<Lit(3)>>)), Ipakita(<<Var("x")>>)>>

Redeclared ==
  <<VarDecl("x", Lit(1)),
    IfStmt(Literal(Bool(TRUE)), <<VarDecl("x", Lit(2))>>), Ipakita(<<Var("x")>>)>>

ShadowedField ==
  <<ContractDecl("K", <<VarDecl("n", Lit(1)),
                        FuncDecl("kunin", <<<<"n", "buo">>>>, <<"buo">>, FALSE, <<ReturnStmt(Var("n"))>>)>>),
    VarDecl("x", Call("K", <<>>)), Ipakita(<<CallOn("x", "kunin", <<Lit(5)>>)>>)>>

MCName       == {"self", "a", "x", "n", "maliit", "kunin", "K"}
Returning    == [p \in {"maliit"} |-> compile(MayNotReturn)]
ScopeSource  == [p \in {"redeclared", "shadowed"} |->
                   IF p = "redeclared" THEN Redeclared ELSE ShadowedField]
Scoping      == [p \in DOMAIN ScopeSource |-> compile(ScopeSource[p])]

(* PROPERTY ReturnAlwaysEmitted: "Ensure return is always emitted at the    *)
(* end of function" (vm_compiler.py:77): no function or method runs off the *)
(* end of its code.                                                         *)
ReturnAlwaysEmitted ==
  status = "running" /\ frames # <<>> /\ ~ InCode => Frame.unit = Main

(* PROPERTY InnermostScopeWins: a name means its innermost declaration:     *)
(* "Search local scopes (stack)" first, then "current contract state"       *)
(* (semantic.py:55-60), so the program prints what that resolution says.    *)
InnermostScopeWins == status = "halted" => output = Prints(ScopeSource[prog])
=============================================================================
