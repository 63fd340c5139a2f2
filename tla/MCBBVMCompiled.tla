--------------------------- MODULE MCBBVMCompiled ---------------------------
(***************************************************************************)
(* BBVM on the images VMCompiler makes of a family of well-typed programs:  *)
(* four functions, a contract with a constructor and two methods, and a     *)
(* main program that puts two statements out of fifteen one after the       *)
(* other, into the branches of a `kung` or into a `habang`.                 *)
(***************************************************************************)
EXTENDS BBLParser, BBLText, BBLMeaning, StackHeights

Types == INSTANCE BBLTypes

Var(x) == Identifier(x)
X      == Var("x")
T      == Literal(Str("t"))
(* A function on numbers.                                                   *)
OnNumbers(f, params, body) == FuncDecl(f, [i \in DOMAIN params |-> <<params[i], "buo">>], <<"buo">>, FALSE, body)

Doble  == OnNumbers("doble", <<"a">>, <<ReturnStmt(BinaryExpr(Var("a"), "+", Var("a")))>>)
Lagpas == OnNumbers("lagpas", <<"a", "b">>,
            <<IfStmt(BinaryExpr(Var("a"), "<", Var("b")),
                     <<ReturnStmt(BinaryExpr(Var("b"), "-", Var("a")))>>),
              ReturnStmt(UnaryExpr("-", Var("a")))>>)
Pakt   == OnNumbers("pakt", <<"a">>,
            <<IfStmt(BinaryExpr(Var("a"), "<=", Lit(1)), <<ReturnStmt(Lit(1))>>),
              ReturnStmt(BinaryExpr(Var("a"), "*", Call("pakt", <<BinaryExpr(Var("a"), "-", Lit(1))>>)))>>)
Suma   == OnNumbers("suma", <<"a">>,
            <<VarDecl("s", Lit(0)),
              WhileStmt(BinaryExpr(Var("a"), ">", Lit(0)),
                <<Set("s", BinaryExpr(Var("s"), "+", Var("a"))),
                  IfStmt(BinaryExpr(Var("s"), ">=", Lit(3)), <<ReturnStmt(Var("s"))>>),
                  Set("a", BinaryExpr(Var("a"), "-", Lit(1)))>>),
              Ipakita(<<Var("s")>>)>>)

Bilang == ContractDecl("Bilang",
            <<VarTyped("n", "buo", Lit(7)), VarDeclOnly("tanda", "buo"),
              FuncDecl("simulan", <<<<"k", "buo">>>>, <<>>, FALSE, <<Set("n", Var("k"))>>),
              OnNumbers("dagdag", <<"d">>,
                <<Set("n", BinaryExpr(Var("n"), "+", Var("d"))), ReturnStmt(Var("n"))>>),
              FuncDecl("markahan", <<>>, <<>>, TRUE, <<Set("tanda", Var("n")), ReturnOnly>>)>>)
Kahon  == ContractDecl("Kahon", <<VarTyped("n", "buo", Lit(5))>>)

Statements == <<
  Set("x", Call("doble", <<X>>)),
  ExprStmt(Call("doble", <<X>>)),
  Set("x", Call("lagpas", <<X, CallOn("b", "dagdag", <<Lit(1)>>)>>)),
  IfElse(BinaryExpr(X, ">", Lit(3)), <<Set("x", BinaryExpr(X, "-", Lit(1)))>>,
         <<IfElse(BinaryExpr(X, "==", Lit(3)), <<Set("x", Lit(9))>>, <<>>)>>),
  WhileStmt(BinaryExpr(X, ">", Lit(1)),
            <<Set("x", BinaryExpr(X, "/", Lit(2))), Ipakita(<<X>>)>>),
  Set("x", BinaryExpr(CallOn("b", "dagdag", <<X>>), "-", CallOn("c", "dagdag", <<Lit(2)>>))),
  Ipakita(<<BinaryExpr(Literal(Str("t")), "+", X), BinaryExpr(X, "!=", Lit(3))>>),
  Set("b", Call("Bilang", <<Call("pakt", <<Lit(3)>>)>>)),
  SetTo(MemberExpr(Var("c"), "n"), UnaryExpr("-", X)),
  Set("c", Var("b")),
  IfStmt(UnaryExpr("!", BinaryExpr(MemberExpr(Var("b"), "n"), "==", X)),
         <<Set("x", Call("suma", <<MemberExpr(Var("b"), "n")>>))>>),
  ExprStmt(CallOn("b", "markahan", <<>>)),
  Ipakita(<<Call("suma", <<X>>), MemberExpr(Var("c"), "n")>>),
  Block(<<Ipakita(<<MemberExpr(Call("Kahon", <<>>), "n"), MemberExpr(Var("b"), "tanda")>>)>>),
  Set("x", BinaryExpr(UnaryExpr("-", Lit(7)), "/", BinaryExpr(Lit(0), "-", Lit(2))))>>

(* Statements that go wrong, or make a later one go wrong.                  *)
Mistakes == <<
  Set("x", BinaryExpr(X, "-", T)), Set("x", T), Set("x", Var("b")), Set("x", UnaryExpr("-", Var("b"))),
  IfStmt(BinaryExpr(X, "<", T), <<>>), WhileStmt(BinaryExpr(Var("b"), ">", X), <<>>),
  Set("x", Call("doble", <<>>)), Set("b", Call("Bilang", <<>>)), ExprStmt(CallOn("b", "dagdag", <<>>)),
  ExprStmt(CallOn("b", "s", <<>>)), Set("x", MemberExpr(Var("b"), "k")),
  Set("x", BinaryExpr(Var("s"), "+", X)), Set("b", X)>>

(* x = 3; b = Bilang(x); c = b, or a second object.                         *)
Prelude(shared) ==
  <<Doble, Lagpas, Pakt, Suma, Bilang, Kahon,
    VarDecl("x", Lit(3)), VarDecl("b", Call("Bilang", <<X>>)),
    VarDecl("c", IF shared THEN Var("b") ELSE Call("Bilang", <<Lit(1)>>))>>

Shape(k, s, t) ==
  CASE k = 1 -> <<s, t>>
    [] k = 2 -> <<IfElse(BinaryExpr(MemberExpr(Var("c"), "n"), "<", Lit(2)), <<s, t>>, <<t>>)>>
    [] k = 3 -> <<VarDecl("k", Lit(2)),
                  WhileStmt(BinaryExpr(Var("k"), ">", Lit(0)),
                            <<Set("k", BinaryExpr(Var("k"), "-", Lit(1))), s, t>>)>>

Ending(k) == IF k = 2 THEN <<ReturnStmt(Lit(0)), Ipakita(<<X>>)>>
             ELSE <<Ipakita(<<X, MemberExpr(Var("b"), "n"), MemberExpr(Var("c"), "n")>>)>>

Programs == ((1 .. 3) \X (1 .. Len(Statements)) \X (1 .. Len(Statements)))
              \cup ({4} \X (1 .. Len(Mistakes)) \X {4, 6})
Rest(p)  == (IF p[1] = 4 THEN <<Mistakes[p[2]], Statements[p[3]]>>
             ELSE Shape(p[1], Statements[p[2]], Statements[p[3]])) \o Ending(p[1])
Source   == [p \in Programs |-> Prelude(p[1] = 1) \o Rest(p)]

MCName  == {"self", "x", "b", "c", "k", "a", "s", "n", "tanda", "d", "doble", "lagpas", "pakt",
            "suma", "Bilang", "Kahon", "simulan", "dagdag", "markahan"}

(* Expressions of an operand, two unary and four binary operators, a call   *)
(* and a member, up to two of them deep.                                    *)
Deeper(es) ==
  es \cup {UnaryExpr(op, e) : op \in {"!", "-"}, e \in es}
     \cup {BinaryExpr(l, op, r) : l \in es, op \in {"==", "<", "-", "/"}, r \in es}
     \cup {CallExpr(e, <<e, X>>) : e \in es} \cup {MemberExpr(e, "n") : e \in es}
Expressions == Deeper(Deeper({X}))

(* Whether the parser makes of a program's text, with semicolons or without, *)
(* the tree it was written from.                                            *)
ReadBack(program) ==
  \A end \in {<<>>, <<Mark(";")>>} :
    LET p == parse(tokenize(ProgramText(program, end))) IN p.ok /\ p.program = program

PiecesReadBack == /\ \A shared \in BOOLEAN : ReadBack(Prelude(shared))
                  /\ \A e \in Expressions : ReadBack(<<IfStmt(e, <<Ipakita(<<e>>)>>)>>)

(* With an image come its certificate, the verdicts of the analyzer and of  *)
(* the parser on its source, and the lines an accepted source prints.       *)
MCImage == LET pieces == PiecesReadBack IN
           [p \in Programs |->
              LET im == compile(Source[p])
              IN im @@ [height   |-> [u \in DOMAIN im.code |-> Heights(im.code[u])],
                        accepted |-> Types!analyze(Source[p]),
                        readback |-> pieces /\ ReadBack(Rest(p)),
                        meaning  |-> IF p[1] # 4 THEN Prints(Source[p]) ELSE <<>>]]

-----------------------------------------------------------------------------
(* PROPERTY CompiledMeaning: when the machine stops, the lines it printed   *)
(* are the ones the source means: code layout, jump patching, argument and  *)
(* operand order, field access through self and returns are all right.      *)
CompiledMeaning == prog[1] # 4 /\ status \in {"halted", "returned", "ended"} => output = image.meaning

(* PROPERTY CompiledIsCertified: the compiler's code for every program of   *)
(* the family keeps its operand stacks, so that NoUnderflow applies to it.  *)
CompiledIsCertified == Certified

(* PROPERTY AcceptedTerminate: the analyzer accepts the well-typed programs, *)
(* and a program it accepts runs to its end and raises no exception on the  *)
(* way: its types are those of the values, its names and arguments exist.   *)
AcceptedTerminate ==
  image.accepted \/ prog[1] # 4 => <>(image.accepted /\ status \in {"halted", "returned"})

(* PROPERTY ParsedBack: the parser gives back the tree a text was written   *)
(* from: precedence, grouping, optional semicolons and parentheses.         *)
ParsedBack == image.readback
=============================================================================
