----------------------------- MODULE BBLParser ------------------------------
(***************************************************************************)
(* compiler/lexer.py and compiler/parser.py: from the lexemes of a source   *)
(* text to its syntax tree.  A lexeme is a pair of what it is, a word, a    *)
(* mark, a number or a text, and its value; which characters make one is    *)
(* left to the regular expressions of the lexer.                            *)
(*                                                                          *)
(* Parser moves `current` over the tokens; here every rule takes the        *)
(* position it starts at and gives the node and the position after it.      *)
(* Position 0 is the one after a ParserError: no token is there, so that    *)
(* every rule that goes on from it ends there.                              *)
(***************************************************************************)
EXTENDS BBLSyntax, TLC

KEYWORDS ==
  [kontrata |-> "KONTRATA", tungkulin |-> "TUNGKULIN", itakda |-> "ITAKDA", ibahagi |-> "IBAHAGI",
   ibalik |-> "IBALIK", kung |-> "KUNG", kundi |-> "KUNDI", habang |-> "HABANG", tama |-> "TAMA",
   mali |-> "MALI", wala |-> "WALA", buo |-> "TYPE_BUO", teksto |-> "TYPE_TEKSTO",
   kondisyon |-> "TYPE_KONDISYON", alamat |-> "TYPE_ALAMAT", ipakita |-> "IPAKITA"]

TOKEN_SPECIFICATION ==
  "==" :> "EQ" @@ "!=" :> "NEQ" @@ "<=" :> "LTE" @@ ">=" :> "GTE" @@ "<" :> "LT" @@ ">" :> "GT" @@
  "=" :> "ASSIGN" @@ "+" :> "PLUS" @@ "-" :> "MINUS" @@ "*" :> "MULTIPLY" @@ "/" :> "DIVIDE" @@
  "!" :> "NOT" @@ "(" :> "LPAREN" @@ ")" :> "RPAREN" @@ "{" :> "LBRACE" @@ "}" :> "RBRACE" @@
  "," :> "COMMA" @@ ":" :> "COLON" @@ ";" :> "SEMICOLON" @@ "." :> "DOT"

Token(lexeme) ==
  [value |-> lexeme[2],
   type |-> CASE lexeme[1] = "number" -> "NUMBER"
              [] lexeme[1] = "text" -> "STRING"
              [] lexeme[1] = "mark" -> TOKEN_SPECIFICATION[lexeme[2]]
              [] lexeme[2] \in DOMAIN KEYWORDS -> KEYWORDS[lexeme[2]]
              [] OTHER -> "IDENTIFIER"]

tokenize(lexemes) ==
  [i \in 1 .. Len(lexemes) + 1 |->
     IF i <= Len(lexemes) THEN Token(lexemes[i]) ELSE [type |-> "EOF", value |-> ""]]

-----------------------------------------------------------------------------
(* The helpers.                                                             *)

Got(node, i) == [node |-> node, at |-> i]
ParserError == Got("error", 0)

Type(ts, i) == IF i = 0 THEN "none" ELSE ts[i].type
check(ts, i, types) == Type(ts, i) \in types
consume(ts, i, type) == IF Type(ts, i) = type THEN i + 1 ELSE 0
\* match, for a token that may be there.
skip(ts, i, type) == IF Type(ts, i) = type THEN i + 1 ELSE i
Over(ts, i) == check(ts, i, {"RBRACE", "EOF", "none"})

\* The value of the token that is consumed.
Word(ts, i) == IF check(ts, i, {"IDENTIFIER"}) THEN Got(ts[i].value, i + 1) ELSE ParserError

-----------------------------------------------------------------------------
(* Expressions.                                                             *)

RECURSIVE expression(_, _), Operand(_, _, _), binary(_, _, _), unary(_, _), call(_, _),
          arguments(_, _, _)

primary(ts, i) ==
  CASE Type(ts, i) = "TAMA" -> Got(Literal(Bool(TRUE)), i + 1)
    [] Type(ts, i) = "MALI" -> Got(Literal(Bool(FALSE)), i + 1)
    [] Type(ts, i) = "WALA" -> Got(Literal(None), i + 1)
    [] Type(ts, i) = "NUMBER" -> Got(Lit(ts[i].value), i + 1)
    [] Type(ts, i) = "STRING" -> Got(Literal(Str(ts[i].value)), i + 1)
    [] Type(ts, i) = "IDENTIFIER" -> Got(Identifier(ts[i].value), i + 1)
    [] Type(ts, i) = "IPAKITA" -> Got(Identifier("ipakita"), i + 1)
    [] Type(ts, i) = "LPAREN" ->
         LET e == expression(ts, i + 1) IN Got(e.node, consume(ts, e.at, "RPAREN"))
    [] OTHER -> ParserError

\* The arguments after those in args, and the parenthesis.
arguments(ts, args, i) ==
  LET e == expression(ts, i)
      all == Append(args, e.node)
  IN IF check(ts, e.at, {"COMMA"}) THEN arguments(ts, all, e.at + 1)
     ELSE Got(all, consume(ts, e.at, "RPAREN"))

call(ts, callee) ==
  CASE check(ts, callee.at, {"LPAREN"}) ->
         LET args == IF check(ts, callee.at + 1, {"RPAREN"}) THEN Got(<<>>, callee.at + 2)
                     ELSE arguments(ts, <<>>, callee.at + 1)
         IN call(ts, Got(CallExpr(callee.node, args.node), args.at))
    [] check(ts, callee.at, {"DOT"}) ->
         LET member == Word(ts, callee.at + 1)
         IN call(ts, Got(MemberExpr(callee.node, member.node), member.at))
    [] OTHER -> callee

unary(ts, i) ==
  IF check(ts, i, {"NOT", "MINUS"})
  THEN LET operand == unary(ts, i + 1) IN Got(UnaryExpr(ts[i].value, operand.node), operand.at)
  ELSE call(ts, primary(ts, i))

\* equality, comparison, term and factor, the loosest first.
Operators == <<{"EQ", "NEQ"}, {"LT", "GT", "LTE", "GTE"}, {"PLUS", "MINUS"}, {"MULTIPLY", "DIVIDE"}>>
Operand(ts, level, i) ==
  IF level = Len(Operators) THEN unary(ts, i) ELSE binary(ts, level + 1, Operand(ts, level + 1, i))

\* Mutant: a chain of operators groups to the right.
BinaryToTheRight(ts, level, left) ==
  IF check(ts, left.at, Operators[level])
  THEN LET right == binary(ts, level, Operand(ts, level, left.at + 1))
       IN Got(BinaryExpr(left.node, ts[left.at].value, right.node), right.at)
  ELSE left

binary(ts, level, left) ==
  IF check(ts, left.at, Operators[level])
  THEN LET right == Operand(ts, level, left.at + 1)
       IN binary(ts, level, Got(BinaryExpr(left.node, ts[left.at].value, right.node), right.at))
  ELSE left

\* assignment: to the right, and only to a name or a member.
expression(ts, i) ==
  LET target == binary(ts, 1, Operand(ts, 1, i))
      value  == expression(ts, target.at + 1)
  IN IF ~check(ts, target.at, {"ASSIGN"}) THEN target
     ELSE IF target.node.kind \in {"Identifier", "MemberExpr"}
     THEN Got(AssignStmt(target.node, value.node), value.at)
     ELSE ParserError

-----------------------------------------------------------------------------
(* Declarations and statements.                                             *)

parse_type(ts, i) ==
  CASE Type(ts, i) = "TYPE_BUO" -> Got("buo", i + 1)
    [] Type(ts, i) = "TYPE_TEKSTO" -> Got("teksto", i + 1)
    [] Type(ts, i) = "TYPE_KONDISYON" -> Got("kondisyon", i + 1)
    [] Type(ts, i) = "TYPE_ALAMAT" -> Got("alamat", i + 1)
    [] OTHER -> Word(ts, i)

\* What may follow a token: a list of at most one element.
Optional(ts, i, type, Rule(_, _)) ==
  IF ~check(ts, i, {type}) THEN Got(<<>>, i)
  ELSE LET r == Rule(ts, i + 1) IN Got(<<r.node>>, r.at)

var_decl(ts, i) ==
  LET name == Word(ts, i)
      type == Optional(ts, name.at, "COLON", parse_type)
      init == Optional(ts, type.at, "ASSIGN", expression)
  IN Got(VarDeclaring(name.node, type.node, init.node), skip(ts, init.at, "SEMICOLON"))

RECURSIVE declaration(_, _), Declarations(_, _, _), if_statement(_, _), Parameters(_, _, _),
          Members(_, _, _)

\* Declarations up to a brace or the end.
Declarations(ts, done, i) ==
  IF Over(ts, i) THEN Got(done, i)
  ELSE LET d == declaration(ts, i) IN Declarations(ts, Append(done, d.node), d.at)

block_statement(ts, i) ==
  LET b == Declarations(ts, <<>>, consume(ts, i, "LBRACE")) IN Got(b.node, consume(ts, b.at, "RBRACE"))

\* A parenthesis at the beginning is taken for one around the whole condition.
Condition(ts, i) ==
  LET e == expression(ts, skip(ts, i, "LPAREN"))
  IN IF check(ts, i, {"LPAREN"}) THEN Got(e.node, consume(ts, e.at, "RPAREN")) ELSE e

Alternative(ts, i) ==
  IF check(ts, i, {"KUNG"}) THEN LET s == if_statement(ts, i + 1) IN Got(<<s.node>>, s.at)
  ELSE block_statement(ts, i)

if_statement(ts, i) ==
  LET cond == Condition(ts, i)
      then == block_statement(ts, cond.at)
      else == Optional(ts, then.at, "KUNDI", Alternative)
  IN Got([kind |-> "IfStmt", condition |-> cond.node, then_branch |-> then.node,
          else_branch |-> else.node], else.at)

while_statement(ts, i) ==
  LET cond == Condition(ts, i)
      body == block_statement(ts, cond.at)
  IN Got(WhileStmt(cond.node, body.node), body.at)

return_statement(ts, i) ==
  IF Over(ts, i) \/ check(ts, i, {"SEMICOLON"}) THEN Got(ReturnOnly, skip(ts, i, "SEMICOLON"))
  ELSE LET e == expression(ts, i) IN Got(ReturnStmt(e.node), skip(ts, e.at, "SEMICOLON"))

expression_statement(ts, i) ==
  LET e == expression(ts, i) IN Got(ExprStmt(e.node), skip(ts, e.at, "SEMICOLON"))

statement(ts, i) ==
  CASE check(ts, i, {"KUNG"}) -> if_statement(ts, i + 1)
    [] check(ts, i, {"HABANG"}) -> while_statement(ts, i + 1)
    [] check(ts, i, {"IBALIK"}) -> return_statement(ts, i + 1)
    [] check(ts, i, {"LBRACE"}) -> LET b == block_statement(ts, i) IN Got(Block(b.node), b.at)
    [] OTHER -> expression_statement(ts, i)

\* The parameters after those in done, and the parenthesis.
Parameters(ts, done, i) ==
  LET name == Word(ts, i)
      type == parse_type(ts, consume(ts, name.at, "COLON"))
      all  == Append(done, <<name.node, type.node>>)
  IN IF check(ts, type.at, {"COMMA"}) THEN Parameters(ts, all, type.at + 1)
     ELSE Got(all, consume(ts, type.at, "RPAREN"))

func_decl(ts, i) ==
  LET name   == Word(ts, i)
      open   == consume(ts, name.at, "LPAREN")
      params == IF check(ts, open, {"RPAREN"}) THEN Got(<<>>, open + 1) ELSE Parameters(ts, <<>>, open)
      type   == Optional(ts, skip(ts, params.at, "IBAHAGI"), "COLON", parse_type)
      body   == block_statement(ts, type.at)
  IN Got(FuncDecl(name.node, params.node, type.node, check(ts, params.at, {"IBAHAGI"}), body.node),
         body.at)

\* The members of a contract, and the brace: fields and functions only.
Members(ts, done, i) ==
  LET field  == var_decl(ts, i + 1)
      method == func_decl(ts, i + 1)
  IN CASE check(ts, i, {"ITAKDA"}) -> Members(ts, Append(done, field.node), field.at)
       [] check(ts, i, {"TUNGKULIN"}) -> Members(ts, Append(done, method.node), method.at)
       [] OTHER -> Got(done, consume(ts, i, "RBRACE"))

contract_decl(ts, i) ==
  LET name    == Word(ts, i)
      members == Members(ts, <<>>, consume(ts, name.at, "LBRACE"))
  IN Got(ContractDecl(name.node, members.node), members.at)

declaration(ts, i) ==
  CASE check(ts, i, {"KONTRATA"}) -> contract_decl(ts, i + 1)
    [] check(ts, i, {"TUNGKULIN"}) -> func_decl(ts, i + 1)
    [] check(ts, i, {"ITAKDA"}) -> var_decl(ts, i + 1)
    [] OTHER -> statement(ts, i)

\* A brace too many is no declaration.
parse(ts) ==
  LET p == Declarations(ts, <<>>, 1) IN [ok |-> check(ts, p.at, {"EOF"}), program |-> p.node]
=============================================================================
