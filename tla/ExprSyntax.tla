----------------------------- MODULE ExprSyntax -----------------------------
(***************************************************************************)
(* The parser of expressions and the statements around them, and the       *)
(* formatter that writes them again: src/parser/exprs.rs,                  *)
(* src/parser/stmts.rs, src/formatter/exprs.rs.                            *)
(*                                                                         *)
(* A tree is [op, args].  A name, a literal or a path is the leaf "a"; a   *)
(* block, a match and the block of an `if` are the token "{}"; a type is   *)
(* the token "T", a closure's parameter "x", a member "f", `let x =` is    *)
(* "let".  A range without an end, and a return without a value, have      *)
(* None there.  A text is a sequence of tokens that ends with the "}" of   *)
(* the body.  What the formatter writes is a sequence of pieces and        *)
(* spaces, from which the lexer takes the longest tokens.                  *)
(***************************************************************************)
EXTENDS Naturals, SequencesExt

CONSTANT Bodies      \* the bodies whose text is parsed

VARIABLES
  source,    \* the body as it is meant
  text,      \* its tokens, or those of its formatted text
  parsed,    \* what the parser makes of them
  stage      \* "written", "parsed", "formatted"

vars == <<source, text, parsed, stage>>

Node(op, args) == [op |-> op, args |-> args]
None == Node("none", <<>>)
-----------------------------------------------------------------------------
(* The parser.  A result is a tree and the position behind it.             *)

Found(tree, next) == [tree |-> tree, next |-> next]
Failed == Found(None, 0)
HasFailed(r) == r.next = 0
After(r, Continue(_)) == IF HasFailed(r) THEN Failed ELSE Continue(r)

\* The left binding power of the operators with two operands; the right
\* operand is parsed with the next higher one.
LeftPower ==
  ("|>" :> 2) @@ ("??" :> 4) @@ ("or" :> 6) @@ ("and" :> 8)
  @@ ("==" :> 10) @@ ("!=" :> 10) @@ ("<" :> 10) @@ ("<=" :> 10) @@ (">" :> 10) @@ (">=" :> 10)
  @@ ("|" :> 12) @@ ("^" :> 14) @@ ("&" :> 16) @@ ("<<" :> 18) @@ (">>" :> 18)
  @@ ("+" :> 20) @@ ("-" :> 20) @@ ("*" :> 22) @@ ("/" :> 22) @@ ("%" :> 22)

Ranges == {"..", "..="}
RangePower == 5
CastPower == 23
UnaryPower == 24
Unary == {"-", "not", "~", "*"}

\* Before these a range has no end.
EndsRange == {";", "}", ",", "]", ")"}

BlockLike == {"{}", "if"}

RECURSIVE ParseExpr(_, _, _, _), ParseRest(_, _, _), ParsePrefix(_, _),
          ParseList(_, _, _, _), ParseItems(_, _, _)

\* parse_expr_bp_with_ctx: in a statement, a block-like prefix is all of it.
ParseExpr(ts, p, min, stmt) ==
  After(ParsePrefix(ts, p),
        LAMBDA lhs : IF stmt /\ lhs.tree.op \in BlockLike THEN lhs
                     ELSE ParseRest(ts, lhs, min))

ParseOperand(ts, p, min) == ParseExpr(ts, p, min, FALSE)

\* The elements up to the closing token, after those in acc.
ParseList(ts, p, close, acc) ==
  IF ts[p] = close THEN Found(acc, p + 1)
  ELSE After(ParseOperand(ts, p, 0),
             LAMBDA e : CASE ts[e.next] = ","   -> ParseList(ts, e.next + 1, close, Append(acc, e.tree))
                          [] ts[e.next] = close -> Found(Append(acc, e.tree), e.next + 1)
                          [] OTHER -> Failed)

\* A member of the object: a field, or a method and its arguments.
ParseMember(ts, object, op) ==
  LET p == object.next + 1 IN
  IF ts[p] # "f" THEN Failed
  ELSE IF ts[p + 1] # "(" THEN Found(Node(op, <<object.tree>>), p + 1)
  ELSE After(ParseList(ts, p + 2, ")", <<>>),
             LAMBDA args : Found(Node(op \o "()", <<object.tree>> \o args.tree), args.next))

ParseRange(ts, start, p) ==
  IF ts[p + 1] \in EndsRange THEN Found(Node(ts[p], <<start, None>>), p + 1)
  ELSE After(ParseOperand(ts, p + 1, RangePower + 1),
             LAMBDA end : Found(Node(ts[p], <<start, end.tree>>), end.next))

\* Mutant: the right operand takes operators of the same power.
ParseRestToTheRight(ts, lhs, min) ==
  LET p == lhs.next
      op == ts[p] IN
  IF op \in DOMAIN LeftPower /\ LeftPower[op] >= min
  THEN After(ParseOperand(ts, p + 1, LeftPower[op]),
             LAMBDA r : ParseRest(ts, Found(Node(op, <<lhs.tree, r.tree>>), r.next), min))
  ELSE lhs

\* The loop over postfix and infix operators, lhs being parsed.
ParseRest(ts, lhs, min) ==
  LET p == lhs.next
      op == ts[p]
      Go(r) == After(r, LAMBDA e : ParseRest(ts, e, min)) IN
  CASE op = "?" -> Go(Found(Node("?", <<lhs.tree>>), p + 1))
    [] op = "as" /\ CastPower >= min ->
         IF ts[p + 1] = "T" THEN Go(Found(Node("as", <<lhs.tree>>), p + 2)) ELSE Failed
    [] op \in {".", "?."} -> Go(ParseMember(ts, lhs, op))
    [] op = "(" -> Go(After(ParseList(ts, p + 1, ")", <<>>),
                            LAMBDA as : Found(Node("()", <<lhs.tree>> \o as.tree), as.next)))
    [] op = "[" -> Go(After(ParseOperand(ts, p + 1, 0),
                            LAMBDA i : IF ts[i.next] = "]"
                                       THEN Found(Node("[]", <<lhs.tree, i.tree>>), i.next + 1)
                                       ELSE Failed))
    [] op \in Ranges /\ RangePower >= min -> Go(ParseRange(ts, lhs.tree, p))
    [] op \in DOMAIN LeftPower /\ LeftPower[op] >= min ->
         Go(After(ParseOperand(ts, p + 1, LeftPower[op] + 1),
                  LAMBDA r : Found(Node(op, <<lhs.tree, r.tree>>), r.next)))
    [] OTHER -> lhs

\* parse_paren_or_tuple: parentheses around one expression leave no trace.
ParseParens(ts, p) ==
  IF ts[p] = ")" THEN Found(Node("tuple", <<>>), p + 1)
  ELSE After(ParseOperand(ts, p, 0),
             LAMBDA e : CASE ts[e.next] = "," ->
                               After(ParseList(ts, e.next + 1, ")", <<e.tree>>),
                                     LAMBDA es : Found(Node("tuple", es.tree), es.next))
                          [] ts[e.next] = ")" -> Found(e.tree, e.next + 1)
                          [] OTHER -> Failed)

ParseArray(ts, p) ==
  IF ts[p] = "]" THEN Found(Node("array", <<>>), p + 1)
  ELSE After(ParseOperand(ts, p, 0),
             LAMBDA e : CASE ts[e.next] = ";" ->
                               After(ParseOperand(ts, e.next + 1, 0),
                                     LAMBDA n : IF ts[n.next] = "]"
                                                THEN Found(Node("repeat", <<e.tree, n.tree>>), n.next + 1)
                                                ELSE Failed)
                          [] ts[e.next] = "," ->
                               After(ParseList(ts, e.next + 1, "]", <<e.tree>>),
                                     LAMBDA es : Found(Node("array", es.tree), es.next))
                          [] ts[e.next] = "]" -> Found(Node("array", <<e.tree>>), e.next + 1)
                          [] OTHER -> Failed)

ParseIf(ts, p) ==
  After(ParseOperand(ts, p, 0),
        LAMBDA c : IF ts[c.next] = "{}" THEN Found(Node("if", <<c.tree>>), c.next + 1) ELSE Failed)

\* Behind the parameters: a block is all of the body.
ParseClosure(ts, p) ==
  After(IF ts[p] = "{}" THEN Found(Node("{}", <<>>), p + 1) ELSE ParseOperand(ts, p, 0),
        LAMBDA b : Found(Node("closure", <<b.tree>>), b.next))

ParsePrefix(ts, p) ==
  LET op == ts[p]
      Wrap(r) == After(r, LAMBDA e : Found(Node(op, <<e.tree>>), e.next)) IN
  CASE op \in {"a", "{}"} -> Found(Node(op, <<>>), p + 1)
    [] op \in Unary -> Wrap(ParseOperand(ts, p + 1, UnaryPower))
    [] op = ".." -> ParseRange(ts, None, p)
    [] op = "..=" -> After(ParseOperand(ts, p + 1, RangePower + 1),
                           LAMBDA e : Found(Node(op, <<None, e.tree>>), e.next))
    [] op = "if" -> ParseIf(ts, p + 1)
    [] op = "return" /\ ts[p + 1] \in {";", "}", ","} -> Found(Node(op, <<None>>), p + 1)
    [] op = "return" -> Wrap(ParseOperand(ts, p + 1, 0))
    [] op = "|" /\ ts[p + 1] = "x" /\ ts[p + 2] = "|" -> ParseClosure(ts, p + 3)
    [] op = "(" -> ParseParens(ts, p + 1)
    [] op = "[" -> ParseArray(ts, p + 1)
    [] OTHER -> Failed

\* parse_block, behind its brace, for `let` and expressions: a statement may
\* lack its semicolon, and the last expression is the value if it does.
ParseItems(ts, p, items) ==
  CASE ts[p] = "}" -> Found(items, p + 1)
    [] ts[p] = "let" ->
         After(ParseOperand(ts, p + 1, 0),
               LAMBDA e : IF ts[e.next] = ";"
                          THEN ParseItems(ts, e.next + 1, Append(items, Node("let", <<e.tree>>)))
                          ELSE Failed)
    [] OTHER ->
         After(ParseExpr(ts, p, 0, TRUE),
               LAMBDA e : CASE ts[e.next] = "}" -> Found(Append(items, Node("value", <<e.tree>>)), e.next + 1)
                            [] ts[e.next] = ";" -> ParseItems(ts, e.next + 1, Append(items, Node("stmt", <<e.tree>>)))
                            [] OTHER -> ParseItems(ts, e.next, Append(items, Node("stmt", <<e.tree>>))))

Parsed(ts) == ParseItems(ts, 1, <<>>)
-----------------------------------------------------------------------------
(* The formatter and the lexer.                                            *)

Separated(parts, separator) ==
  FoldLeft(LAMBDA out, part : IF out = <<>> THEN part ELSE out \o separator \o part, <<>>, parts)

Dots(op) == IF op = ".." THEN <<".", ".">> ELSE <<".", ".", "=">>

RECURSIVE FormatExpr(_), Lexed(_)
FormatExpr(t) ==
  LET op == t.op
      F(i) == FormatExpr(t.args[i])
      From(i) == Separated([k \in 1 .. Len(t.args) + 1 - i |-> F(i + k - 1)], <<",", " ">>) IN
  CASE op = "none" -> <<>>
    [] op \in {"a", "{}"} -> <<op>>
    [] op \in DOMAIN LeftPower /\ Len(t.args) = 2 -> F(1) \o <<" ", op, " ">> \o F(2)
    [] op \in Unary /\ Len(t.args) = 1 -> <<op, " ">> \o F(1)
    [] op \in Ranges -> F(1) \o Dots(op) \o F(2)
    [] op = "?" -> F(1) \o <<"?">>
    [] op = "as" -> F(1) \o <<" ", "as", " ", "T">>
    [] op = "." -> F(1) \o <<".", "f">>
    [] op = "?." -> F(1) \o <<"?", ".", "f">>
    [] op = ".()" -> F(1) \o <<".", "f", "(">> \o From(2) \o <<")">>
    [] op = "?.()" -> F(1) \o <<"?", ".", "f", "(">> \o From(2) \o <<")">>
    [] op = "()" -> F(1) \o <<"(">> \o From(2) \o <<")">>
    [] op = "[]" -> F(1) \o <<"[">> \o F(2) \o <<"]">>
    [] op = "if" -> <<"if", " ">> \o F(1) \o <<" ", "{}">>
    [] op = "return" -> <<"return", " ">> \o F(1)
    [] op = "closure" -> <<"|", "x", "|", " ">> \o F(1)
    [] op = "tuple" -> <<"(">> \o From(1) \o (IF Len(t.args) = 1 THEN <<",">> ELSE <<>>) \o <<")">>
    [] op = "array" -> <<"[">> \o From(1) \o <<"]">>
    [] op = "repeat" -> <<"[">> \o F(1) \o <<";", " ">> \o F(2) \o <<"]">>

FormatItem(item) ==
  CASE item.op = "let" -> <<"let", " ">> \o FormatExpr(item.args[1]) \o <<";", " ">>
    [] item.op = "stmt" -> FormatExpr(item.args[1]) \o <<";", " ">>
    [] item.op = "value" -> FormatExpr(item.args[1]) \o <<" ">>

\* The tokens that pieces without a space between them make up.
Glued == {"??", "?.", "..", "..="}
Piece(ps, n) == FoldLeft(LAMBDA s, c : s \o c, "", SubSeq(ps, 1, n))

\* next_token: spaces separate, and the longest token is taken.
Lexed(ps) ==
  IF ps = <<>> THEN <<>>
  ELSE IF ps[1] = " " THEN Lexed(Tail(ps))
  ELSE LET n == CHOOSE k \in 1 .. 3 :
                  /\ k = 1 \/ (k <= Len(ps) /\ Piece(ps, k) \in Glued)
                  /\ \A m \in k + 1 .. 3 : m > Len(ps) \/ Piece(ps, m) \notin Glued
       IN <<Piece(ps, n)>> \o Lexed(SubSeq(ps, n + 1, Len(ps)))

\* What karac fmt writes of a parsed body, as tokens.
Formatted(items) ==
  Lexed(FoldLeft(LAMBDA out, item : out \o FormatItem(item), <<>>, items)) \o <<"}">>
-----------------------------------------------------------------------------
(* The texts that are parsed.  The table of docs/syntax.md, 5.1, decides   *)
(* where a tree needs parentheses, together with what is said beside it:   *)
(* comparisons do not chain (5.1), a `?` after a stage of a pipe is that   *)
(* of the stage (5.18), and a statement ends with the block it begins with *)
(* (stmts.rs).                                                             *)

Comparisons == {"==", "!=", "<", "<=", ">", ">="}

\* The table's rows, in tens.  Ranges and casts, which it leaves out, stand
\* where the parser's comments put them.
Row(t) ==
  LET op == t.op IN
  CASE None \in Range(t.args) \/ op \in {"return", "closure"} -> 0
    [] op \in Unary /\ Len(t.args) = 1 -> 120
    [] op = "|>" -> 10
    [] op = "??" -> 20
    [] op \in Ranges -> 25
    [] op = "or" -> 30
    [] op = "and" -> 40
    [] op \in Comparisons -> 50
    [] op = "|" -> 60
    [] op = "^" -> 70
    [] op = "&" -> 80
    [] op \in {"<<", ">>"} -> 90
    [] op \in {"+", "-"} -> 100
    [] op \in {"*", "/", "%"} -> 110
    [] op = "as" -> 115
    [] op = "?" -> 130
    [] OTHER -> 140

\* The block that the text begins with is not all of it.
GoesOn(t, written) == t.op \notin BlockLike /\ Head(written) \in BlockLike

\* A `?` somewhere in the tree.
RECURSIVE Asks(_)
Asks(t) == t.op = "?" \/ \E x \in Range(t.args) : Asks(x)

RECURSIVE Written(_, _)
\* The tree as an operand that must stand in row min or below it.
Written(t, min) ==
  LET op == t.op
      W(i, row) == Written(t.args[i], row)
      From(i) == Separated([k \in 1 .. Len(t.args) + 1 - i |-> W(i + k - 1, 0)], <<",">>)
      bare ==
        CASE op = "none" -> <<>>
          [] op \in {"a", "{}"} -> <<op>>
          [] op \in Ranges -> W(1, 25) \o <<op>> \o W(2, 26)
          [] op = "|>" -> W(1, 10) \o <<op>> \o W(2, IF Asks(t.args[2]) THEN 141 ELSE 11)
          [] op \in Comparisons -> W(1, 51) \o <<op>> \o W(2, 51)
          [] op \in DOMAIN LeftPower /\ Len(t.args) = 2 ->
               W(1, Row(t)) \o <<op>> \o W(2, Row(t) + 1)
          [] op \in Unary -> <<op>> \o W(1, 120)
          [] op = "?" -> W(1, 131) \o <<op>>
          [] op = "as" -> W(1, 115) \o <<"as", "T">>
          [] op \in {".", "?."} -> W(1, 140) \o <<op, "f">>
          [] op = ".()" -> W(1, 140) \o <<".", "f", "(">> \o From(2) \o <<")">>
          [] op = "?.()" -> W(1, 140) \o <<"?.", "f", "(">> \o From(2) \o <<")">>
          [] op = "()" -> W(1, IF t.args[1].op \in {".", "?."} THEN 141 ELSE 140)
                          \o <<"(">> \o From(2) \o <<")">>
          [] op = "[]" -> W(1, 140) \o <<"[">> \o W(2, 0) \o <<"]">>
          [] op = "if" -> <<"if">> \o W(1, 1) \o <<"{}">>
          [] op = "return" -> <<op>> \o W(1, 0)
          [] op = "closure" ->
               <<"|", "x", "|">>
               \o W(1, IF GoesOn(t.args[1], W(1, 0)) THEN 141 ELSE 0)
          [] op = "tuple" -> <<"(">> \o From(1) \o (IF Len(t.args) = 1 THEN <<",">> ELSE <<>>) \o <<")">>
          [] op = "array" -> <<"[">> \o From(1) \o <<"]">>
          [] op = "repeat" -> <<"[">> \o W(1, 0) \o <<";">> \o W(2, 0) \o <<"]">>
  IN IF t # None /\ Row(t) < min THEN <<"(">> \o bare \o <<")">> ELSE bare

\* Item i of a body.  A tree that goes on behind its first block is a
\* statement only in parentheses; a statement that is a block needs no
\* semicolon before another one.
WrittenItem(items, i) ==
  LET t == items[i].args[1] IN
  CASE items[i].op = "let" -> <<"let">> \o Written(t, 0) \o <<";">>
    [] OTHER -> Written(t, IF GoesOn(t, Written(t, 0)) THEN 141 ELSE 0)
                \o (IF items[i].op = "value" \/ (t.op \in BlockLike /\ i < Len(items))
                    THEN <<>> ELSE <<";">>)

WrittenBody(items) ==
  FlattenSeq([i \in DOMAIN items |-> WrittenItem(items, i)]) \o <<"}">>
-----------------------------------------------------------------------------
Init ==
  /\ source \in Bodies
  /\ text = WrittenBody(source)
  /\ parsed = Failed
  /\ stage = "written"

Parse ==
  /\ stage = "written"
  /\ parsed' = Parsed(text)
  /\ stage' = "parsed"
  /\ UNCHANGED <<source, text>>

\* A text with errors is not formatted.
Format ==
  /\ stage = "parsed"
  /\ ~HasFailed(parsed)
  /\ text' = Formatted(parsed.tree)
  /\ stage' = "formatted"
  /\ UNCHANGED <<source, parsed>>

Next == Parse \/ Format

Spec == Init /\ [][Next]_vars
-----------------------------------------------------------------------------
\* The parser groups a text as the documents say: written with the
\* parentheses they ask for and no others, each tree is parsed back, behind
\* `let`, as a statement and as the value of a body, alone and behind a
\* statement that ends with its block.
TextMeansTree ==
  stage = "parsed" => ~HasFailed(parsed) /\ parsed.tree = source

\* The formatter keeps what an expression means: its text is parsed to the
\* tree it was written from.
FormatKeepsTree ==
  stage = "formatted" =>
    LET again == Parsed(text) IN ~HasFailed(again) /\ again.tree = parsed.tree
=============================================================================
