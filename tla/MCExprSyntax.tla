---------------------------- MODULE MCExprSyntax ----------------------------
(***************************************************************************)
(* ExprSyntax on sums and products of up to three operators.               *)
(***************************************************************************)
EXTENDS ExprSyntax

Leaf == Node("a", <<>>)
Simple == {Leaf} \cup {Node(op, <<Leaf, Leaf>>) : op \in {"+", "*"}}

Calculations ==
  {<<Node("let", <<Node(op, <<x, y>>)>>)>> : op \in {"+", "*"}, x \in Simple, y \in Simple}
=============================================================================
