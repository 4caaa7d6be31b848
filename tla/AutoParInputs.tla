--------------------------- MODULE AutoParInputs ----------------------------
(***************************************************************************)
(* The statements AutoPar is checked on: over the local variables and one  *)
(* resource, those whose writes the analysis records, and those it does    *)
(* not look into.                                                          *)
(***************************************************************************)
EXTENDS Integers, TLC

CONSTANTS
  Locals,    \* the local variables of a body
  Database   \* a resource

DbWrites == <<"writes", Database>>
DbReads == <<"reads", Database>>
DbOwn == <<"own", Database>>

\* A statement of the given kind with no other feature.
Plainly(k, x) ==
  [kind |-> k, name |-> x, reads |-> {}, writes |-> {}, unseen |-> {}, inner |-> {},
   unwalked |-> {}, effects |-> {}, quiet |-> {}, poly |-> FALSE, exit |-> FALSE,
   atom |-> FALSE, typed |-> TRUE]

OtherThan(x) == CHOOSE y \in Locals : y # x

\* let x = f(), x = f(), let x = f(y), x += f(y), let x = y.
BindingStatements ==
  {[Plainly(k, x) EXCEPT !.effects = {e}] :
     k \in {"let", "assign"}, x \in Locals, e \in {DbWrites, DbReads}}
  \cup {[Plainly(k, x) EXCEPT !.reads = {OtherThan(x)}, !.effects = {DbOwn}] :
     k \in {"let", "update"}, x \in Locals}
  \cup {[Plainly("let", x) EXCEPT !.reads = {OtherThan(x)}, !.atom = TRUE] :
     x \in Locals}
  \cup {[Plainly("let", x) EXCEPT !.effects = {DbWrites}, !.typed = FALSE] : x \in Locals}

\* f(x), { x = f(); }, g() with polymorphic effects, if f(x) { return }, par.
ExpressionStatements ==
  {[Plainly("expr", "none") EXCEPT !.reads = {x}, !.effects = {e}] :
     x \in Locals, e \in {DbWrites, DbReads}}
  \cup {[Plainly("expr", "none") EXCEPT !.writes = {x}, !.effects = es] :
     x \in Locals, es \in {{}, {DbOwn}}}
  \cup {[Plainly("expr", "none") EXCEPT !.reads = {x}, !.exit = TRUE] :
     x \in Locals}
  \cup {[Plainly("expr", "none") EXCEPT !.effects = {DbWrites}, !.poly = TRUE],
        [Plainly("par", "none") EXCEPT !.effects = {DbOwn}]}

PlainStatements == BindingStatements \cup ExpressionStatements

\* let x = { y = f(); .. } and let x = y.pop(): a write inside the value.  And
\* f(mut x): a write in an argument.
NestedWrites ==
  {[Plainly("let", x) EXCEPT !.writes = {OtherThan(x)}, !.effects = {DbOwn}] : x \in Locals}
  \cup {[Plainly("expr", "none") EXCEPT !.reads = {x}, !.effects = {DbReads}] : x \in Locals}
  \cup {[Plainly("expr", "none") EXCEPT !.writes = {x}, !.unseen = {x}, !.effects = {DbOwn}] :
     x \in Locals}

AnyLocals == SUBSET Locals
OneLocal == {{x} : x \in Locals}

LocalSymmetry == Permutations(Locals)
=============================================================================
