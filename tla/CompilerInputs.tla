--------------------------- MODULE CompilerInputs ---------------------------
(***************************************************************************)
(* The small programs the compiler's parts are checked on.                 *)
(***************************************************************************)
EXTENDS AutoParInputs, SequencesExt, FiniteSetsExt

(* MoveAnalysis: bodies of up to three statements drawn from every         *)
(* construct the lowering distinguishes, with and without a loop.          *)

Read == <<"use", "Read">>
Consume == <<"use", "Consume">>
Reassign == <<"use", "Reassign">>
ReturnOk == <<"return", "ok">>
ReturnErr == <<"return", "err">>
Break == <<"break">>
Continue == <<"continue">>
Try == <<"try">>

If(b) == <<"branch", <<b>>, TRUE>>
IfElse(b1, b2) == <<"branch", <<b1, b2>>, FALSE>>

Defers == {<<"defer", <<Read>> >>, <<"errdefer", <<Read>> >>}
LetElses == {<<"letelse", <<Read, ReturnErr>> >>, <<"letelse", <<Consume, ReturnOk>> >>}

Plain ==
  {Read, Consume, Reassign, Try} \cup Defers
  \cup {If(b) : b \in {<<Read>>, <<Consume>>, <<Reassign>>, <<Consume, Read>>,
                       <<ReturnOk>>, <<Consume, ReturnErr>>}}
  \cup {IfElse(<<>>, <<Consume>>), IfElse(<<Consume>>, <<Read>>),
        IfElse(<<Consume>>, <<Reassign>>)}
  \cup {<<k, <<u>> >> : k \in {"block", "and", "closure", "sink"}, u \in {Read, Consume}}

InLoop ==
  {Read, Consume, Try, If(<<Consume>>), If(<<Break>>), If(<<Continue>>),
   If(<<Consume, Break>>)} \cup Defers

LoopBodies ==
  {<<s>> : s \in InLoop} \cup (InLoop \X InLoop)
  \cup {<<Reassign, Consume>>, <<Consume, Reassign>>}

Loops ==
  {<<"loop", b>> : b \in LoopBodies}
  \cup {<<"while", c, b>> : c \in {<<>>, <<Read>>, <<Consume>>}, b \in LoopBodies}

\* Bodies for which the analysis is exact.  Left out are the shapes of which
\* the README says what goes wrong: a reassignment under a short circuit, one
\* that only some passes of a loop run, and uses behind a let-else.
Bodies ==
  (Plain \X Plain \X Plain)
  \cup (Plain \X LetElses \X {Read, Try})
  \cup ({Read, Consume, Reassign} \X Loops \X {Read, Consume, If(<<Read>>)})

-----------------------------------------------------------------------------
(* Exhaustive: an enum with payloads, one with a variant that has no       *)
(* value, a pair, integers, arrays of two, slices, and the empty type.     *)

Bool == <<"bool">>
I64 == <<"int">>
Never == <<"never">>
Opt == <<"enum", "Opt">>
Res == <<"enum", "Res">>
Pair == <<"tuple", <<Bool, Opt>> >>
Arr == <<"array", Bool, 2>>
Vec == <<"slice", Bool>>

EnumVariants ==
  [Opt |-> << <<"None", <<>> >>, <<"Some", <<Bool>> >>, <<"Both", <<Bool, Bool>> >> >>,
   Res |-> << <<"Ok", <<Bool>> >>, <<"Err", <<Never>> >> >>]

Under == <<"_">>
T == <<"lit", TRUE>>
F == <<"lit", FALSE>>
Or(a, b) == <<"or", <<a, b>> >>
None == <<"name", "None">>
Some(p) == <<"variant", "Some", <<p>> >>
Both(p, q) == <<"variant", "Both", <<p, q>> >>
Ok(p) == <<"variant", "Ok", <<p>> >>
Err(p) == <<"variant", "Err", <<p>> >>
Two(p, q) == <<"tuple", <<p, q>> >>
Slice(a, rest, z) == <<"slice", a, rest, z>>

MatchedTypes == {Opt, Res, Pair, I64, Arr, Vec, Never}

ArmPatterns ==
  [t \in MatchedTypes |->
     CASE t = Opt -> {Under, None, <<"name", "x">>, Some(Under), Some(Or(T, F)), Some(T),
                      Or(None, Some(F)), Both(T, Under), Both(Under, F), Both(F, T)}
       [] t = Res -> {Under, Ok(T), Ok(F), Ok(Under), Err(Under)}
       [] t = Pair -> {Two(T, Under), Two(Under, None), Two(Under, Some(T)),
                       Two(F, Or(Some(F), Both(Under, Under))),
                       Two(Under, <<"name", "x">>), Two(Or(F, T), Some(Under))}
       [] t = I64 -> {Under, <<"lit", 0>>, <<"lit", 1>>, Or(<<"lit", 0>>, <<"lit", 1>>)}
       [] t = Arr -> {Slice(<<T>>, TRUE, <<>>), Slice(<<>>, TRUE, <<T>>),
                      Slice(<<F, F>>, FALSE, <<>>), Slice(<<F>>, TRUE, <<F>>),
                      Slice(<<>>, TRUE, <<>>), Under}
       [] t = Vec -> {Slice(<<>>, FALSE, <<>>), Slice(<<T>>, TRUE, <<>>),
                      Slice(<<T>>, FALSE, <<>>), Slice(<<F>>, FALSE, <<>>),
                      Slice(<<T, F>>, FALSE, <<>>), Slice(<<Under>>, TRUE, <<>>), Under}
       [] t = Never -> {Under}]

-----------------------------------------------------------------------------
(* EffectInference: all call graphs of three functions one of which        *)
(* performs an effect and only the first of which may call itself; a trait *)
(* method with an implementation, a default body or neither, and a         *)
(* function, each of which calls at most one other; and function 1 that    *)
(* hands function 3 to function 2, which may call 1 and the `with _`       *)
(* function 4, while 3 calls 2 and may hand it 1 or itself.  The effect t  *)
(* is that of a transparent verb.                                          *)

Unit(sort, pub) == [sort |-> sort, pub |-> pub, of |-> 0, body |-> TRUE]
ImplOf(t) == [Unit("impl", FALSE) EXCEPT !.of = t]
TraitMethod(pub, body) == [Unit("trait", pub) EXCEPT !.body = body]

With(kind, effects) == [kind |-> kind, effects |-> effects]
Undeclared == With("none", {})

\* Functions and methods, with their declarations.
Declared(pub, withs) == {<<Unit("fn", pub), w>> : w \in withs}
Trusted == With("explicit", {"e"})

FirstFunctions ==
  Declared(FALSE, {Undeclared, Trusted, With("poly", {})})
  \cup Declared(TRUE, {Undeclared} \cup [kind : {"explicit", "poly", "named"},
                                         effects : {{}, {"e"}}])

SecondFunctions ==
  Declared(FALSE, {Undeclared, With("poly", {})}) \cup Declared(TRUE, {Trusted})
  \cup {<<Unit("method", TRUE), With("explicit", {})>>}

NoneOfThree == <<{}, {}, {}>>
NoneOfFour == <<{}, {}, {}, {}>>

FunctionPrograms ==
  {[unit |-> <<f[1], g[1], Unit("fn", FALSE)>>, decl |-> <<f[2], g[2], Undeclared>>,
    calls |-> c, handed |-> NoneOfThree, bounds |-> NoneOfThree, own |-> h] :
     f \in FirstFunctions, g \in SecondFunctions,
     h \in {<<{"e"}, {}, {}>>, <<{}, {"e"}, {}>>, <<{}, {}, {"e"}>>},
     c \in {<<c1, c2, c3>> : c1 \in SUBSET (1..3), c2 \in SUBSET {1, 3}, c3 \in {{}, {1}, {2}}}}

TraitPrograms ==
  {[unit |-> <<TraitMethod(pub, body), second[1], third[1]>>,
    decl |-> <<t, second[2], third[2]>>,
    calls |-> <<IF body THEN c[1] ELSE {}, c[2], c[3]>>,
    handed |-> NoneOfThree, bounds |-> <<{}, {}, {1}>>,
    own |-> <<IF body THEN o[1] ELSE {}, o[2], {}>>] :
     pub \in BOOLEAN, body \in BOOLEAN,
     t \in {Undeclared, Trusted, With("poly", {})},
     second \in {<<ImplOf(1), Undeclared>>, <<ImplOf(1), With("explicit", {"d"})>>,
                 <<Unit("method", FALSE), Undeclared>>},
     third \in Declared(FALSE, {Undeclared})
              \cup Declared(TRUE, {Undeclared, Trusted, With("named", {})}),
     c \in {{}, {2}, {3}} \X {{}, {1}, {3}} \X {{}, {1}, {2}},
     o \in {<<{}, {}>>, <<{}, {"d"}>>, <<{"e"}, {}>>, <<{"e"}, {"d"}>>}}

HandingPrograms ==
  {[unit |-> <<f[1], g[1], Unit("fn", FALSE), Unit("fn", FALSE)>>,
    decl |-> <<f[2], g[2], Undeclared, With("poly", {})>>,
    calls |-> <<{2}, c[2], c[3], {}>>, bounds |-> NoneOfFour,
    handed |-> <<{<<2, 3>>}, {}, c[1], {}>>,
    own |-> <<{}, own, {"e"}, {}>>] :
     f \in Declared(FALSE, {Undeclared, With("poly", {})})
           \cup Declared(TRUE, {Undeclared, Trusted, With("poly", {}), With("named", {})}),
     g \in Declared(FALSE, {Undeclared, With("poly", {})}) \cup Declared(TRUE, {With("named", {})}),
     c \in {{}, {<<2, 1>>}, {<<2, 3>>}} \X (SUBSET {1, 4}) \X {{2}, {1, 2}},
     own \in {{}, {"t"}}}

CallPrograms == FunctionPrograms \cup TraitPrograms \cup HandingPrograms

-----------------------------------------------------------------------------
(* ModuleGraph: all import graphs on four modules one of which is a stub,  *)
(* without self-imports, and on three with them; and three modules that    *)
(* re-export names x and y along chains.  Module 3 is the submodule x of   *)
(* module 2.                                                               *)

Import(path, name, as, pub) == [path |-> path, name |-> name, as |-> as, pub |-> pub]

Ordered == [S \in SUBSET (1..4) |-> SetToSortSeq(S, <)]

Importing ==
  [S \in SUBSET (1..4) |->
     [defines |-> {},
      imports |-> [i \in 1..Cardinality(S) |-> Import(Ordered[S][i], "x", "x", FALSE)]]]

GraphProjects ==
  {[modules |-> [m \in 1..4 |-> Importing[g[m]]], sub |-> [p \in {} |-> 0],
    root |-> 3, synthetic |-> {4}] :
     g \in {h \in [1..4 -> SUBSET (1..3)] : h[4] = {}}
           \cup {h \in [1..4 -> SUBSET (1..4)] : \A m \in 1..4 : m \notin h[m]}}

Imported == {"x", "y"}
PublicImports(paths) == {Import(p, n, a, TRUE) : p \in paths, n \in Imported, a \in Imported}
UpToOne(S) == {<<>>} \cup {<<i>> : i \in S}

ReexportProjects ==
  {[modules |-> << [defines |-> {}, imports |-> i1],
                   [defines |-> {"y"}, imports |-> i2],
                   [defines |-> d, imports |-> i3] >>,
    sub |-> [p \in {<<2, "x">>} |-> 3], root |-> 1, synthetic |-> {}] :
     i1 \in UpToOne(PublicImports({2, 3}))
            \cup (PublicImports({2}) \X PublicImports({3}))
            \cup (PublicImports({3}) \X PublicImports({2})),
     i2 \in UpToOne(PublicImports({1, 3})
                    \cup {Import(3, "x", "x", FALSE), Import(0, "x", "x", TRUE)}),
     i3 \in UpToOne(PublicImports({1, 2})),
     d \in {{"x"}, Imported}}

AllProjects == GraphProjects \cup ReexportProjects

-----------------------------------------------------------------------------
(* ExprSyntax: expressions of up to two operators in the three places of a *)
(* statement, with three operators, the outermost binary, behind `let`;    *)
(* with one behind a statement that is a block.                            *)

Tree(op, args) == [op |-> op, args |-> args]
Leaf == Tree("a", <<>>)
BlockLeaf == Tree("{}", <<>>)
Absent == Tree("none", <<>>)

Infix == {"|>", "??", "..", "..=", "or", "and", "==", "!=", "<", "<=", ">", ">=",
          "|", "^", "&", "<<", ">>", "+", "-", "*", "/", "%"}
FewInfix == {"??", "..", "|", "*"}
Wrapping == {"-", "not", "~", "*", "?", "as", ".", "?.", ".()", "if", "closure", "return", "tuple"}
FewWrapping == {"-", "?", "as", "closure"}

\* The trees with an operator over operands ls, rs, and over operands us.
Over(infix, wrapping, ls, rs, us) ==
  {Tree(o, <<x, y>>) : o \in infix, x \in ls, y \in rs}
  \cup {Tree(o, <<x>>) : o \in wrapping, x \in us}
  \cup {Tree(o, <<x, Leaf>>) : o \in {"()", ".()", "[]", "repeat", "tuple", "array"}, x \in us}
  \cup {Tree(o, <<Leaf, x>>) : o \in {"()", "[]", "repeat"}, x \in us}
  \cup {Tree("..", <<x, Absent>>) : x \in us}
  \cup {Tree(o, <<Absent, x>>) : o \in {"..", "..="}, x \in us}

OneOperator(infix, wrapping) ==
  Over(infix, wrapping, {Leaf, BlockLeaf}, {Leaf}, {Leaf, BlockLeaf})
  \cup {Tree("..", <<Absent, Absent>>)}

TwoOperators(infix, wrapping) ==
  LET S == OneOperator(infix, wrapping)
  IN Over(infix, wrapping, S, {Leaf}, S) \cup Over(infix, {}, {Leaf}, S, {})

ThreeOperators ==
  LET S == OneOperator(FewInfix, FewWrapping)
      T2 == TwoOperators(FewInfix, FewWrapping)
      Binary(ls, rs) == {Tree(o, <<x, y>>) : o \in FewInfix, x \in ls, y \in rs}
  IN Binary(T2, {Leaf}) \cup Binary({Leaf}, T2) \cup Binary(S, S)

ParsedBodies ==
  {<<Tree("let", <<t>>)>> :
     t \in ThreeOperators \cup TwoOperators(Infix, {"-", "?", "as", "."})}
  \cup {<<Tree(k, <<t>>)>> :
     k \in {"let", "stmt", "value"},
     t \in TwoOperators(FewInfix, Wrapping) \cup {Leaf, BlockLeaf, Tree("return", <<Absent>>)}}
  \cup {<<Tree("stmt", <<b>>), Tree(k, <<t>>)>> :
     b \in {BlockLeaf, Tree("if", <<Leaf>>)}, k \in {"stmt", "value"},
     t \in OneOperator(FewInfix, Wrapping)}

-----------------------------------------------------------------------------
(* Interpreter: bodies of four statements over two names, for the places   *)
(* of the destructors; functions, loops and deferred code left in every    *)
(* way; par blocks of up to three branches, one of which may be a par      *)
(* block.                                                                  *)

NoTail(body) == [body |-> body, tail |-> <<>>]
Ending(body, e) == [body |-> body, tail |-> <<e>>]
Bind(x, from) == <<"let", x, from>>
Look(x) == <<"do", x, {x}>>
Say(v) == <<"do", ToString(v), {}>>
Raising(cf) == <<"raise", cf>>
InBlock(body) == <<"block", NoTail(body)>>
AtExit(body) == <<"defer", NoTail(body)>>
OnFailure(e, body) == <<"errdefer", e, NoTail(body)>>
Call(q, body) == <<"call", q, NoTail(body)>>
Twice(body) == <<"loop", 2, NoTail(body)>>
Par(branches) == <<"par", branches>>

Scoping ==
  {Bind("x", {}), Bind("x", {"x"}), Bind("y", {"x"}), Look("x"), Look("y"),
   InBlock(<<Look("x")>>), InBlock(<<Bind("x", {"x"}), Look("x")>>),
   AtExit(<<Look("x")>>), OnFailure(TRUE, <<Look("y")>>), Twice(<<Look("x")>>),
   Par(<<Look("x"), InBlock(<<Look("y")>>)>>), Call(FALSE, <<Bind("x", {}), Look("x")>>),
   Raising("err")}

\* Deferred code that reads a name bound again behind it; see the README.
Rebound(body) ==
  \E i, j \in DOMAIN body :
    /\ i < j /\ body[i][1] \in {"defer", "errdefer"} /\ body[j][1] = "let"
    /\ body[j][2] \in Last(body[i]).body[1][3]

DropPrograms ==
  {p \in [body : {<<Bind("x", {}), s1, s2, s3>> : s1 \in Scoping, s2 \in Scoping, s3 \in Scoping},
          tail : {<<>>, <<Look("x")>>}] : ~Rebound(p.body)}

Exits == {"err", "none", "panic", "return"}

FunctionBodies ==
  {<<s, e>> : s \in {AtExit(<<Say(1)>>), OnFailure(FALSE, <<Say(2)>>),
                     OnFailure(TRUE, <<Say(3), Raising("panic"), Say(4)>>)},
              e \in {Raising(cf) : cf \in Exits} \cup {Say(5)}}

Constructs ==
  {InBlock(b) : b \in FunctionBodies}
  \cup {Call(q, b) : q \in BOOLEAN, b \in FunctionBodies}
  \cup {Twice(<<Say(6), s, Say(7)>>) :
          s \in {Raising("break"), Raising("continue"), Raising("err"), Say(8),
                 InBlock(<<AtExit(<<Say(9)>>), Raising("break")>>)}}

ExitPrograms ==
  {Ending(<<AtExit(<<Say(10)>>), OnFailure(e, <<Say(11)>>), s1,
            OnFailure(TRUE, <<Say(12)>>), AtExit(<<s1, Say(13)>>), s2>>, Say(14)) :
     e \in BOOLEAN, s1 \in Constructs, s2 \in Constructs}

ParBranches ==
  {Say(1), Raising("err"), Raising("panic"), Raising("return"),
   InBlock(<<AtExit(<<Say(2)>>), Say(3), Raising("none")>>),
   <<"block", Ending(<<OnFailure(FALSE, <<Say(4)>>)>>, Call(FALSE, <<Say(5), Raising("err")>>))>>,
   InBlock(<<Call(TRUE, <<Say(6), Raising("err")>>), Say(7)>>),
   Twice(<<Say(8), Raising("break")>>),
   Par(<<Say(9), InBlock(<<Say(10), Say(11)>>)>>),
   Par(<<Raising("err"), InBlock(<<Say(12)>>)>>)}

ParPrograms ==
  {NoTail(<<OnFailure(TRUE, <<Say(20)>>), Par(<<b1, b2>>), Say(21)>>) :
     b1 \in ParBranches, b2 \in ParBranches \cup {InBlock(<<Say(13), Say(14)>>)}}
  \cup {NoTail(<<Par(<<b1, b2, b3>>), Say(21)>>) :
     b1 \in {Say(15), Raising("err")}, b2 \in ParBranches, b3 \in {Say(16), Raising("panic")}}
  \cup {NoTail(<<Par(b)>>) : b \in {<<>>, <<Say(1)>>, <<Bind("x", {}), Say(2)>>}}

RunPrograms == DropPrograms \cup ExitPrograms \cup ParPrograms

\* The blocks in those of S.
Inside(S) ==
  LET blocks(s) ==
        CASE s[1] \in {"defer", "block"} -> {s[2]}
          [] s[1] \in {"errdefer", "call", "loop"} -> {s[3]}
          [] s[1] = "par" -> {NoTail(s[2])}
          [] OTHER -> {}
  IN UNION {blocks(s) : s \in UNION {ToSet(B.body \o B.tail) : B \in S}}

\* A block is at most three deep.
RunBlocks ==
  LET inner == Inside(RunPrograms)
      innermost == Inside(inner)
  IN RunPrograms \cup inner \cup innermost \cup Inside(innermost)

-----------------------------------------------------------------------------
(* ScopeCleanup: two of the statements below behind the lets of a string x *)
(* and a vector c.  The README names the shapes that are left out.         *)

Value(kind) == [kind |-> kind]
Named(x) == [kind |-> "name", name |-> x]
FString(x) == [kind |-> "fstring", name |-> x]
Fresh == Value("call")
Nothing == Value("none")

Owner(x, e) == [kind |-> "let", name |-> x, value |-> e]
Store(x, e) == [kind |-> "assign", name |-> x, value |-> e]
Give(x) == [kind |-> "push", name |-> "c", value |-> Named(x)]
Touch(x) == [kind |-> "use", name |-> x]
Leaving(e) == [kind |-> "return", value |-> e]
Perhaps(body) == [kind |-> "if", body |-> body, else |-> <<>>]
Repeat(body) == [kind |-> "loop", body |-> body]
Arm(x, body, e) == [binds |-> x, body |-> body, tail |-> e]
Choice(arms) == [kind |-> "match", arms |-> arms]
Matching(some, none) ==
  [kind |-> "do", value |-> Choice(<<Arm("v", some, Nothing), Arm("none", none, Nothing)>>)]
Question == Value("try")

\* What leaves x owned, or not, as it was.
CleanupUnits ==
  {<<Touch("x")>>, <<Question>>, <<Store("x", FString("x"))>>,
   <<Owner("y", FString("x")), Question>>, <<Owner("y", Value("literal"))>>,
   <<Owner("y", Named("x")), Store("x", Fresh), Touch("y")>>,
   <<Give("x"), Store("x", Fresh)>>,
   <<Perhaps(<<Give("x")>>), Store("x", FString("none"))>>,
   <<Perhaps(<<Give("x"), Leaving(Fresh)>>)>>,
   <<[kind |-> "if", body |-> <<Leaving(Nothing)>>, else |-> <<Touch("x")>>]>>,
   <<Owner("x", FString("x"))>>}
  \cup
  {<<Repeat(b)>> :
     b \in {<<Touch("x")>>, <<Owner("y", Fresh), Question, Touch("y")>>,
            <<Owner("y", Fresh), Give("y")>>, <<Store("x", FString("x"))>>,
            <<Perhaps(<<[kind |-> "break"]>>), Owner("y", FString("x")), Give("y")>>,
            <<Perhaps(<<[kind |-> "continue"]>>), Owner("y", Fresh)>>,
            <<Owner("y", Fresh), Perhaps(<<Leaving(Value("literal"))>>)>>,
            <<Owner("y", Named("x")), Store("x", Fresh)>>,
            <<Repeat(<<Owner("z", Fresh)>>), Owner("y", FString("none"))>>,
            <<Matching(<<Give("v")>>, <<[kind |-> "break"]>>), Question>>}}
  \cup
  {<<Matching(some, none)>> :
     some \in {<<Touch("v")>>, <<Give("v")>>, <<Question>>, <<Owner("y", Named("v")), Question>>},
     none \in {<<>>, <<Leaving(Nothing)>>}}
  \cup
  {<<Owner("y", Choice(<<Arm("v", <<>>, Named("v")), Arm("none", b, e)>>))>> :
     <<b, e>> \in {<<<<>>, Fresh>>, <<<<>>, Value("literal")>>, <<<<Question>>, Fresh>>,
                   <<<<Leaving(Fresh)>>, Nothing>>}}

CleanupFunctions ==
  {[body |-> <<Owner("c", Fresh), Owner("x", end[1])>> \o u1 \o u2, tail |-> end[2]] :
     end \in {<<Fresh, FString("x")>>, <<FString("none"), Named("x")>>},
     u1 \in CleanupUnits, u2 \in CleanupUnits}
=============================================================================
