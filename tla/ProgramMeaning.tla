--------------------------- MODULE ProgramMeaning ---------------------------
(***************************************************************************)
(* What the interpreter's programs mean, and where the destructors of      *)
(* their bindings run (interpreter/exec.rs).                               *)
(***************************************************************************)
EXTENDS Interpreter

----------------------------------------------------------------------------
(* compute_block_last_use: after which statement a binding is dropped.     *)

Binds(s) == IF s[1] = "let" THEN {s[2]} ELSE {}

\* collect_free_idents: the names of outer scopes that a statement reads.
RECURSIVE Free(_), FreeIn(_)
Free(s) ==
  CASE s[1] \in {"let", "do"} -> s[3]
    [] s[1] \in {"defer", "block"} -> FreeIn(Code(s[2]))
    [] s[1] \in {"errdefer", "loop"} -> FreeIn(Code(s[3]))
    [] s[1] = "par" -> FreeIn(s[2])
    [] OTHER -> {}
FreeIn(code) ==
  IF code = <<>> THEN {} ELSE Free(Head(code)) \cup (FreeIn(Tail(code)) \ Binds(Head(code)))

\* Mutant of LastRead: deferred code counts as read where it is registered.
LastReadOfDeferred(B, x) ==
  LET Reading == {i \in DOMAIN B.body : x \in Free(B.body[i])}
      Binding == {i \in DOMAIN B.body : x \in Binds(B.body[i])}
  IN IF x \in FreeIn(B.tail) THEN Len(B.body) + 1
     ELSE IF Reading # {} THEN Max(Reading) ELSE Min(Binding)

\* The index of the statement of B after which x is dropped, or one more
\* than there are: a name read by the final expression or by deferred code
\* is dropped when the scope is left.
LastRead(B, x) ==
  LET Reading == {i \in DOMAIN B.body : x \in Free(B.body[i])}
      Binding == {i \in DOMAIN B.body : x \in Binds(B.body[i])}
  IN IF x \in FreeIn(B.tail) \/ \E i \in Reading : Deferred(B.body[i])
     THEN Len(B.body) + 1
     ELSE IF Reading # {} THEN Max(Reading) ELSE Min(Binding)

----------------------------------------------------------------------------
(* What a program means: the sequential reading of design.md's rules for   *)
(* defer and errdefer, with a par block as a block.                        *)

RECURSIVE Meaning(_), Scope(_, _, _, _), Rounds(_, _)

Ends(out, cf) == [out |-> out, cf |-> cf]
Block(B) == Scope(Code(B), <<>>, <<>>, <<>>)

\* The code of a scope that has printed out, with blocks ds deferred and
\* errdefers es, latest first.
Scope(code, out, ds, es) ==
  LET s == Head(code)
      m == IF code = <<>> THEN Ends(<<>>, "ok") ELSE Meaning(s)
      Binding(e) == e[2] /\ m.cf # "err"
      due == IF m.cf \in Failures
             THEN SelectSeq(es, LAMBDA e : ~Binding(e)) \o ds ELSE ds
      Cleaned(o, d) == o \o Block(Last(d)).out
  IN IF code = <<>> \/ m.cf # "ok" THEN Ends(FoldLeft(Cleaned, out \o m.out, due), m.cf)
     ELSE Scope(Tail(code), out \o m.out,
                IF s[1] = "defer" THEN <<s>> \o ds ELSE ds,
                IF s[1] = "errdefer" THEN <<s>> \o es ELSE es)

Rounds(n, B) ==
  LET m == Block(B)
      more == Rounds(n - 1, B)
  IN IF n = 0 THEN Ends(<<>>, "ok")
     ELSE IF m.cf \in {"ok", "continue"} THEN Ends(m.out \o more.out, more.cf)
     ELSE IF m.cf = "break" THEN Ends(m.out, "ok")
     ELSE m

Meaning(s) ==
  CASE s[1] = "do" -> Ends(<<s[2]>>, "ok")
    [] s[1] = "raise" -> Ends(<<>>, s[2])
    [] s[1] = "block" -> Block(s[2])
    [] s[1] = "par" -> Block([body |-> s[2], tail |-> <<>>])
    [] s[1] = "loop" -> Rounds(s[2], s[3])
    [] s[1] = "call" ->
         LET m == Block(s[3])
         IN IF m.cf = "return" \/ (m.cf \in {"err", "none"} /\ ~s[2])
            THEN Ends(m.out, "ok") ELSE m
    [] OTHER -> Ends(<<>>, "ok")

----------------------------------------------------------------------------

\* The value of x in the scopes of t is still there: it is not dropped.
RECURSIVE Alive(_, _, _)
Alive(t, depth, x) ==
  IF depth = 0 THEN t = <<>> \/ Alive(Front(t), Len(threads[Front(t)].stack), x)
  ELSE LET f == threads[t].stack[depth]
       IN IF \E i \in 1..(f.at - 1) : x \in Binds(Code(f.block)[i])
          THEN <<"drop", x>> \in ToSet(f.cleanup)
          ELSE f.kind \in {"call", "call?"} \/ Alive(t, depth - 1, x)

\* No statement reads a binding whose destructor has run, wherever
\* compute_block_last_use places the destructors: not in nested blocks, not in
\* branches, not in deferred code.
NoUseAfterDrop ==
  \A t \in DOMAIN threads :
    (Live(t) /\ ~AtEnd(Top(t)) /\ AtWork(Top(t))[1] \in {"let", "do"}) =>
      \A x \in AtWork(Top(t))[3] : Alive(t, Len(threads[t].stack), x)

\* A program none of whose branches fails prints and ends as if it had run
\* sequentially, whatever the order its threads ran in, with its deferred
\* code run once, in reverse order, on every way out.  A par block ends well
\* exactly if all its statements do on their own, as long as no error is
\* handled inside a branch.
RunsAsWritten ==
  /\ (threads[<<>>].result # "running" /\ disturbed = {}) =>
       Ends(threads[<<>>].out, threads[<<>>].result) = Block(main)
  /\ \A t \in DOMAIN threads :
       (Joinable(t) /\ "handled" \notin disturbed) =>
         (JoinResult(t) = "ok" <=> \A s \in ToSet(AtWork(Top(t))[2]) : Meaning(s).cf = "ok")
=============================================================================
