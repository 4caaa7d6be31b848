--------------------------- MODULE MoveAnalysis ---------------------------
(***************************************************************************)
(* How the compiler decides that a binding may be used after it was moved: *)
(* the body is lowered to a control-flow graph (cfg.rs), its dominators    *)
(* are computed by passes over the blocks in reverse postorder             *)
(* (dominator.rs), and three predicates over the binding's use sites       *)
(* (rc_predicate.rs) sentence it to reference counting, to an error, or to *)
(* nothing at all.                                                         *)
(*                                                                         *)
(* The predicates look at one binding at a time, so a body is what it does *)
(* to one of them.  A block is a sequence of statements, a statement a     *)
(* tuple headed by its kind:                                               *)
(*   <<"use", k>>           a read, a consume or a reassignment            *)
(*   <<"block", B>>         a nested block                                 *)
(*   <<"and", B>>           the right operand of &&, || or ??              *)
(*   <<"branch", As, open>> if, if let, match: one block per arm; open when *)
(*                          no arm may be taken (an if without else)       *)
(*   <<"while", C, B>>      while, while let; for, with C empty            *)
(*   <<"loop", B>>  <<"break">>  <<"continue">>                            *)
(*   <<"return", w>>        of an Ok or a plain value, w = "ok", or of an   *)
(*                          Err or None, w = "err": lowered alike          *)
(*   <<"try">>              the error edge of `?`                          *)
(*   <<"letelse", B>>       let .. else B                                  *)
(*   <<"closure", B>>  <<"sink", B>>  a closure body, an owned argument of *)
(*                          a method that stores it                        *)
(*   <<"defer", B>>  <<"errdefer", B>>                                     *)
(***************************************************************************)
EXTENDS Integers, FiniteSets, SequencesExt, FiniteSetsExt

CONSTANT Programs

VARIABLES
  prog,  \* the body under analysis
  cfg,   \* its graph: uses and successors of each block
  idom,  \* immediate dominators, as far as the passes have come
  stage

vars == <<prog, cfg, idom, stage>>

Entry == 1
Exit == 2
Undefined == 0

-----------------------------------------------------------------------------
(* Lowering.  The builder's state: the blocks so far, the current one, and *)
(* the defers registered in each open scope.                               *)

Empty == [uses |-> << <<>>, <<>> >>, succ |-> << <<>>, <<>> >>,
          cur |-> Entry, frames |-> <<>>]

NewBlock(g) ==
  [g EXCEPT !.uses = Append(@, <<>>), !.succ = Append(@, <<>>)]

Edge(g, a, b) ==
  IF Contains(g.succ[a], b) THEN g ELSE [g EXCEPT !.succ[a] = Append(@, b)]

At(g, b) == [g EXCEPT !.cur = b]

\* A new block behind block a, where lowering goes on.
Enter(g, a) ==
  LET n == Len(g.uses) + 1 IN At(Edge(NewBlock(g), a, n), n)

\* Nothing follows here: what does is unreachable.
Stop(g) == At(NewBlock(g), Len(g.uses) + 1)

RECURSIVE LowerBlock(_, _, _), LowerStmt(_, _, _)

\* Bodies of scope f's defers, lowered again at this exit, last one first;
\* errdefers fire on error exits only, before the defers.
Cleanup(g, f, loops, err) ==
  LET items == Reverse(g.frames[f])
      fired == SelectSeq(items, LAMBDA d : err /\ d[1] = "errdefer")
               \o SelectSeq(items, LAMBDA d : d[1] = "defer")
  IN FoldLeft(LAMBDA acc, d : LowerBlock(d[2], Enter(acc, acc.cur), loops),
              g, fired)

\* Mutant: an exit runs the defers of the innermost scope only.
UnwindInnermost(g, depth, loops, err) ==
  IF Len(g.frames) = depth THEN g ELSE Cleanup(g, Len(g.frames), loops, err)

\* All scopes inside `depth`, innermost first.
Unwind(g, depth, loops, err) ==
  FoldLeft(LAMBDA acc, i : Cleanup(acc, Len(g.frames) + 1 - i, loops, err),
           g, [i \in 1..(Len(g.frames) - depth) |-> i])

LowerBlock(b, g, loops) ==
  LET body == FoldLeft(LAMBDA acc, s : LowerStmt(s, acc, loops),
                       [g EXCEPT !.frames = Append(@, <<>>)], b)
      done == Cleanup(body, Len(body.frames), loops, FALSE)
  IN [done EXCEPT !.frames = Front(@)]

\* A block that branches off and is not joined again.
Sibling(b, g, loops) ==
  LET side == LowerBlock(b, Enter(g, g.cur), loops) IN Enter(side, g.cur)

\* A loop whose header is h and whose body starts at block b.
LowerLoop(body, g, h, b, merge, loops) ==
  LET frame == [brk |-> merge, cont |-> h, depth |-> Len(g.frames)]
      done == LowerBlock(body, At(g, b), Append(loops, frame))
  IN At(Edge(done, done.cur, h), merge)

LowerStmt(s, g, loops) ==
  LET c == g.cur
      n == Len(g.uses) + 1
  IN CASE s[1] = "use" -> [g EXCEPT !.uses[c] = Append(@, s[2])]
       [] s[1] \in {"block", "and"} -> LowerBlock(s[2], g, loops)
       [] s[1] \in {"closure", "sink"} -> Sibling(s[2], g, loops)
       [] s[1] = "branch" ->
            LET arm(acc, a) ==
                  LET e == LowerBlock(a, Enter(acc, c), loops) IN Edge(e, e.cur, n)
                arms == FoldLeft(arm, NewBlock(g), s[2])
            IN At(IF s[3] THEN Edge(arms, c, n) ELSE arms, n)
       [] s[1] = "while" ->
            LET head == LowerBlock(s[2], Enter(g, c), loops)
                body == Enter(head, head.cur)
                merge == Enter(body, head.cur)
            IN LowerLoop(s[3], merge, n, body.cur, merge.cur, loops)
       [] s[1] = "loop" ->
            LowerLoop(s[2], NewBlock(Enter(g, c)), n, n, n + 1, loops)
       [] s[1] = "break" ->
            LET u == Unwind(g, Last(loops).depth, loops, FALSE)
            IN Stop(Edge(u, u.cur, Last(loops).brk))
       [] s[1] = "continue" ->
            LET u == Unwind(g, Last(loops).depth, loops, FALSE)
            IN Stop(Edge(u, u.cur, Last(loops).cont))
       [] s[1] = "return" ->
            LET u == Unwind(g, 0, loops, TRUE) IN Stop(Edge(u, u.cur, Exit))
       [] s[1] = "try" ->
            LET u == Unwind(g, 0, loops, TRUE) IN Enter(Edge(u, u.cur, Exit), c)
       [] s[1] = "letelse" -> At(LowerBlock(s[2], Enter(g, c), loops), c)
       [] s[1] \in {"defer", "errdefer"} ->
            [g EXCEPT !.frames[Len(g.frames)] = Append(@, s)]

\* Mutant: the exit block gets a number but is never allocated.
LowerWithoutExit(p) ==
  LET g == LowerBlock(p, Empty, <<>>)
      done == Edge(g, g.cur, Len(g.uses) + 1)
  IN [uses |-> done.uses, succ |-> done.succ]

Lower(p) ==
  LET g == LowerBlock(p, Empty, <<>>)
      done == Edge(g, g.cur, Exit)
  IN [uses |-> done.uses, succ |-> done.succ]
-----------------------------------------------------------------------------
(* Dominators, after Cooper, Harvey and Kennedy. *)

Blocks == DOMAIN cfg.succ

Predecessors(b) == {p \in Blocks : Contains(cfg.succ[p], b)}

RECURSIVE Visit(_, _)
\* acc: the blocks seen, and the postorder of those finished.
Visit(b, acc) ==
  IF b \in acc.seen THEN acc
  ELSE LET below == FoldLeft(LAMBDA a, s : Visit(s, a),
                             [acc EXCEPT !.seen = @ \cup {b}], cfg.succ[b])
       IN [below EXCEPT !.order = Append(@, b)]

Rpo == Reverse(Visit(Entry, [seen |-> {}, order |-> <<>>]).order)

RECURSIVE Intersect(_, _, _, _)
\* Both fingers walk up the tree until they meet; pos is the place in Rpo.
Intersect(a, b, tree, pos) ==
  CASE pos[a] > pos[b] -> Intersect(tree[a], b, tree, pos)
    [] pos[b] > pos[a] -> Intersect(a, tree[b], tree, pos)
    [] OTHER -> a

\* Mutant: one predecessor stands for all.
PassOfFirst(order, tree0) ==
  LET visit(tree, b) ==
        LET done == {p \in Predecessors(b) : tree[p] # Undefined}
        IN IF b = Entry \/ done = {} THEN tree ELSE [tree EXCEPT ![b] = Min(done)]
  IN FoldLeft(visit, tree0, order)

\* One pass over the reachable blocks.
Pass(order, tree0) ==
  LET pos == [b \in Blocks |->
                IF Contains(order, b) THEN CHOOSE i \in DOMAIN order : order[i] = b
                ELSE Undefined]
      visit(tree, b) ==
        LET done == {p \in Predecessors(b) : tree[p] # Undefined}
            up(d, p) == Intersect(p, d, tree, pos)
        IN IF b = Entry \/ done = {} THEN tree
           ELSE [tree EXCEPT ![b] =
                   FoldLeft(up, Min(done), SetToSortSeq(done, <))]
  IN FoldLeft(visit, tree0, order)

RECURSIVE Dominates(_, _)
Dominates(a, b) ==
  a = b \/ (b # Entry /\ idom[b] # Undefined /\ Dominates(a, idom[b]))
-----------------------------------------------------------------------------
(* The predicates.  A site is <<block, index>>. *)

Sites == UNION {{<<b, i>> : i \in DOMAIN cfg.uses[b]} : b \in Blocks}

Of(kind) == {s \in Sites : cfg.uses[s[1]][s[2]] = kind}

Precedes(s, t) ==
  IF s[1] = t[1] THEN s[2] < t[2] ELSE Dominates(s[1], t[1])

ReassignKills(c, u) ==
  \E r \in Of("Reassign") : Precedes(c, r) /\ Precedes(r, u)

\* A consume and another use neither of which dominates the other.
RcCandidate ==
  \E c \in Of("Consume"), u \in Of("Consume") \cup Of("Read") :
    /\ ~Dominates(c[1], u[1]) /\ ~Dominates(u[1], c[1])
    /\ ~ReassignKills(c, u)

\* Mutant: a reassignment in between is forgotten.
UamCandidateUnkilled ==
  \E c \in Of("Consume"), u \in Of("Consume") \cup Of("Read") :
    c # u /\ Precedes(c, u)

\* A use behind a consume.
UamCandidate ==
  \E c \in Of("Consume"), u \in Of("Consume") \cup Of("Read") :
    c # u /\ Precedes(c, u) /\ ~ReassignKills(c, u)

\* The blocks that reach b without passing through v.
RECURSIVE Backwards(_, _)
Backwards(seen, v) ==
  LET more == seen \cup UNION {Predecessors(n) : n \in seen \ {v}}
  IN IF more = seen THEN seen ELSE Backwards(more, v)

LoopBlocks ==
  UNION {Backwards({e[1], e[2]}, e[2]) :
           e \in {x \in Blocks \X Blocks :
                    Contains(cfg.succ[x[1]], x[2]) /\ Dominates(x[2], x[1])}}

\* A consume in a loop, unless a reassignment is in a loop, too.
LoopOfConsume ==
  LET inLoop(kind) == \E s \in Of(kind) : s[1] \in LoopBlocks
  IN inLoop("Consume") /\ ~inLoop("Reassign")

RcFallback == RcCandidate \/ (LoopOfConsume /\ ~UamCandidate)
-----------------------------------------------------------------------------
Init ==
  /\ prog \in Programs
  /\ cfg = [uses |-> <<>>, succ |-> <<>>]
  /\ idom = <<>>
  /\ stage = "parsed"

BuildCfg ==
  /\ stage = "parsed"
  /\ cfg' = Lower(prog)
  /\ idom' = [b \in DOMAIN cfg'.succ |-> IF b = Entry THEN Entry ELSE Undefined]
  /\ stage' = "lowered"
  /\ UNCHANGED prog

\* The loop of compute_dominators: passes until one changes nothing.
DominatorPass ==
  /\ stage = "lowered"
  /\ idom' = Pass(Rpo, idom)
  /\ stage' = IF idom' = idom THEN "decided" ELSE "lowered"
  /\ UNCHANGED <<prog, cfg>>

Next == BuildCfg \/ DominatorPass

Spec == Init /\ [][Next]_vars
-----------------------------------------------------------------------------
(* The reference: what a body does to the binding when it runs.  A set of  *)
(* BOOLEANs says whether it may have been moved; the result of a block has *)
(* one such set per way out, and whether a moved value may be used.        *)

Ways == {"next", "break", "continue", "ok", "err"}

Outcome(way, m) ==
  [out |-> [w \in Ways |-> IF w = way THEN m ELSE {}], bad |-> FALSE]

Either(r1, r2) ==
  [out |-> [w \in Ways |-> r1.out[w] \cup r2.out[w]], bad |-> r1.bad \/ r2.bad]

\* r1's normal way out replaced by r2, which starts there.
Then(r1, r2) == Either([r1 EXCEPT !.out["next"] = {}], r2)

RECURSIVE RunBlock(_, _), RunStmt(_, _), RunSeq(_, _, _), Iterate(_, _, _)

\* The defers of a scope that is left by way w.
RunDefers(defers, m, w) ==
  LET items == Reverse(defers)
      fired == SelectSeq(items, LAMBDA d : w = "err" /\ d[1] = "errdefer")
               \o SelectSeq(items, LAMBDA d : d[1] = "defer")
      run(acc, d) ==
        LET r == RunBlock(d[2], acc.m)
        IN [m |-> r.out["next"], bad |-> acc.bad \/ r.bad]
  IN IF m = {} THEN [m |-> {}, bad |-> FALSE]
     ELSE FoldLeft(run, [m |-> m, bad |-> FALSE], fired)

RunSeq(ss, m, defers) ==
  LET leave(r, ws) ==
        LET left == [w \in ws |-> RunDefers(defers, r.out[w], w)]
        IN [out |-> [w \in Ways |-> IF w \in ws THEN left[w].m ELSE r.out[w]],
            bad |-> r.bad \/ \E w \in ws : left[w].bad]
  IN CASE m = {} -> Outcome("next", {})
       [] m # {} /\ ss = <<>> -> leave(Outcome("next", m), {"next"})
       [] m # {} /\ ss # <<>> /\ Head(ss)[1] \in {"defer", "errdefer"} ->
            RunSeq(Tail(ss), m, Append(defers, Head(ss)))
       [] OTHER ->
            LET r == leave(RunStmt(Head(ss), m), Ways \ {"next"})
            IN Then(r, RunSeq(Tail(ss), r.out["next"], defers))

RunBlock(b, m) == RunSeq(b, m, <<>>)

\* The passes of a loop from the states m of its header: the condition, the
\* body, and back.
Iterate(cond, body, m) ==
  LET test == RunBlock(cond, m)
      pass == RunBlock(body, test.out["next"])
      back == m \cup pass.out["next"] \cup pass.out["continue"]
  IN IF back # m THEN Iterate(cond, body, back)
     ELSE [test |-> test, pass |-> pass]

RunStmt(s, m) ==
  CASE s = <<"use", "Read">> -> [Outcome("next", m) EXCEPT !.bad = TRUE \in m]
    [] s = <<"use", "Consume">> -> [Outcome("next", {TRUE}) EXCEPT !.bad = TRUE \in m]
    [] s = <<"use", "Reassign">> -> Outcome("next", {FALSE})
    [] s[1] \in {"block", "sink"} -> RunBlock(s[2], m)
    [] s[1] \in {"and", "closure"} -> Either(Outcome("next", m), RunBlock(s[2], m))
    [] s[1] = "branch" ->
         FoldLeft(LAMBDA acc, a : Either(acc, RunBlock(a, m)),
                  Outcome("next", IF s[3] THEN m ELSE {}), s[2])
    [] s[1] \in {"while", "loop"} ->
         LET l == IF s[1] = "while" THEN Iterate(s[2], s[3], m)
                  ELSE Iterate(<<>>, s[2], m)
             end == (IF s[1] = "while" THEN l.test.out["next"] ELSE {})
                    \cup l.pass.out["break"]
         IN [out |-> [w \in Ways |->
                        CASE w = "next" -> end
                          [] w \in {"break", "continue"} -> {}
                          [] OTHER -> l.pass.out[w] \cup l.test.out[w]],
             bad |-> l.pass.bad \/ l.test.bad]
    [] s[1] \in {"break", "continue"} -> Outcome(s[1], m)
    [] s[1] = "return" -> Outcome(s[2], m)
    [] s[1] = "try" -> Either(Outcome("next", m), Outcome("err", m))
    [] s[1] = "letelse" -> Either(Outcome("next", m), RunBlock(s[2], m))

MovedUse(p) == RunBlock(p, {FALSE}).bad
-----------------------------------------------------------------------------
(* Properties. *)

\* Blocks reached from the entry without passing through block a.
RECURSIVE Forwards(_, _)
Forwards(seen, a) ==
  LET more == seen \cup ((UNION {ToSet(cfg.succ[b]) : b \in seen}) \ {a})
  IN IF more = seen THEN seen ELSE Forwards(more, a)

Reached(a) == IF a = Entry THEN {} ELSE Forwards({Entry}, a)

\* The tree the passes end with is the dominance relation: a dominates b
\* iff every path from the entry to b passes through a.
DominatorsExact ==
  stage = "decided" =>
    \A a \in Blocks, b \in Forwards({Entry}, Undefined) :
      Dominates(a, b) <=> a = b \/ b \notin Reached(a)

\* A body that may use the binding after it was moved is not let through in
\* silence.
MoveSound == stage = "decided" /\ MovedUse(prog) => RcFallback \/ UamCandidate

\* The statements of a block, at any depth.
RECURSIVE Within(_)
Within(b) ==
  LET blocks(s) == CASE s[1] \in {"use", "break", "continue", "return", "try"} -> {}
                     [] s[1] = "branch" -> ToSet(s[2])
                     [] s[1] = "while" -> {s[2], s[3]}
                     [] OTHER -> {s[2]}
  IN ToSet(b) \cup UNION {UNION {Within(c) : c \in blocks(s)} : s \in ToSet(b)}

\* The lowering lets an errdefer fire at a return of Ok, too.
ErrdeferMeetsOk(p) ==
  /\ \E s \in Within(p) : s[1] = "errdefer"
  /\ <<"return", "ok">> \in Within(p)

\* A use-after-move error is reported only of a body that may do it.  Left out
\* are bodies with both an errdefer and a return of Ok: cfg.rs says that the
\* reads it places there cannot manifest as such an error, which they can.
UamIsReal ==
  stage = "decided" /\ UamCandidate /\ ~ErrdeferMeetsOk(prog) => MovedUse(prog)
=============================================================================
