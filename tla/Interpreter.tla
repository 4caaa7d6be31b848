----------------------------- MODULE Interpreter -----------------------------
(***************************************************************************)
(* How the tree-walking interpreter runs blocks (src/src/interpreter/):    *)
(* statements, the clean-up of a scope, control flow through calls and     *)
(* loops, and par blocks, whose statements are branches on threads of      *)
(* their own and end early when a sibling fails.                           *)
(*                                                                         *)
(* A block is [body, tail]: its statements and at most one final           *)
(* expression.  A statement or an expression is one of                     *)
(*   <<"let", x, R>>      bind x to a value computed from the names R      *)
(*   <<"do", v, R>>       read the names R and print v                     *)
(*   <<"raise", cf>>      return, ?, break, continue or a runtime error    *)
(*   <<"defer", B>>, <<"errdefer", with, B>>   with: does it bind e        *)
(*   <<"block", B>>       any construct that runs the block B once         *)
(*   <<"call", q, B>>     a call of a function with body B, q: under a `?` *)
(*   <<"loop", n, B>>     a loop of n rounds                               *)
(*   <<"par", S>>         a par block of the statements S                  *)
(* The ways out of a block are "ok", "return" (of a value that is neither  *)
(* Err nor None), "err", "none", "break", "continue", "panic" and          *)
(* "cancelled".                                                            *)
(*                                                                         *)
(* A thread is named by its path: <<>> for the main one, p \o <<i>> for    *)
(* the branch i of the par block at which p waits.                         *)
(***************************************************************************)
EXTENDS Integers, FiniteSets, SequencesExt, Digraphs

CONSTANTS
  MainBodies,    \* the bodies of main to draw from
  MainBlocks,    \* the blocks in them, at any depth, and they themselves
  LastUse(_, _)  \* LastUse(B, x): the index of the statement of block B after
                 \* which x is dropped, or more, for the end of the scope

VARIABLES
  main,      \* the body of main
  threads,   \* path -> [stack, out, result, cancel]; see Thread
  disturbed, \* history: has a branch failed ("cut"), or has an error that
             \* raised the cancel flag been handled inside its branch ("handled")
  handled    \* history: the branches of the par blocks at work inside which
             \* such an error was handled

interpreterVars == <<main, threads, disturbed, handled>>

Code(B) == B.body \o B.tail

\* The statements of the program, and the blocks directly in one of them.
MainStatements == UNION {ToSet(Code(B)) : B \in MainBlocks}
BlocksIn(s) ==
  CASE s[1] \in {"block", "defer"} -> {s[2]}
    [] s[1] \in {"call", "loop", "errdefer"} -> {s[3]}
    [] s[1] = "par" -> {[body |-> s[2], tail |-> <<>>]}
    [] OTHER -> {}

\* No statement is cancelled but by a sibling branch.
ASSUME StatementsAssumption ==
  /\ MainBodies \cup UNION {BlocksIn(s) : s \in MainStatements} \subseteq MainBlocks
  /\ \A B \in MainBlocks : B.body \in Seq(ToSet(B.body)) /\ B.tail \in Seq(ToSet(B.tail))
  /\ \A s \in MainStatements :
       /\ s[1] = "raise" => s[2] \in {"return", "err", "none", "break", "continue", "panic"}
       /\ s[1] = "loop" => s[2] \in Nat

\* ExitPath::is_error.
Failures == {"err", "none", "panic", "cancelled"}

Deferred(s) == s[1] \in {"defer", "errdefer"}

----------------------------------------------------------------------------
(* Frames: one activation of eval_block_inner, or the one statement of a   *)
(* branch.                                                                 *)
(*   at       index of the statement at work in Code(block)                *)
(*   checked  has the cancel flag been read before it                      *)
(*   cleanup  the stack of <<"drop", x>> and <<"defer", B>>                *)
(*   exit     "running", or how the block is left, while it cleans up      *)
(*   rounds   of a loop's body: how many rounds follow                     *)

Frame(kind, B, rounds) ==
  [kind |-> kind, block |-> B, at |-> 1, checked |-> FALSE, cleanup |-> <<>>,
   errdefers |-> <<>>, exit |-> "running", rounds |-> rounds]

Thread == [stack |-> <<>>, out |-> <<>>, result |-> "new", cancel |-> FALSE]
MainThread(B) ==
  [stack |-> <<Frame("block", B, 0)>>, out |-> <<>>, result |-> "running", cancel |-> FALSE]

InterpreterInit ==
  /\ main \in MainBodies
  /\ threads = [p \in {<<>>} |-> MainThread(main)]
  /\ disturbed = {} /\ handled = {}

Top(t) == Last(threads[t].stack)
Live(t) == threads[t].result = "running" /\ Top(t).exit = "running"
AtEnd(f) == f.at > Len(Code(f.block))
AtWork(f) == Code(f.block)[f.at]

\* The par block at which t waits, if it does.
Branches(t) == {p \in DOMAIN threads : Len(p) = Len(t) + 1 /\ Front(p) = t}

\* The next step of t is to evaluate a statement of this kind.
Evaluates(t, kinds) ==
  /\ Live(t) /\ ~AtEnd(Top(t)) /\ Branches(t) = {}
  /\ AtWork(Top(t))[1] \in kinds
  /\ t = <<>> \/ Top(t).kind = "branch" \/ Top(t).checked

Replaced(t, f) == [threads EXCEPT ![t].stack = Append(Front(@), f)]
Pushed(t, f) == [threads EXCEPT ![t].stack = Append(@, f)]

\* The clean-up stack after a statement, and without the drops that are due.
PushDrops(s, cleanup) ==
  IF s[1] = "let" THEN Append(cleanup, <<"drop", s[2]>>) ELSE cleanup
FireDueDrops(B, i, cleanup) ==
  LET kept == {k \in DOMAIN cleanup :
                 ~ (cleanup[k][1] = "drop" /\ LastUse(B, cleanup[k][2]) = i)}
  IN [k \in 1 .. Cardinality(kept) |-> cleanup[Ascending(kept)[k]]]

\* The statement of f ended well; nothing is dropped after a final expression.
Advanced(f) ==
  [f EXCEPT !.at = @ + 1, !.checked = FALSE,
            !.cleanup = IF f.kind = "branch" \/ f.at > Len(f.block.body) THEN @
                        ELSE FireDueDrops(f.block, f.at, PushDrops(AtWork(f), @))]

\* Mutant of Raised: every way out of a scope raises the flag.
RaisedByAnyExit(ts, t, f, cf) ==
  LET left == [ts EXCEPT ![t].stack = Append(Front(@), [f EXCEPT !.exit = cf])]
  IN IF t # <<>> /\ f.kind # "branch" THEN [left EXCEPT ![Front(t)].cancel = TRUE] ELSE left

\* A statement of f raised cf: signal_cancellation_if_error, then clean up.
\* In a branch's own statement there is no scope to clean up.
Raised(ts, t, f, cf) ==
  LET left == [ts EXCEPT ![t].stack = Append(Front(@), [f EXCEPT !.exit = cf])]
  IN IF t # <<>> /\ f.kind # "branch" /\ cf \in Failures
     THEN [left EXCEPT ![Front(t)].cancel = TRUE]
     ELSE left

Continues(ts, t, f, cf) ==
  IF cf = "ok" THEN [ts EXCEPT ![t].stack = Append(Front(@), Advanced(f))]
  ELSE Raised(ts, t, f, cf)

----------------------------------------------------------------------------
(* eval_block_inner and the constructs that call it. *)

\* observed_cancellation, before each statement that is not deferred.
CheckCancelled(t) ==
  /\ t # <<>> /\ Live(t) /\ Branches(t) = {}
  /\ LET f == Top(t)
     IN /\ ~AtEnd(f) /\ f.kind # "branch" /\ ~f.checked /\ ~Deferred(AtWork(f))
        /\ threads' = Replaced(t, IF threads[Front(t)].cancel
                                  THEN [f EXCEPT !.exit = "cancelled"]
                                  ELSE [f EXCEPT !.checked = TRUE])
  /\ UNCHANGED <<main, disturbed, handled>>

\* A deferred block is kept for the end of the scope; as a branch of its own
\* it has no scope and is dropped.
Defer(t) ==
  /\ Live(t) /\ ~AtEnd(Top(t)) /\ Deferred(AtWork(Top(t)))
  /\ LET f == Top(t)
         s == AtWork(f)
         g == [f EXCEPT !.at = @ + 1]
     IN threads' = Replaced(t,
          IF f.kind = "branch" THEN g
          ELSE IF s[1] = "defer" THEN [g EXCEPT !.cleanup = Append(@, s)]
          ELSE [g EXCEPT !.errdefers = Append(@, s)])
  /\ UNCHANGED <<main, disturbed, handled>>

Simple(t) ==
  /\ Evaluates(t, {"let", "do"})
  /\ LET s == AtWork(Top(t))
     IN threads' = [Replaced(t, Advanced(Top(t))) EXCEPT
                      ![t].out = IF s[1] = "do" THEN Append(@, s[2]) ELSE @]
  /\ UNCHANGED <<main, disturbed, handled>>

Raise(t) ==
  /\ Evaluates(t, {"raise"})
  /\ threads' = Raised(threads, t, Top(t), AtWork(Top(t))[2])
  /\ UNCHANGED <<main, disturbed, handled>>

\* A par block of at most one statement is a block.
Enter(t) ==
  /\ Evaluates(t, {"block", "call", "loop", "par"})
  /\ LET s == AtWork(Top(t))
     IN /\ s[1] = "par" => Len(s[2]) <= 1
        /\ threads' =
             CASE s[1] = "block" -> Pushed(t, Frame("block", s[2], 0))
               [] s[1] = "par" -> Pushed(t, Frame("block", [body |-> s[2], tail |-> <<>>], 0))
               [] s[1] = "call" -> Pushed(t, Frame(IF s[2] THEN "call?" ELSE "call", s[3], 0))
               [] s[1] = "loop" -> IF s[2] = 0 THEN Replaced(t, Advanced(Top(t)))
                                   ELSE Pushed(t, Frame("loop", s[3], s[2] - 1))
  /\ UNCHANGED <<main, disturbed, handled>>

Leave(t) ==
  /\ Live(t) /\ AtEnd(Top(t))
  /\ threads' = Replaced(t, [Top(t) EXCEPT !.exit = "ok"])
  /\ UNCHANGED <<main, disturbed, handled>>

\* run_cleanup: errdefers after a failure, then drops and defers, each in
\* reverse order.  errdefer(e) needs something to bind.
CleaningUp(t) ==
  threads[t].result = "running" /\ Top(t).exit # "running" /\ Branches(t) = {}

\* Mutant of LeftErrdefers: a `return` of any value is a failure.
LeftErrdefersOnReturn(f) == IF f.exit # "ok" THEN f.errdefers ELSE <<>>

LeftErrdefers(f) == IF f.exit \in Failures THEN f.errdefers ELSE <<>>

CleanUp(t) ==
  /\ CleaningUp(t)
  /\ LET f == Top(t)
     IN \/ /\ LeftErrdefers(f) # <<>>
           /\ LET e == Last(f.errdefers)
                  rest == Replaced(t, [f EXCEPT !.errdefers = Front(@)])
              IN threads' = IF e[2] /\ f.exit \notin {"err", "cancelled"} THEN rest
                            ELSE [rest EXCEPT ![t].stack = Append(@, Frame("cleanup", e[3], 0))]
        \/ /\ LeftErrdefers(f) = <<>> /\ f.cleanup # <<>>
           /\ LET a == Last(f.cleanup)
                  rest == Replaced(t, [f EXCEPT !.cleanup = Front(@)])
              IN threads' = IF a[1] = "drop" THEN rest
                            ELSE [rest EXCEPT ![t].stack = Append(@, Frame("cleanup", a[2], 0))]
  /\ UNCHANGED <<main, disturbed, handled>>

Clean(f) == LeftErrdefers(f) = <<>> /\ f.cleanup = <<>>

\* What the construct that ran the block of f makes of the block's exit: a call
\* has a value, which `?` propagates if it is Err or None; a loop is broken.
CallResult(cf) == IF cf = "return" THEN "ok" ELSE cf
Propagated(propagates, cf) == IF cf \in {"err", "none"} /\ ~propagates THEN "ok" ELSE cf
LoopResult(cf) == IF cf \in {"break", "continue"} THEN "ok" ELSE cf

Outcome(f) ==
  CASE f.kind \in {"call", "call?"} -> Propagated(f.kind = "call?", CallResult(f.exit))
    [] f.kind = "loop" -> LoopResult(f.exit)
    [] OTHER -> f.exit

\* History: an error stays inside the construct that ran the block of f.
Handled(f) ==
  \/ f.kind = "call" /\ f.exit \in {"err", "none"}
  \/ f.kind = "cleanup" /\ f.exit \in Failures \ {"cancelled"}

\* The result of a deferred block is ignored.
EndBlock(t) ==
  /\ CleaningUp(t) /\ Clean(Top(t)) /\ Len(threads[t].stack) > 1
  /\ LET f == Top(t)
         below == [threads EXCEPT ![t].stack = Front(@)]
         caller == Last(below[t].stack)
     IN /\ threads' =
             IF f.kind = "cleanup" THEN below
             ELSE IF f.kind = "loop" /\ f.exit \in {"ok", "continue"} /\ f.rounds > 0
             THEN Replaced(t, Frame("loop", f.block, f.rounds - 1))
             ELSE Continues(below, t, caller, Outcome(f))
        /\ IF t # <<>> /\ Handled(f)
           THEN disturbed' = disturbed \cup {"handled"} /\ handled' = handled \cup {t}
           ELSE UNCHANGED <<disturbed, handled>>
  /\ UNCHANGED main

\* The end of a thread.  A branch that ends in any way but "ok" cancels.
Finish(t) ==
  /\ CleaningUp(t) /\ Clean(Top(t)) /\ Len(threads[t].stack) = 1
  /\ LET cf == Top(t).exit
         ended == [threads EXCEPT ![t].result = cf, ![t].stack = <<>>]
         cuts == t # <<>> /\ cf # "ok"
     IN /\ threads' = IF cuts THEN [ended EXCEPT ![Front(t)].cancel = TRUE] ELSE ended
        /\ disturbed' = disturbed \cup (IF cuts THEN {"cut"} ELSE {})
  /\ UNCHANGED <<main, handled>>

----------------------------------------------------------------------------
(* eval_par_block with two or more statements. *)

ForkBranches(t) ==
  /\ Evaluates(t, {"par"})
  /\ LET S == AtWork(Top(t))[2]
         branches == {t \o <<i>> : i \in DOMAIN S}
     IN /\ Len(S) > 1
        /\ threads' = [p \in DOMAIN threads \cup branches |->
                         IF p \in branches THEN Thread
                         ELSE IF p = t THEN [threads[t] EXCEPT !.cancel = FALSE]
                         ELSE threads[p]]
        /\ handled' = handled \ branches
  /\ UNCHANGED <<main, disturbed>>

\* A branch that finds the flag raised before it starts leaves no result.
StartBranch(t) ==
  /\ threads[t].result = "new"
  /\ LET s == AtWork(Top(Front(t)))[2][Last(t)]
     IN threads' = [threads EXCEPT ![t] =
          IF threads[Front(t)].cancel THEN [@ EXCEPT !.result = "skipped"]
          ELSE [@ EXCEPT !.result = "running",
                         !.stack = <<Frame("branch", [body |-> <<s>>, tail |-> <<>>], 0)>>]]
  /\ UNCHANGED <<main, disturbed, handled>>

Joinable(t) ==
  /\ Branches(t) # {}
  /\ \A p \in Branches(t) : threads[p].result \notin {"new", "running"}

\* The branches of t in source order, and what their par block ends with: the
\* first failure; a branch that was cancelled or skipped is passed over.
InOrder(t) == [i \in 1..Cardinality(Branches(t)) |-> threads[t \o <<i>>]]

JoinResult(t) ==
  LET ended == InOrder(t)
      real == {i \in DOMAIN ended : ended[i].result \notin {"ok", "cancelled", "skipped"}}
  IN IF real = {} THEN "ok" ELSE ended[Min(real)].result

JoinBranches(t) ==
  /\ Joinable(t)
  /\ LET merged == [threads[t] EXCEPT
                      !.out = FoldLeft(LAMBDA out, b : out \o b.out, @, InOrder(t))]
         joined == [p \in DOMAIN threads \ Branches(t) |->
                      IF p = t THEN merged ELSE threads[p]]
     IN threads' = Continues(joined, t, Top(t), JoinResult(t))
  /\ UNCHANGED <<main, disturbed, handled>>

InterpreterNext ==
  \E t \in DOMAIN threads :
    \/ CheckCancelled(t) \/ Defer(t) \/ Simple(t) \/ Raise(t) \/ Enter(t) \/ Leave(t)
    \/ CleanUp(t) \/ EndBlock(t) \/ Finish(t) \/ ForkBranches(t) \/ StartBranch(t) \/ JoinBranches(t)

InterpreterSpec == InterpreterInit /\ [][InterpreterNext]_interpreterVars
-----------------------------------------------------------------------------
(* Properties. *)

\* A par block ends well only if all its branches ran to their ends and ended
\* well - or if one of these very branches handled an error inside itself,
\* which signal_cancellation_if_error takes for a failure of the branch: the
\* others may then be cut short, and the par block never knows.
CutsReported ==
  \A t \in DOMAIN threads :
    Joinable(t) /\ JoinResult(t) = "ok" =>
      \/ \A p \in Branches(t) : threads[p].result = "ok"
      \/ \E q \in Branches(t) : q \in handled
=============================================================================
