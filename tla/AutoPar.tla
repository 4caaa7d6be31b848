------------------------------ MODULE AutoPar ------------------------------
(***************************************************************************)
(* Automatic parallelisation of a function body: the conflict analysis of  *)
(* src/src/concurrency.rs, the dispatch of its groups by                   *)
(* compile_function_body (src/src/codegen/stmts.rs) and the par blocks     *)
(* that emit_par_run (src/src/codegen/par_blocks.rs) makes of them.        *)
(*                                                                         *)
(* A body is a sequence of statements and a final expression.  A value is  *)
(* told apart by the statement that wrote it, 0 standing for what the name *)
(* or the resource held before the body, so that a run of the compiled     *)
(* body agrees with the sequential one when every statement meets the same *)
(* writers.  That karac_par_run returns after the last branch is the       *)
(* business of ParPool; branches are interleaved here at their effects.    *)
(***************************************************************************)
EXTENDS Integers, FiniteSets

CONSTANTS
  N,           \* number of statements of the body
  Names,       \* local variables
  Resources,   \* resources of the effect system
  Statements,  \* the statements a body is made of
  FinalReads   \* the sets of names its final expression may read

\* Effect verbs.  "own" stands for the verbs that conflict with themselves
\* only: allocates, panics, blocks, suspends, and each user-defined one.
Verbs == {"reads", "writes", "sends", "receives", "own"}
Effects == Verbs \X Resources

Kinds == {"let", "pattern", "assign", "update", "expr", "par"}
NoName == "none"  \* for an expression statement

\* What the compiler distinguishes in a statement.
StatementType ==
  [kind : Kinds,
   name : Names \cup {NoName}, \* what a let binds, or the root of the assigned place
   reads : SUBSET Names,    \* names the expressions of the statement use
   writes : SUBSET Names,   \* names assigned or mutated inside its value
   unseen : SUBSET Names,   \* of these, those collect_expr_inner_writes misses
   inner : SUBSET Names,    \* names bound inside it (nested let, for, arms)
   unwalked : SUBSET Names, \* of its names, those refs_in_expr does not reach
   effects : SUBSET Effects,
   quiet : SUBSET Effects,  \* of these, those of an index in the assigned place
   poly : BOOLEAN,          \* calls a `with _` function: effects not visible
   exit : BOOLEAN,          \* return, break or continue where the analysis looks
   atom : BOOLEAN,          \* its value is a literal or an identifier
   typed : BOOLEAN]         \* the LLVM type of its value can be inferred

ASSUME AutoParAssumption == N \in Nat /\ Statements \subseteq StatementType

Stmt == 1 .. N
Before == 0         \* the writer of what was there before the body
Unbound == N + 1    \* the value of a name that a branch has not captured

VARIABLES
  prog,      \* the body: its statements
  final,     \* the names its final expression reads
  pc,        \* the next statement, or the first of the group that runs
  running,   \* the statements that run: one, or the branches of a par block
  started,   \* the statements that have begun
  returned,  \* has a statement left the body?
  env,       \* the writer of each local variable of the function
  view,      \* per statement: the writers of the locals it works on
  pending,   \* per statement: its effects that have not taken place
  latest,    \* per effect: the last statement that performed it
  met        \* per statement and effect: the performer it came after

vars == <<prog, final, pc, running, started, returned, env, view, pending,
          latest, met>>

----------------------------------------------------------------------------
(* Analysis: src/src/concurrency.rs *)

LetIntroduced(i) ==
  IF prog[i].kind \in {"let", "pattern"} THEN {prog[i].name} ELSE {}

Target(i) ==
  IF prog[i].kind \in {"assign", "update"} THEN {prog[i].name} ELSE {}

\* Nested writes count for an expression statement only, and where they are in
\* a block, a branch, an arm, a loop (but while-let) or the receiver of a method
\* with an effect: not in operands, arguments, closures, labels, try or lock.
Defines(i) ==
  LetIntroduced(i) \cup Target(i)
    \cup (IF prog[i].kind \in {"expr", "par"} THEN prog[i].writes \ prog[i].unseen ELSE {})

\* The target of a nested assignment is collected as a read.
Reads(i) ==
  prog[i].reads \cup prog[i].writes
    \cup (IF prog[i].kind = "update" THEN {prog[i].name} ELSE {})

Visible(i) == IF prog[i].poly THEN {} ELSE prog[i].effects \ prog[i].quiet

\* Mutant of EffectConflict: reads and writes of a resource are unordered.
EffectConflictWritesOnly(e, f) ==
  e[2] = f[2] /\ e[1] = f[1] /\ e[1] # "reads"

\* Same resource, and a verb that conflicts with itself or reads with writes.
EffectConflict(e, f) ==
  /\ e[2] = f[2]
  /\ \/ e[1] = f[1] /\ e[1] # "reads"
     \/ {e[1], f[1]} = {"reads", "writes"}

Conflict(i, j) ==
  \/ Defines(i) \cap Reads(j) # {}
  \/ Defines(j) \cap Reads(i) # {}
  \/ Defines(i) \cap Defines(j) # {}
  \/ prog[i].poly /\ (prog[j].poly \/ Visible(j) # {})
  \/ prog[j].poly /\ Visible(i) # {}
  \/ \E e \in Visible(i), f \in Visible(j) : EffectConflict(e, f)

\* May these statements share a group?
Independent(S) ==
  \A i \in S : ~ prog[i].exit /\ \A j \in S \ {i} : ~ Conflict(i, j)

\* The group that starts at i: the longest run of independent statements.
Group(i) == {k \in i .. N : Independent(i .. k)}

\* The first statement of the group each statement is assigned to.
Leader[i \in Stmt] ==
  IF i = 1 THEN 1
  ELSE IF i \in Group(Leader[i - 1]) THEN Leader[i - 1] ELSE i

\* Not worth a dispatch: no effect at all, or at most one statement with work.
Trivial(g) ==
  \/ \A i \in g : Visible(i) = {} /\ ~ prog[i].poly
  \/ Cardinality({i \in g : ~ prog[i].atom}) <= 1

CapturedMutations(g) == UNION {Defines(i) \ LetIntroduced(i) : i \in g}

----------------------------------------------------------------------------
(* Dispatch: src/src/codegen/stmts.rs *)

\* The names refs_in_block finds in a statement.
Refs(i) == (Reads(i) \ prog[i].unwalked) \cup Target(i)

RefsOutside(g) == final \cup UNION {Refs(i) : i \in Stmt \ g}

\* The branch and the name of a return slot: plain bindings read outside.
IsSlot(g, i, x) ==
  prog[i].kind = "let" /\ x = prog[i].name /\ x \in RefsOutside(g)

\* Mutant of Dispatched: the captured mutations are not consulted.
DispatchedDespiteMutations(i) ==
  /\ Leader[i] = i
  /\ Cardinality(Group(i)) > 1
  /\ ~ Trivial(Group(i))
  /\ \A k \in Group(i) : prog[k].kind # "par"

\* Is the group that starts at i compiled to a par block?
Dispatched(i) ==
  /\ Leader[i] = i
  /\ Cardinality(Group(i)) > 1
  /\ ~ Trivial(Group(i))
  /\ \A k \in Group(i) : prog[k].kind # "par"
  /\ CapturedMutations(Group(i)) \cap RefsOutside(Group(i)) = {}
  /\ \A k \in Group(i) :
       (\E x \in Names : IsSlot(Group(i), k, x)) => prog[k].typed

\* The locals stored in the environment all branches share: what the
\* statements mention, less the names that any of them binds.
Captures(g) ==
  (UNION {Refs(i) : i \in g}) \ UNION {LetIntroduced(i) \cup prog[i].inner : i \in g}

----------------------------------------------------------------------------
(* Execution *)

Init ==
  /\ prog \in [Stmt -> Statements]
  /\ final \in FinalReads
  /\ pc = 1
  /\ running = {}
  /\ started = {}
  /\ returned = FALSE
  /\ env = [x \in Names |-> Before]
  /\ view = [i \in Stmt |-> [x \in Names |-> Unbound]]
  /\ pending = [i \in Stmt |-> {}]
  /\ latest = [e \in Effects |-> Before]
  /\ met = [i \in Stmt |-> [e \in Effects |-> Before]]

Start(S, locals) ==
  /\ running = {}
  /\ running' = S
  /\ started' = started \cup S
  /\ view' = [i \in Stmt |-> IF i \in S THEN locals ELSE view[i]]
  /\ pending' = [i \in Stmt |-> IF i \in S THEN prog[i].effects ELSE pending[i]]
  /\ UNCHANGED <<prog, final, pc, returned, env, latest, met>>

\* A statement outside the par blocks works on the function's own locals.
Run ==
  /\ pc <= N
  /\ ~ Dispatched(pc)
  /\ Start({pc}, env)

\* emit_par_run: captures are copied into the environment of the branches.
Fork ==
  /\ pc <= N
  /\ Dispatched(pc)
  /\ Start(Group(pc),
           [x \in Names |-> IF x \in Captures(Group(pc)) THEN env[x] ELSE Unbound])

\* Reading a resource meets its last write; other effects meet their like.
Perform(i, e) ==
  /\ i \in running
  /\ e \in pending[i]
  /\ pending' = [pending EXCEPT ![i] = @ \ {e}]
  /\ met' = [met EXCEPT ![i][e] =
               latest[IF e[1] = "reads" THEN <<"writes", e[2]>> ELSE e]]
  /\ latest' = [latest EXCEPT ![e] = i]
  /\ UNCHANGED <<prog, final, pc, running, started, returned, env, view>>

AllDone == running # {} /\ \A i \in running : pending[i] = {}

\* The end of a statement outside the par blocks.
End ==
  /\ AllDone
  /\ ~ Dispatched(pc)
  /\ env' = [x \in Names |->
               IF x \in LetIntroduced(pc) \cup Target(pc) \cup prog[pc].writes
               THEN pc ELSE env[x]]
  /\ pc' = pc + 1
  /\ running' = {}
  /\ UNCHANGED <<prog, final, started, returned, view, pending, latest, met>>

\* Mutants of Join: the statements after the first run again; one too many is
\* skipped.
JoinStaysInGroup ==
  /\ AllDone
  /\ Dispatched(pc)
  /\ env' = [x \in Names |->
               IF \E i \in running : IsSlot(running, i, x)
               THEN CHOOSE i \in running : IsSlot(running, i, x)
               ELSE env[x]]
  /\ pc' = pc + 1
  /\ running' = {}
  /\ UNCHANGED <<prog, final, started, returned, view, pending, latest, met>>

\* After karac_par_run the slots become locals of the function; what else the
\* branches wrote stays in their copies.
Join ==
  /\ AllDone
  /\ Dispatched(pc)
  /\ env' = [x \in Names |->
               IF \E i \in running : IsSlot(running, i, x)
               THEN CHOOSE i \in running : IsSlot(running, i, x)
               ELSE env[x]]
  /\ pc' = pc + Cardinality(running)
  /\ running' = {}
  /\ UNCHANGED <<prog, final, started, returned, view, pending, latest, met>>

\* A statement with an early exit may leave the body.
Exit ==
  /\ AllDone
  /\ \E i \in running : prog[i].exit
  /\ returned' = TRUE
  /\ pc' = N + 1
  /\ running' = {}
  /\ UNCHANGED <<prog, final, started, env, view, pending, latest, met>>

Next ==
  \/ Run
  \/ Fork
  \/ \E i \in Stmt, e \in Effects : Perform(i, e)
  \/ End
  \/ Join
  \/ Exit

Spec == Init /\ [][Next]_vars

----------------------------------------------------------------------------
(* Properties *)

\* The names a statement changes when it runs.
Writes(i) == LetIntroduced(i) \cup Target(i) \cup prog[i].writes

\* j is the last statement before i that writes x (0: there is none).
Reaches(j, x, i) ==
  /\ j = Before \/ (j \in 1 .. i - 1 /\ x \in Writes(j))
  /\ \A k \in j + 1 .. i - 1 : x \notin Writes(k)

\* The compiled body computes what the source says: each statement works on
\* the variables that the statements before it, in source order, have left,
\* and so does the final expression.  (concurrency.rs: "Only when BOTH
\* analyses find no dependency can statements be parallelized".)
SequentialValues ==
  /\ \A i \in started : \A x \in Reads(i) \cup Target(i) :
       Reaches(view[i][x], x, i)
  /\ pc = N + 1 /\ ~ returned => \A x \in final : Reaches(env[x], x, N + 1)

\* The condition of the theorem on SequentialValues: the analysis sees what
\* statements do to local variables.  Lets and assignments write no other name
\* inside their value, and expressions write none where the analysis does not
\* look (without these two the property fails); lets bind one name and do not
\* read the name they shadow, names bound inside a statement are used in no
\* other, and refs_in_expr reaches every name.
Seen ==
  /\ FinalReads \subseteq SUBSET Names
  /\ \A s \in Statements :
       /\ s.kind # "pattern"
       /\ s.kind \in {"let", "assign", "update"} => s.name \in Names /\ s.writes = {}
       /\ s.kind = "let" => s.name \notin s.reads
       /\ s.unseen = {} /\ s.unwalked = {}
       /\ \A r \in Statements : s.inner \cap (r.reads \cup r.writes \cup {r.name}) = {}

\* j is the last statement before i that performs e (0: there is none).
LastPerformer(j, e, i) ==
  /\ j = Before \/ (j \in 1 .. i - 1 /\ e \in prog[j].effects)
  /\ \A k \in j + 1 .. i - 1 : e \notin prog[k].effects

\* The condition of the theorem on SequentialEffects: no index in an assigned
\* place has an effect.
Heard == \A s \in Statements : s.quiet = {}

\* Resources are met in source order: a read comes right after the write that
\* precedes it in the source, or after one of its own statement, and effects
\* that exclude each other follow in source order.
SequentialEffects ==
  \A i \in started : \A e \in prog[i].effects \ pending[i] :
    LET f == IF e[1] = "reads" THEN <<"writes", e[2]>> ELSE e
    IN met[i][e] = i \/ LastPerformer(met[i][e], f, i)

\* No statement is skipped, and none runs early or twice, wherever the body
\* changes between sequential code and par blocks.
StatementsInOrder ==
  returned \/ started = 1 .. pc - 1 \cup running
=============================================================================
