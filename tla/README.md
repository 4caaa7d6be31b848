# A verification development for the Kāra compiler and runtime

Kāra is a compiled language whose compiler decides what runs in parallel: it infers the effects
of each function, groups statements that neither share data nor conflict in their effects, and
compiles each group to a fork-join call of a runtime with a long-lived worker pool.  This
directory holds TLA+ models of the runtime and of the parts of the compiler and the interpreter
where the order of steps matters, the TLC configurations that check them on small instances, and
proofs, checked by TLAPS, of the safety properties of the pool, the provider stack, the event loop
with its dispatcher, the map, the automatic parallelisation, effect inference and the module graph for
instances of any size.  Paths below are relative to the root of the repository, where the compiler is `src/` and the runtime `runtime/src/`.

`tlc -config X.cfg MCModule.tla` runs one check, `tlapm X_proofs.tla` checks the proofs of `X`.
`PROJECT.json` lists the runs, the source lines each definition stands for, the hazards the
properties are aimed at, and the disagreements found between the code and what it says of itself.

## 1. Inventory

### The compiler (`src/`)

A chain of passes over one syntax tree, each sequential, each with its result tables as its only
state; `cli.rs` calls them in order.

| component | state | operations | what makes it correct | model |
|---|---|---|---|---|
| lexer, parser (`lexer.rs`, `parser/`) | a cursor | tokens, tree | the grammar's precedences and where a statement ends | `ExprSyntax`, expressions and statements |
| formatter (`formatter/`) | output | text of a tree | the text is parsed to the tree again | `ExprSyntax` |
| desugaring, lowering (`desugar.rs`, `lowering.rs`) | none | tree rewriting | meaning is kept | - |
| resolver, prelude (`resolver.rs`) | scopes | binding of names | lexical scoping | - |
| module graph (`module.rs`) | import edges, stack of the emission | order, find cycles, follow re-exports | every module once, after its imports | `ModuleGraph` |
| type checker (`typechecker/`) | substitutions | inference | soundness | - |
| exhaustiveness (`exhaustive.rs`) | matrices | usefulness, witnesses | no value falls through a match | `Exhaustive` |
| effect checker (`effectchecker/`) | effects per function | inference over call-graph components, verification of declarations | the least solution; callers are charged with all a callee does | `EffectInference` |
| CFG, dominators, RC predicate (`cfg.rs`, `dominator.rs`, `rc_predicate.rs`) | blocks, immediate dominators | lowering, passes, predicates per binding | no use after move passes in silence | `MoveAnalysis` |
| ownership checker (`ownership/`) | move states | borrow and move rules | - | - |
| provider escape check (`provider_escape.rs`) | tainted names | walk | a provider does not outlive its `with_provider` | - |
| concurrency analysis (`concurrency.rs`) | conflict graph, groups per function | group statements | dependent statements are never parallel | `AutoPar` |
| code generation (`codegen/`) | symbol tables, frames of clean-ups, LLVM module | dispatch of groups, par blocks, `with_provider`, map operations, clean-up of scopes | the program does what the source says; each buffer is freed once | `AutoPar`, `ProviderStack`, `KaracMap`, `ScopeCleanup` |
| lints, reports, doc, REPL, scaffolding, manifest | none | diagnostics and text | - | - |

### The interpreter (`src/interpreter/`)

A tree walker used by the REPL, tests and `karac run`.  It is sequential except for `par` blocks,
whose branches run on threads of their own with copies of the environment and share a cancel flag.
`Interpreter` models blocks, their clean-up, control flow and par blocks.  The connection pool
(`method_call_pool.rs`) re-enters user code between the test of its cap and its count; it promises
too little to state a property of (section 5).

### The runtime (`runtime/src/`)

Linked into every program; called by generated code through C functions.

| component | state | operations | hard behaviour | what makes it correct | model |
|---|---|---|---|---|---|
| worker pool (`lib.rs`) | queue, two kinds of condition variable, `remaining` and `cancel` per call | `karac_par_run`, `worker_loop`, `execute_task` | any number of threads; nesting; waiting callers execute foreign tasks on their own stack; notifications outside the lock | a join; each branch once; no lost wakeup; no deadlock for a pool of any size | `ParPool`, `ForkJoin` |
| frame registry (`lib.rs`) | `ACTIVE_FRAMES`, `CURRENT_FRAME` per thread | `FrameGuard` | raw parent pointers read by a debugger's thread | a parent outlives its children's registration; the current frame is restored | `ParPool` |
| provider stack (`lib.rs`) | head per thread, frames in callers' stacks | push, pop, lookup, set/get head | a branch inherits the head of its forker on another thread | a resource call finds the lexically enclosing provider, alive | `ProviderStack` |
| event loop and poller (`event_loop.rs`) | registrations, mio poll, poller slot, wakeup queue | register, poll, wake, start, take_wakeups, shutdown | edge-triggered events with several consumers; shutdown against sleepers; restart | no wakeup lost or duplicated; shutdown ends and releases sleepers | `EventLoop` |
| scheduler dispatcher (`event_loop.rs`) | slot, stop flag, wakeups taken | start, shutdown, dispatch | two threads to stop in any order | a wakeup taken is dispatched; the shutdown ends | `Dispatcher` |
| hash map (`map.rs`) | buckets with tombstones | get, insert, remove, entry, iterate | resize at a load limit, reuse of tombstones, claims left open during an entry chain | a finite map | `KaracMap`, `AbstractMap` |
| error trace, HTTP, JSON, clone helpers | ring of 64 frames; none | - | trace shared by all threads | - | - |

### Interactions

The concurrency analysis takes the effect checker's result and hands groups to code generation,
which emits a call of `karac_par_run` per group; the emitted branches copy captured locals into an
environment, store the forker's provider head on the executing thread and leave results in return
slots.  The pool runs branches that may again contain all of this.  The event loop is called by
programs' threads and by the dispatcher, which consumes its wakeups.  The move analysis decides
which bindings code generation counts references of; the clean-up code frees the others' buffers.

Hence the chain that has to hold: effects are all known (`EffectInference`), the grouping is right
(`AutoPar`), the pool joins (`ParPool`), per-thread state survives the pool's scheduling
(`ProviderStack`, and the frames of `ParPool`).

## 2. Modules

| module | models | checked in | proved in |
|---|---|---|---|
| `ParPool` | worker pool and frame registry | `MCParPool` | `ParPool_proofs` |
| `ForkJoin` | what `par {}` promises, abstractly | refined by `ParPool` | `ParPool_proofs` |
| `ProviderStack` | provider stack, composed with `ParPool` (EXTENDS) | `MCProviderStack` | `ProviderStack_proofs` |
| `EventLoop` | event loop, background poller, their clients | `MCEventLoop` | `EventLoop_proofs` |
| `Dispatcher` | scheduler dispatcher, composed with `EventLoop` (EXTENDS) | `MCDispatcher` | `EventLoop_proofs` |
| `KaracMap` | hash map, and the code emitted for its operations | `MCKaracMap` | `KaracMap_proofs` |
| `AbstractMap` | what a `Map[K, V]` promises | refined by `KaracMap` | `KaracMap_proofs` |
| `AutoPar` | conflict analysis, dispatch of groups, execution of the compiled body | `MCCompiler`, `MCAutoPar` | `AutoPar_proofs` |
| `MoveAnalysis` | control-flow graph, dominators, RC and use-after-move predicates | `MCCompiler` | - |
| `Exhaustive` | exhaustiveness of matches | `MCCompiler` | - |
| `EffectInference` | effect inference and verification | `MCCompiler` | `GraphAnalyses_proofs` |
| `ModuleGraph` | import cycles, emission order | `MCCompiler` | `GraphAnalyses_proofs` |
| `Reexports` | re-exports, on top of `ModuleGraph` | `MCCompiler` | - |
| `Digraphs` | reachability, components, what the two above ask of them | with them | `Digraphs_proofs` |
| `Scc` | Tarjan's algorithm, the `Components` of `Digraphs` | with them | - |
| `ExprSyntax` | parser and formatter of expressions | `MCCompiler`, `MCExprSyntax` | - |
| `Interpreter` | blocks, clean-up, control flow and par blocks of the interpreter | `MCCompiler` | `Interpreter_proofs` |
| `ProgramMeaning` | where bindings are dropped, and what a program means (reference), on top of `Interpreter` | `MCCompiler` | - |
| `ScopeCleanup` | emitted clean-up of Vec and String buffers, and its execution | `MCCompiler` | - |
| `AutoParInputs`, `CompilerInputs` | the small programs the compiler's parts are checked on | `MCCompiler` | - |

`MCCompiler` is a composition of convenience: the parts of the compiler do not run at the same
time, so one run checks them all, one `part` at work in each behaviour and the variables of the
others idle.  Its properties are the parts', under the condition that the part is at work; those
of `AutoPar`, which it extends, stand for themselves, since they hold of the idle values.

Definitions whose comment begins with "Mutant" are deliberately wrong variants of the definition
they precede, kept to show that each property can fail; no specification uses them.

### ParPool

A thread is a worker or a root (main, the scheduler's dispatcher).  `stack[t]` is the thread's machine stack
reduced to what matters: a call activation `<<c, 0>>` for a `karac_par_run` in progress, a task
activation `<<c, i>>` for an `execute_task` in progress.  `pc[t]` is the place inside these
functions, one value per critical section or access to shared memory: the queue is locked in
`Enqueue`, `TakeTask` and the two waits, `remaining` in `Return`/`NotDone`, `FinishTask` and
`WaitForCall`; `NotifyPool` and `NotifyCall` are steps of their own because the code notifies
after it has unlocked.  `TakeTask` serves workers and waiting callers alike, as the code's
`pop_front` does.  A wait releases its lock and sleeps in one step, a sleeper may wake spuriously.
The frame registry is `active`, `cur` and `prev`, maintained by `BeginTask` and `EndTask` (the
guard's constructor and `Drop`).  A branch may fork again, at any depth.

`CanPanic` distinguishes the two builds.  With `panic = "abort"` (the release profile) no branch
unwinds.  With unwinding, `EndTask` may cancel the siblings and `SkipTask` drops those not begun.

### ForkJoin

Calls, enclosing branches and unfinished branches, with no thread and no queue: a branch ends only
after the calls made inside it have joined, a call joins when its branches have ended.
`ParPool` implements it under the mapping at the end of `ParPool` (the enclosing branch is
`parent`, the pointer the code stores).  It rules out a helper that returns from its own call in
the middle of a foreign branch, and a branch that ends over an open call.

### ProviderStack

Adds to every thread its `PROVIDER_STACK_HEAD`, to every frame its `prev`, and to every call the
head captured by its par block.  `Fork` is `emit_par_run`, `StartBranch` the branch prologue that
overwrites the head, `EnterProvider`/`LeaveProvider` the push and the pop around a `with_provider`
body.  `LeaveProvider` unlinks whatever the head is, as the code's pop takes no argument.
A frame is an address: each `with_provider` of a function has one place in its stack frame
(`codegen/provider.rs:177`), which serves whenever the body is entered and is anybody's once it has
ended, so `EnterProvider` takes any place that no open body has and overwrites its `prev`.  Behind a
dangling head, `prev` may therefore lead back to the frame itself; `Walk`, the frames a lookup reads,
is defined by closure under `prev` and covers that case.
A panic is excluded here (an assumption of the module) and so are early exits from a
`with_provider` body, which skip the pop: a hazard listed without a property.

### EventLoop

One action per critical section: of the slot, the fds, a poller's queue, or the poll itself.
`edges` and `waker` are the kernel's pending events; an edge is returned once.  `Harvest` returns
all of them to the thread that holds the poll lock; `PollNothing` is a poll that fails or times out.
`PollerExtract`/`ClientExtract` look the tokens up, still under the poll lock but in a step of their own, as the
table of tokens has another lock: a deregistration may come between.  Each start uses another element of
`Pollers`, because each start allocates another `EventLoopPoller`.  `raised`, `delivered` and
`owed` are history variables.  The capacity of 256 events of one poll is not modelled; a client's
direct poll has a buffer of `MaxOut` places, and drops what does not fit.  `NoWakeupLost` is
therefore conditional on `BuffersSuffice`: direct polls are made with a place for every token
(section 5).  `TypeOK`, and `ProviderTypeOK` of `ProviderStack`, are proved and in no run.

### Dispatcher

A dispatcher is a client of the event loop that only takes wakeups.  `StartDispatcher` starts a
poller when none runs, in one step as the slot's lock is held; the shutdown is three steps: empty
the slot (`BeginStop`), set the flag (`SetStop`), join.  The thread tests the flag, takes what the
poller has queued with a time limit of a tenth of a second (`Wait` may always time out), and calls
the poll function of each wakeup (`Dispatch`), one per step.  `unpolled` is a history variable: the
tokens that became ready since their task was last polled.

### KaracMap and AbstractMap

A map belongs to one thread, so an operation of the C interface is one step: the probe
(`Lookup`, `FindInsertSlot`), the load test with its resize, the store and the counters.  An entry
chain is two steps, since user code runs between the claim of a bucket and the store of the value,
and a traversal is a step per entry.  The copies of insert and get that the compiler emits for
integer keys are actions of their own over the same buckets, as is the clone.  Keys hash to any
function into `Hashes`.  `AbstractMap` is the function the buckets stand for; under the mapping
at the end of `KaracMap` a claimed bucket does not exist yet, and `todo` is the occupied buckets
from the iterator's index on.

### AutoPar

A body is a function from positions to statement records with just the facts the compiler
distinguishes: kind, bound or assigned name, names read, names written inside its value, effects,
and so on (`StatementType`).  `Defines`, `Reads`, `Conflict`, `Group`, `Leader`, `Trivial` and
`CapturedMutations` are the analysis; `RefsOutside`, `IsSlot` and `Dispatched` are
`compute_return_slots_checked` and `compile_function_body`; `Captures` is `emit_par_run`'s.
`Leader` is a recursive function and `Group` the longest independent run, which is what the greedy
loop with `break` computes.  The execution part runs the compiled body: a statement outside the
groups works on `env`, the locals of the function; a group's branches work on copies of the
captured locals, their effects interleave, and `Join` turns the return slots into locals.  Values
are identified with the statement that wrote them.  What the walks of the analysis do not reach is part
of a statement's record: `unseen` are the writes that `collect_expr_inner_writes` misses, `quiet` the
effects of an index in an assigned place, `unwalked` and `inner` what the captures miss; `exit` is what
`stmt_has_early_exit` finds.  The execution performs all of them, the analysis sees what it sees.

### MoveAnalysis

A body is what it does to one binding (`use_classifier.rs` is represented by the kinds of uses),
because the predicates look at one at a time.  `Lower` builds the blocks and edges, with the
deferred code of each open scope inlined at every exit; each `DominatorPass` is a pass of
`compute_dominators`.  The reference is not a graph: `RunBlock` runs the body by the language's
rules and collects the ways it can go (`Outcome`), and `MovedUse` asks whether one of them uses a moved
value.  A return says what it returns: the lowering treats both alike and lets errdefers fire, the
reference lets them fire only where an Err or a None is returned.  The use-after-move errors that come
of this difference are false ones; `UamIsReal` excludes the bodies that can have them
(`ErrdeferMeetsOk`, section 5).

### Exhaustive

`NextArm` is an iteration of `unreachable_arms`, `Decide` the test of the whole match; `Usefulness`
is the recursion over the matrix, with its witness.  The reference enumerates the values of the
type (`Integer`, `MaxLength` bound it) and matches each against the source patterns.

### EffectInference, ModuleGraph, Reexports

`Walk` is the walk of one body in a pass over a component of the call graph, `EndPass` the decision
whether another follows, `InferCeilings` and `Verify` what comes then.  A pass walks a component's bodies
in any order; the code's order is one of these.  Effects are sets, a unit's own effects are given; how
they are collected from the syntax is left out.  Calls are collected anew in each walk (`CallsSeen`), because a
function given as an argument is one only if its callee is declared polymorphic or is `marked` by
then; the call graph is built before anything is marked.  `Opaque` leaves out the effects of
transparent verbs, as verification does.  A public function `with E` is let off the effects that came to it by a call
of a bound's polymorphic method (`Conduits`); the code keeps one origin per effect, the first, so that the
model reports for certain what no such call can account for (`MustLeak`), and possibly what
another call may (`MayLeak`).  `EffectsTracked` exempts the units in `Unaccounted`, whose declarations
nobody verifies or which hand a function to a callee that does not declare to call it (section 5).

`ModuleGraph` follows the build: the search for cycles takes one component at a time and extends one path
of its breadth-first queue per step; the emission's depth-first search pushes or pops its explicit
stack.  `Origin` of `Reexports` follows a name through re-exports.

### Digraphs, Scc

Both analyses begin with the strongly connected components of a graph.  `Digraphs` states what they ask of
them (`IsComponents`: a partition into the components, each after those it leads to) and takes the
function that finds them as the constant `Components`.  `Scc` is the function of the code, Tarjan's
algorithm; `Compiler` sets `Components` to it, and TLC evaluates `IsComponents` for each call graph and
import graph of the run when it checks the ASSUMEs of `EffectInference` and `ModuleGraph`.  The theorems rest on
`IsComponents` and so hold for any algorithm that satisfies it; that Tarjan's does on every
graph is not proved.

### ExprSyntax

A body is a sequence of trees, a text a sequence of tokens.  `ParseExpr`, `ParseRest` and
`ParsePrefix` are the Pratt parser with its table of binding powers and the special cases in
front of it (casts, ranges, postfixes, block-like statements); `FormatExpr` is the formatter, which
writes pieces and spaces that `Lexed` cuts into the longest tokens.  The reference writes a tree
with the parentheses the documents ask for, and no others: those of the table of operators
(docs/syntax.md, 5.1); around a comparison that is an operand of another, since comparisons do not
chain (5.1); around the right operand of `|>` that has a `?` in it, since `raw |> parse?` is to mean
`(raw |> parse)?` (5.18); and around a whole statement that goes on behind the block it
begins with (`parser/stmts.rs:252`).  A block-like statement is written without semicolon before
another one, which may begin with an operator.  What the parser makes of chained comparisons and of
`raw |> parse?` is in section 5.  Types and blocks are single tokens; declarations, patterns, map and
struct literals, labels, `break`, assignments and `else` are left out.

### Interpreter

A thread is the path of par branches that leads to it; `stack` holds one frame per activation of
`eval_block_inner`, with the statement it is at, its clean-up stack and the way it is being left.
The cancel flag is read between statements (`CheckCancelled`) in a step apart from the statement,
since other branches may raise it in between.  A branch works on a copy, prints into its own
output and is joined in order.  Statements are what matters for order: a binding, a read, an
output, an exit, deferred code, a call, a loop, a block, a par block; values, patterns and
operators are left out, a let-else is a let or a block.  After which statement a binding is dropped
is the constant `LastUse`: `Compiler` sets it to `LastRead` of `ProgramMeaning`, which is
`compute_block_last_use`, a walk over the tree.  `ProgramMeaning` has the reference too: `Meaning` is a
sequential reading of the language's rules.  `disturbed` and `handled` are history variables: whether a
branch has failed or has handled an error inside, and which branches of the par blocks at work have
handled one.  Of `Digraphs` the module uses only `Ascending`.

### ScopeCleanup

Two phases.  `Compile` walks a function as code generation does, with the compile-time stack of
frames, and yields a sequence of instructions with relative jumps; the actions execute them.  A
slot holds a buffer and whether its capacity is above zero, which is what the generated code tests
before it frees; a move leaves the buffer in the old slot with capacity zero.  `Free` frees a buffer and,
one level deep, those of its elements.  Conditions, `?` and tests of arms branch freely.  The inputs
put every pair of 33 units behind two locals, a string and a vector.

## 3. Runs

| run | instance | distinct states | question |
|---|---|---|---|
| `ParPool_safety` | 2 workers, 1 root, 3 calls of at most 2 branches, no panics, frames on | 358,000 | join, each branch once, wakeups, deadlock, frames, refinement of `ForkJoin` |
| `ParPool_liveness` | 1 worker, 2 roots, 2 calls, panics | 89,000 | every call returns |
| `ProviderStack_flat` | 2 workers, 1 root, 2 calls, 3 providers at a time, no nested par blocks | 349,000 | lookups are lexical and read live frames |
| `ProviderStack_nested` | 2 providers, nested par blocks | counterexample | a helper's head dangles |
| `EventLoop_safety` | 2 clients, 2 pollers, 2 registrations, direct polls | 2,014,000 | wakeups neither lost nor duplicated |
| `EventLoop_liveness` | 2 users, 1 dispatcher, 1 poller, 1 token, 2 edges | 53,000 | shutdowns end, events are polled, their tasks too |
| `EventLoop_stranded` | 2 clients, 1 poller | counterexample | a sleeper misses the shutdown |
| `EventLoop_restart` | 2 clients, 2 pollers | counterexample | a shutdown waits forever |
| `KaracMap` | 3 keys, 2 values, hashes 0, 1, 7, capacity 2 to 8 | 19,000 | counters, probes, refinement of `AbstractMap` |
| `Compiler` | the inputs of `CompilerInputs` | 1,292,000 | each part computes what it is to compute |
| `AutoPar_nested` | lets whose value mutates a local | counterexample | the mutation is lost |
| `ExprSyntax_format` | sums and products of three operators | counterexample | formatting changes the tree |

Why these bounds are enough to be interesting:

- *ParPool.*  Three calls with two workers allow a call nested in a branch, two calls nested in
  sibling branches, a call made by a branch that a waiting caller executes, and a root's second
  par block; two branches are needed for one to run while the caller helps with the other.  Both
  workers and the root can all be waiting at once, the situation in which only helping makes
  progress.  The liveness run has two roots and one worker, so that callers of unrelated par blocks
  execute each other's branches.  `MaxCalls` and `MaxWidth` are the only bounds; the theorems below remove them.
- *ProviderStack.*  Two calls and three providers open at a time put a provider around a par block, one inside a
  branch, and one pushed after it; bodies may be entered any number of times, in places used before.  `ProviderStack_flat` has one root: with two, a root that waits
  executes branches of the other's par block and loses its head even without nesting, which is
  the fault `ProviderStack_nested` shows.
- *EventLoop.*  Two clients and two pollers are the least number for a poller that is started
  while another shuts down, and for a direct poll that competes with a poller.  `MaxTokens` and
  `MaxEdges` bound registrations and readiness; two tokens let one be deregistered between a poll
  and its lookup while the other must survive.  The liveness run takes two edges of one token and
  leaves the direct polls out: a direct poll that is under way when a poller starts may consume the wake of its
  shutdown, and the poller, which has tested the flag before, then waits in its own poll until some fd
  is ready while the shutdown joins it.  Its two users start
  and stop the poller and the dispatcher in every order.
- *KaracMap.*  All hash functions into 0, 1 and 7: keys that collide, runs of buckets that wrap
  around the end, runs that a resize breaks up.  Capacity 2 to 8 takes two resizes.
- *AutoPar.*  A group needs two statements and a value that crosses its boundary a third, or the
  final expression; conflicts are pairwise and groups contiguous, so that longer bodies add
  repetitions.  The final expression reads one local, so that of each pair one is read behind the
  body and the other is not.  The 28 shapes include bodies without a conflict, with an early exit, a par
  statement, an untyped let, a polymorphic call and constant initialisers.
- *MoveAnalysis.*  A consume and a use with a third statement before, between or behind; every
  construct of the lowering in each place; loops with each pair of statements.  Loops of two
  blocks are the least for which the passes of the dominators do not end at once.
- *Exhaustive.*  Up to three arms, guarded or not, over seven types; or-patterns, payloads, slices
  with a rest, and a variant without values.
- *EffectInference.*  All call graphs of three functions of which only the first may call itself,
  with every sort of declaration on two of them: a self-call, cycles of two and three, and a chain
  that leads into a cycle.  Trait methods have one implementation, one or no default body; in
  these programs each unit calls at most one other, and the third is bounded by the trait.  In a third group of
  programs a function hands another one to a callee that may be declared polymorphic, marked or
  neither, directly and around cycles; one of their effects is that of a transparent verb.
- *ModuleGraph.*  All import graphs of four modules without self-imports (on three, with them), and
  re-exports through up to three modules, which reach `ReexportMaxDepth` only in a cycle.
- *ExprSyntax.*  Two operators tell whether one binds tighter than the other and to which side; a
  third, with a binary operator outermost, shows what a prefix or a postfix does to an operand in
  the middle.  Bodies of two statements have a block first and, behind it, a statement that may begin with
  an operator.
- *Interpreter.*  A binding is made, captured, shadowed and read in four statements; deferred code
  is run once on each of five exits of each construct; three branches let one fail while
  another is inside a block and the third not yet started; a par block may be inside a branch.
- *ScopeCleanup.*  A local that one unit moves, assigns, shadows or pushes is cleaned up, or left by an early
  exit, in the second.  Two turns per function let a slot hold a buffer of an earlier turn.

Shapes left out of `CompilerInputs`, because of which the property would fail, and section 5 says
how: in `AutoPar` lets and assignments that write another local inside their value (that is
`AutoPar_nested`), expression statements whose writes the analysis misses, assigned places whose index has an
effect, lets that read the name they shadow, names bound in one branch and read in
another, names mentioned where `refs_in_expr` does not look; in `MoveAnalysis` a reassignment under
a short circuit or in only some passes of a loop, and uses behind a let-else; in `Exhaustive`
ranges, and the overlap of `[true, ..]` with `[.., true]`; in `Interpreter` deferred code that reads
a name bound again behind it; in `ScopeCleanup` the shapes listed under "Clean-up code".

Deadlock checking is off in all runs because the systems may rest: a program that has made its
calls, clients that call nothing, a body that has ended.  Deadlock of the pool is a property,
`NoDeadlock`, which says more: a thread that can move must exist while a call is open.

### Fairness

`ParPool`'s `FairSpec` has weak fairness of each thread's `Step`: the operating system runs every
thread that is not blocked in a wait.  It includes the end of a branch, that is, branches are
assumed to terminate, and excludes `SpuriousWake`, so that no progress rests on a spurious wakeup.
There is no fairness between the actions of one thread.

`EventLoop`'s `FairSpec` has the same for pollers and for clients inside a call; a client need not
call anything.  The one strong fairness is on a poller's `Harvest`: a poll may fail
(`PollNothing`) and is retried: "treat transient poll errors as a yield", the code says.  Readiness of an
fd is never assumed.  `DispatcherSpec` adds weak fairness of each dispatcher's thread, whose timed
wait ends by itself: `TimeOut` is a step of the dispatcher there because the wait has a limit.

Everything else is checked for safety only.

## 4. What is proved

Every safety invariant that a run checks of a module without RECURSIVE operators, and both
refinements, are theorems: of the runtime, of three analyses of the compiler and of the interpreter's
par blocks.  They hold for all values of the constants that satisfy the modules' ASSUMEs, which
TLC evaluates in every run; the few theorems that need more state it as a hypothesis (`OneForker`, `Seen`, `Heard`, `BuffersSuffice`), and why they need it is said here.

### The pool: `ParPool_proofs`

For any sets of workers and roots, any `MaxCalls` and `MaxWidth`, with and
without frame tracking and panics (the assumption is `ParPoolAssumption` of `ParPool`, nothing
else):

| theorem | statement |
|---|---|
| `ShapeInvariant` | the structure of stacks and program counters, `[]Shape` |
| `EachTaskOnce` | `[]NoTaskTwice` |
| `TypeCorrect` | `[]TypeOK` |
| `JoinCorrect` | `[]JoinBeforeReturn` |
| `WakeupsNotLost` | `[]NoLostWakeup` |
| `DeadlockFree` | `[]NoDeadlock` |

The argument, in the order of the module:

1. `Shape`: variables have their types, calls and tasks alternate on every stack with a call at
   the bottom of a root's and a task at the bottom of a worker's, and `pc` fits the top of the
   stack.  It is inductive alone.  `remaining` is only known to be a natural number here.
2. `Ownership`: the `status` of a task says where it is - nowhere, in the queue once, or on one
   stack once - and a call on a stack is younger than everything below it.  Needs
   `Shape`; gives `NoTaskTwice`.
3. `Counted`: `remaining[c]` is the number of unfinished tasks of `c`.  The step is `FinishTask`,
   which needs `Ownership`: the task it finishes was unfinished.  Gives the upper bound of
   `remaining`, hence `TypeOK`.
4. `JoinBeforeReturn` then follows for the only action that closes a call, `Return`, whose guard
   is `remaining = 0`.
5. `Wakeups`: a sleeping caller whose count is zero has a thread at `notifyCall` for its call, and
   sleeping workers with a non-empty queue have a thread at `notifyPool`.  `OwnTasksPopped` goes with
   it: a caller that is about to block, or asleep, has seen the queue empty, so none of its own
   tasks is queued any more.
6. `NoDeadlock`: were every thread blocked while a call is open, take the youngest open call.  Its
   caller is asleep, so by 5 it has an unfinished task, which by `OwnTasksPopped` and `Ownership`
   is on some stack; the top of that stack is a call that sleeps, younger than the youngest.

`Shape` and its companions are needed because none of the properties is inductive: `NoTaskTwice`,
for one, is preserved by `TakeTask` only if what is queued is on no stack, which follows from
`status` and not from the property itself.

### Frames and the fork-join contract: `ParPool_proofs`

| theorem | statement |
|---|---|
| `CurrentFrameCorrect` | `[]CurrentFrameRestored` |
| `ParentAlive` | `[]ParentFrameAlive` |
| `ParPoolImplementsForkJoin` | `Spec => ImplementsForkJoin` |

A guard's `prev` is restored by another activation than the one that saved it, with any number of
foreign branches executed on the same stack in between, so neither property is inductive.  `Frames`
says what `CURRENT_FRAME` is at every place of the code (the activation at depth `CurDepth`) and what each
guard in use will restore (the activation two below its own); a branch that ends then restores what
was there when it began.  `Parents` says that the `parent` of an open call is the activation below it,
`Actives` that the registered frames are those of the branches in progress; with
`Ownership` of the pool, the parent is one of them.  For the refinement, `Fork` of `ForkJoin` is
the entry of `karac_par_run`, `End` the decrement of `remaining`, `Join` its return, and all
else stutters.  The step that needs work is the end of a branch: that no call made inside it
is still open follows from the task being on top of its stack.

### Providers: `ProviderStack_proofs`

| theorem | statement |
|---|---|
| `PoolUnderProviders` | `ProviderSpec => Spec` |
| `LookupsLexical` | `OneForker => []LookupIsLexical` |
| `LookupsLive` | `OneForker => []LookupReadsLiveFrames` |

The first carries the pool's theorems over to programs with providers.  `OneForker` - no nested
par blocks, one root - is what a program has to promise: TLC shows a violation with
nested blocks, and one with two roots even without.  The invariant `Nested` has five parts per thread:
`Flat` (a root is at most in one call and one of its own branches, a worker in one branch),
`Depths` (which activation entered each open body), `Linked` (a frame's `prev` is what was
visible where its body was entered), `HeadRight` (the head is the innermost visible frame while user code
runs) and `Borrowed` (the head a call captured is that of an open body of the root, which cannot end
before the call, and a caller gets it back from every branch it helps with).  The last holds under
`OneForker` only; it is the part that `ProviderStack_nested` breaks.  The live frames are then closed
under `prev`, and `WalkInside` says that a lookup which begins in such a set stays in it.  Frames are
told apart by who has them, never by when they were pushed: places are used again, and that
no two open bodies share one is part of the types (`ScopeTypes`).

### Event loop and dispatcher: `EventLoop_proofs`

| theorem | statement |
|---|---|
| `TypeCorrect` | `[]TypeOK` |
| `WakeupsOnce` | `[]WakeupsNotDuplicated` |
| `WakeupsKept` | `[]NoWakeupLost` |
| `LoopUnderDispatcher` | `DispatcherSpec => Spec` |
| `DispatchedBeforeStop` | `[]StopsEmptyHanded`: a dispatcher exits only when stopped, with no wakeup in hand |
| `ParkedTasksKept` | `[]WakeupOnItsWay`: the event of an unpolled task is on its way to a poll |

`Held` says who holds what: the poller in the slot has been started, only a thread between its
poll and its hand-over holds a batch, a client in a call holds a poller, one in a shutdown holds
one that has left the slot (and `RetiredStays`: it does not come back).  `Counted` is
the number of deliveries and events in flight against the number raised; each action moves a bounded
number of events from one place to the next, and most of the proof is counting them (`DepositCount`,
`DrainCount`).  For `WakeupsKept` the invariant is `OwedPresent`: each owed token is in the kernel, in a
batch or in a queue.  Two hypotheses are part of the property: no poller has been shut down, since a
shutdown may consume what a later poller was to get, and `BuffersSuffice`.

`LoopUnderDispatcher` carries these over to the composition.  `WakeupOnItsWay` is the safety half of
`ParkedTasksPolled`: until its task is polled, an event is in flight or in the
dispatcher's list (`Handed`, with the same two hypotheses).  `Placed` says which calls users and
dispatchers can be in and that a list not yet dispatched belongs to a dispatcher in its loop over it.

### Map: `KaracMap_proofs`

| theorem | statement |
|---|---|
| `MapInvariant` | `[]Inv` |
| `CountersCorrect` | `[]CountersExact` |
| `EmptyBucketLeft` | `[]ProbeMeetsEmpty` |
| `KeysFound` | `[]KeysReachable` |
| `MapImplementsFunction` | `Spec => ImplementsMap` |

`Inv` is `Sound` (types; every stored key is reached by its probe before an empty bucket, and
stored once; the counters are exact), `Loaded` (`len + tombstones` is at most three quarters of the
capacity) and `ClaimHeld` (an open entry chain's bucket stays occupied).  None of the three
properties is inductive without the others: an empty bucket is left because the counters are
exact and the load bounded, and searches end because an empty bucket is left.  It holds for any hash function and any
initial capacity.  Resize and clone are functions over the buckets, and the lemmas about them
carry an invariant along their index.  In the code a resize inserts through the same function that tests the
load, in the model it does not: `ResizeNotReentered` shows that the test cannot fire there.
`MonoInsertIsInsert` and `MonoGetIsGet` show that the copies of insert and get emitted for integer keys
compute what the runtime's functions do.

The refinement maps a table to the function `Contents` of its occupied buckets, less the one an entry
chain has claimed and not yet filled, and a traversal to the keys still ahead.  Each operation is an
operation of `AbstractMap` or a stutter.  `OneBorrow` - a traversal and an entry
chain are not open at once, which the borrow of the map rules out - is the only invariant it adds.

### Automatic parallelisation: `AutoPar_proofs`

| theorem | statement |
|---|---|
| `NothingSkipped` | `[]StatementsInOrder` |
| `EffectsSequential` | `Heard => []SequentialEffects` |
| `ValuesSequential` | `Seen => []SequentialValues` |

For bodies of any length, over any statements of `StatementType`, local variables and resources.
`Order`: what runs is the whole section at `pc`, a statement or a dispatched group, and what has started
is what lies before it.  A group is an interval of pairwise independent statements
(`GroupInterval`), so `pc` moves on by its size.  `Latest`: the last performer of an effect is the
last one in the source among those that have started, or is in the section that runs, where no other
statement conflicts with it.  `Values`: `env` holds the last writer of every name that something from
`pc` on uses.  The step is `Join`: a name written in the group and used behind it must be a return slot
of one branch, which follows from the test of captured mutations and from the absence of
conflicts.  The recursive function `Leader` never has to be unfolded: the proofs need only that it does
not change while a body runs (`LeaderKept`), and that a group begins where it is dispatched.

`Seen` and `Heard` are conditions on the statements alone.  Their conjuncts are the shapes named in section 3, without
which the property is false: for values, lets and assignments that write other locals in their value
(`AutoPar_nested`), expression statements with a write that the analysis misses (`unseen`; section 5 lists
them), patterns, lets that read the name they shadow, names bound inside a statement
and used in another, names the capture walk misses; for effects, those of an index in an assigned place
(`quiet`).  The statements of the `Compiler` run satisfy both
(`BodiesSeen` in `MCCompiler`).  The order of the statements needs no such condition.

### The module graph: `GraphAnalyses_proofs`

| theorem | statement |
|---|---|
| `CyclesAreReported` | `GraphSpec => []CyclesReported` |
| `DependenciesComeFirst` | `GraphSpec => []DependenciesFirst` |

For projects of any number of modules with any imports.  `GraphInv` is a conjunction of four parts.

1. `Shape`: types, which variables are idle in which phase, and that the components still to be examined
   are the last ones of those found.
2. `Search`, of the breadth-first search in a component: every path in the queue is a path of the
   component from its first module, without repetition; the paths' lengths do not fall along the
   queue; and there is a distance for each module seen such that what has been searched has its
   successors seen, at most one further, and does not close a cycle.  This makes the first cycle closed the
   shortest through its module, and it makes a search that ends without one impossible: a set that is
   closed under successors contains all that is reachable, the start included.  So the last line of the code's
   search, the fallback to the module alone, is never reached in a component of several.
3. `Reported`: what is reported is a cycle without a shorter one, and each component examined that has a
   module on a cycle has one reported.  A project without cycles then has only components of one module
   that do not import themselves.
4. `Emission`: what lies on the stack above an open module (one entered and not left) is reachable from
   it, and its imports are done or above it.  A module that leaves the stack with an import that is
   open would be on a cycle; the build emits only without cycles.

### Effect inference: `GraphAnalyses_proofs`

| theorem | statement |
|---|---|
| `InferenceIsExact` | `InferenceSpec => []InferenceExact` |
| `EffectsAreTracked` | `PublicEffects = "declared"`, the default policy, implies `InferenceSpec => []EffectsTracked` |

For programs of any size, any calls, and passes in any order.  The equations say that a unit has its trusted
effects, its own, and those its calls are charged with (`IsSolution`); which calls there are depends on the
units marked, so there are two systems.  Inference ends no lower than the least solution for the calls of the call
graph, and no higher than any solution for the calls seen in the end.  Where functions are handed only to callees that are
declared polymorphic the two systems are one and the theorem says that inference ends with its
least solution; where not, the lower bound is what the code guarantees (section 5).
`InferenceInv` has, besides types and
progress along the components, these parts: `Sound` (what is inferred is below every solution of the
equations for the units marked by now), `Kept` (the components behind, and the units walked in a pass that has added nothing, satisfy
the equations of the call graph), `Limit`, `Marks` and `Reports`.  `Limit` is the delicate one: the code gives a component
of `n` functions at most `n + 1` passes.  It says that until an effect has come to all units of the
component that it can reach, each pass brings it to one more, whatever the order of the walks; hence after
that many passes nothing is left to add, and a pass that is cut off by the limit is not cut
short.  For `EffectsTracked`, `NoComplaints` says what the absence of complaints means for each sort
of unit, and `CallersCharged` that a callee's charge is within its caller's; the set of units whose effects are
within what a caller is charged with is closed under calls, hence contains all that a run may enter,
functions handed to a callee included.  It speaks of the effects that are not those of transparent
verbs, since verification exempts them, and of runs that enter no unit of `Unaccounted`.

Under the policy `inferred` the property is false, and the hypothesis says so: a public function without a
declaration then charges its callers with nothing (section 5).

`Digraphs_proofs` has what both need of graphs: that reachability is the least closed set, is transitive,
and can be taken step by step, and that `Ascending` lists a set.  The two share a module of proofs
and nothing else: neither restricts the inputs of the other, whose sets may be empty.

### The interpreter's par blocks: `Interpreter_proofs`

| theorem | statement |
|---|---|
| `CutsAreReported` | `InterpreterSpec => []CutsReported` |

For programs of any size and par blocks nested to any depth, also in loops, calls and deferred
code, and for any choice of where bindings are dropped (`LastUse` is arbitrary).  `eval_par_block`
passes over a branch that was cancelled or skipped when it looks for the block's result, so it relies
on there being another branch whose failure it will report.  `InterpreterInv` says why there is one.

1. `Typed`: what threads, frames and clean-up stacks hold.
2. `Family`: the threads form a tree, and one that has branches runs the par block they are the statements of.
3. `NestedAll`: a frame that is not deferred code has a caller that is still running, so the way out of a
   block is never forgotten by pushing a new frame over it.
4. `CutsFlagged`: a branch is cut short, or is being left as cut short, only while the flag of its
   par block is up.
5. `FlagsFounded`: while the flag of a par block is up, one of its branches has failed by itself or is being
   left because of a failure, or an error was handled inside one of them.

The last two are inductive only together with the third: the failure that raised the flag lives in
the frames of its branch until the branch ends with it, and what could lose it is a construct that
swallows it, which is what `handled` records, per branch and until the par block is begun again.  The
theorem says: a par block ends well with a branch cut short only if one of its own branches handled
an error inside itself; without that exception it is false (section 5), and no error handled
in another par block or before it can be the cause.  `MoveKeepsInv` is the step of which all but the fork are instances: one thread
changes, its cuts are covered by the flag it reads, and its failures stay or are handled.

### Only model-checked

- Liveness (`EveryCallReturns`, `ShutdownReturns`, `EventsArePolled`, `DispatcherStops`,
  `ParkedTasksPolled`): fairness and ENABLED are out of the provers' reach.
- `MoveAnalysis`, `Exhaustive`, `ExprSyntax`, `ScopeCleanup`, `Origin` of `Reexports`, and of the
  interpreter `RunsAsWritten` and `NoUseAfterDrop`, which are about `Meaning` and `LastRead`: walks
  over trees with RECURSIVE operators.  What such an operator computes for every tree is an induction over data, which the provers cannot instantiate.
- `Scc`: that Tarjan's algorithm satisfies `IsComponents`, for the same reason; TLC evaluates it on
  every graph of the `Compiler` run.

## 5. What the runs found

- **A helper's provider head dangles** (`ProviderStack_nested`).  A waiting caller that executes a
  branch of another par block has its `PROVIDER_STACK_HEAD` overwritten by that branch's prologue
  (`runtime/src/lib.rs:1107`) and not restored.  When the other block's `with_provider` has ended,
  the caller's next lookup walks a dead stack frame.  Without nested par blocks and with a
  single root, a caller only ever helps with its own branches, whose captured head is its own, and
  all is well (`ProviderStack_flat`).
- **A sleeper misses the shutdown** (`EventLoop_stranded`).  `take_wakeups` without a timeout does
  not test `shutdown` before it waits, and the shutdown notifies without the queue's lock
  (`event_loop.rs:809`).
- **A shutdown that never returns** (`EventLoop_restart`).  The final drain of one shutdown may
  consume the wake meant for a poller started and stopped in the meantime (`event_loop.rs:830`).
- **A mutation inside a let is lost** (`AutoPar_nested`).  `let x = { c = f(); 1 }` or
  `let x = q.pop_front()` does not count as writing `c` or `q` (`src/concurrency.rs:386`), so a
  following statement that reads it may share its group and the mutation stays in a branch's copy.
- **Formatting changes a program** (`ExprSyntax_format`).  The tree keeps no parentheses and the
  formatter writes none: `a * (b + c)` becomes `a * b + c` (`src/formatter/exprs.rs:58`).

### Met while modelling, without a run

The following were found by reading the code for the models.  They are outside the inputs of the runs
or of the models, and are listed so that the passing properties are not taken for more than they say.

*Runtime.*  Behind a dangling provider head the frame may have been pushed again below itself: its `prev` is then
the frame itself, and a lookup of another resource does not end (`codegen/provider.rs:177`, `lib.rs:1071`).  A
direct poll that began before a poller was started can consume the wake of its shutdown, which then
joins a poller that sleeps (`event_loop.rs:492`).  A direct poll drops the events beyond `max_wakeups` (`event_loop.rs:504`), although the
comment at `:467` has the next poll return them.  The dispatcher polls a task whose fd is still
queued after it has finished (`:918`), gives up wakeups at the drain of a shutdown (`:830`), spins
when the poller it takes from is shut down, and restarts its counters.  `entry(k).or_insert(f()?)`
leaves an occupied bucket with an unwritten value when `f` fails (`map.rs:451`).

*Interpreter.*  The connection pool's cap is exceeded when `create` re-enters it, and a double
release hands one connection out twice (`method_call_pool.rs:114`, `:153`).
`signal_cancellation_if_error` (`eval_stmt.rs:335`) raises the cancel flag for any failing exit,
also one the caller handles: the siblings are cut short and the par block ends well, against
`eval_stmt.rs:287`.  As the flag is up when the clean-up runs, deferred code of a failed or
cancelled branch does not.  A runtime error in a branch is dropped with the branch's interpreter, so
that a test whose assertion fails in a branch passes (`interpreter.rs:480`).  A panic does not take
precedence over an earlier branch's error; inner par blocks do not see the outer flag; errors in
deferred code are swallowed; mutations and destructor traces of branches are lost.  `f(g()?)`,
`1 + g()?` and `if g()? {}` run into `unreachable!` on an error, since operands are used before the pending exit is tested.
Deferred code finds names dynamically, also those bound behind it; the last use of a name inside a
let-else block is not counted (`exec.rs:271`); destructors due at one statement run in order of
declaration.

*Parallelisation.*  `collect_expr_inner_writes` (`concurrency.rs:985`) records the writes of an expression statement in
blocks, branches, arms and loops only: those in a `while let`, a labeled block, `try`, `lock`,
`providers`, a closure, an operand or an argument are missed, as are `mut` arguments and the receiver of
a method of whose name no callee has an effect.  The effects of an index in an assigned place are not
collected (`:409`).  A statement may also leave the body in ways that `stmt_has_early_exit` does
not look for, `?` and the body of a `while let` or a closure among them (`:93`); the comment above it says what
becomes of a `return` in a branch, a module LLVM rejects.

*Moves.*  The lowering lets errdefers fire at `return Ok(..)`, and the comment there (`cfg.rs:816`, also
`:202`) says that the reads so placed cannot manifest as a use after a move.  They can: `consume x;
errdefer { read x }; if c { return Ok(0) }` is reported, and no run of it reads `x`.  A reassignment under a short circuit is taken for one that always happens
(`cfg.rs:540`), a loop that reassigns on one path only is not flagged (`rc_predicate.rs:385`), the
`else` block of a let-else is placed behind the let, and `?` inside `try {}` leaves the function.

*Matches.*  Range patterns are lowered to wildcards; `[true, ..]` and `[.., true]` of a Vec are
lowered alike; a pair with a component without values is not seen to be covered by its other.

*Effects.*  A function given as an argument counts as called only if its callee is declared polymorphic
or has been marked before the walk (`inference.rs:396`); the comment there speaks of any private function that
calls a polymorphic one.  The call graph has no such edges, so a body may be walked before the
function it hands on, once, and lose its effects; and a callee whose mark comes later in the same cycle is
not polymorphic yet.  Which effect of a public function `with E` counts as coming by a polymorphic
method depends on which call brought it first (`effectchecker.rs:1094`).  The `with _` mark can miss members of a cycle, depending on the order of names
(`inference.rs:65`, `verify.rs:238`).  Public methods of types are never verified, ceilings of private traits never
reach callers, undeclared ceilings of public traits count as pure, and with `PublicEffects =
"inferred"` undeclared public functions charge nothing; `OverDeclaredEffect` cannot be reported.

*Parser and formatter.*  A statement that begins with a parenthesised block ends at the
parenthesis, although `stmts.rs:261` tells users to write `(if c { v1 } else { v2 }).method()`, and
`(if c {1} else {2}) - 1` is two statements; the texts of the run put the parentheses around the whole
statement.  Comparisons chain, against docs/syntax.md:1176, `raw |> parse?` is `raw |> (parse?)`,
against docs/syntax.md:1861 (the texts have neither), and `return` does not
parse before a closing bracket.  The formatter joins `a? .f` to `?.`, `a? ?` to `??` and turns
`(a.f)(x)` into a method call.

*Clean-up code.*  An early `return v` zeroes the capacity of `v` before it loads `v`
(`exprs.rs:249`): the caller's buffer is never freed, and its next push writes past the end.
`return f"..."` and a match arm that ends in an interpolated string or a block free the result;
`push(f"...")`, fields from interpolated strings and `let s = if c {a} else {b}` free it twice.  A
let or an interpolated string inside an `if` is cleaned up in the frame around it, from a slot that
may not have been stored.  `break` and `continue` skip the clean-up of the frames they leave.
Assigning a call, a literal or a moved name over an owned local leaks the old buffer; `let mut x =
x` disowns the new slot; a shadowing let in an inner block stays visible behind it; a by-value
argument is not disowned, so that a callee that returns its parameter frees it twice; `Some(_)`
leaks an owned payload.

*Elsewhere.*  Definite assignment: a move hides that a variable may be unassigned, and `loop` bodies
that assign before `break` count as not assigning.  REPL: `let x = x + 1;`, the idiom `repl.rs:31`
recommends, fails because the earlier `let x` is pruned first; a failing cell of the interactive
loop is not rolled back.

## 6. Not modelled, and why

- Resolver, type checker, desugaring, lints, reports: functions from syntax to syntax or
  diagnostics without state that outlives a call, and inputs too rich to enumerate; a model would
  restate them.  Ownership and provider escape checks are walks of the same sort; of what they
  decide, only the part that the RC predicate takes over, uses after a move, is in `MoveAnalysis`.
- Code generation beyond the order of runtime calls, the map operations and the clean-up of buffers:
  emission of instructions one by one.  Reference counts, structs, enums and maps have clean-ups of
  the same frames as `ScopeCleanup`, with other release code.
- Early exits of a `with_provider` body, which skip the pop (`codegen/provider.rs:205`), and names and
  writes the walks miss (`codegen/closures.rs:1002`, `concurrency.rs:1043`): known to break the properties.
- HTTP and JSON: input and output around third-party libraries.  The error trace: printed at the
  end of a process, decides nothing.  Driver, REPL, manifest, scaffolding: files and text.
- The machine stack is unbounded in `ParPool`: a waiting caller may in the code overflow its stack
  by helping too deep.  `remaining` has 32 bits in the code; a program cannot have that many branches.

## 7. Plan

Done, in this order: `ParPool`, `ForkJoin`, `ParPool_proofs`, `ProviderStack`, `EventLoop`, `AutoPar`;
then `KaracMap`, `AbstractMap`, `Dispatcher`, `MoveAnalysis`, `EffectInference`, `ModuleGraph`,
`Exhaustive`, `ExprSyntax`, `Interpreter`, `ScopeCleanup`;
then the theorems of section 4: the refinements, `EventLoop_proofs`, `KaracMap_proofs`,
`ProviderStack_proofs`, `AutoPar_proofs`, the dispatcher, and last `Digraphs_proofs`, `GraphAnalyses_proofs` and
`Interpreter_proofs`, for which `Digraphs`, `Reexports` and `ProgramMeaning` were split off.

Next, theorems: when the two bounds of `InferenceExact` meet although functions are handed to callees
that are only marked; a weaker `Seen` (patterns, and names bound inside a statement, need the
captures of a branch told apart from its own bindings); `WakeupsKept` across a restart, for the tokens that no
drain of a shutdown has taken; what `ProviderStack` still promises with two roots.

Next, models: early exits from `with_provider` bodies; reference counts in `ScopeCleanup`; the
captures and return slots of `AutoPar` (`inner`, `unwalked`, `pattern`).
