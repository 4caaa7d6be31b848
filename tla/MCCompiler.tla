----------------------------- MODULE MCCompiler -----------------------------
(***************************************************************************)
(* The parser, five analyses, the interpreter and the clean-up code of     *)
(* functions, each on its inputs: one of them at a time, the variables of  *)
(* the others idle.  Variables of the same name are shared.  AutoPar,      *)
(* EffectInference and Reexports (with ModuleGraph) are extended, so that  *)
(* their properties are checked under their own names; AutoPar's idle      *)
(* values are those of a body that has returned.                           *)
(***************************************************************************)
EXTENDS CompilerInputs, Scc, AutoPar, EffectInference, Reexports, ProgramMeaning

VARIABLES
  part,                                         \* the analysis at work
  cfg, idom, stage,                             \* MoveAnalysis, with prog
  type, arms, covering, unreachable, witness,   \* Exhaustive
  source, text, parsed,                         \* ExprSyntax, with stage
  code, turns, slots, heap, value, broken       \* ScopeCleanup, with prog, pc

Moves == INSTANCE MoveAnalysis WITH Programs <- Bodies

Matches == INSTANCE Exhaustive WITH
  Variants <- EnumVariants, Scrutinees <- MatchedTypes, PatternsOf <- ArmPatterns,
  MaxArms <- 3, Integer <- 0..2, MaxLength <- 2

Syntax == INSTANCE ExprSyntax WITH Bodies <- ParsedBodies

Cleanup == INSTANCE ScopeCleanup WITH Functions <- CleanupFunctions, MaxTurns <- 2

movesVars == <<cfg, idom>>
matchesVars == <<type, arms, covering, unreachable, witness>>
autoVars == <<final, running, started, returned, env, view, pending, latest, met>>
syntaxVars == <<source, text, parsed>>
cleanupVars == <<code, turns, slots, heap, value, broken>>

MovesIdle == cfg = 0 /\ idom = 0
MatchesIdle == type = 0 /\ arms = 0 /\ covering = 0 /\ unreachable = 0 /\ witness = 0

EffectsIdle ==
  /\ program = 0 /\ decl = 0 /\ inferred = 0 /\ marked = 0 /\ work = 0 /\ rest = {}
  /\ grown = 0 /\ passes = 0 /\ phase = "idle" /\ errors = 0

GraphIdle ==
  /\ tree = 0 /\ left = 0 /\ queue = 0 /\ seen = 0 /\ cycles = 0
  /\ stack = 0 /\ visited = 0 /\ emitted = 0 /\ build = "idle"

AutoIdle ==
  /\ returned = TRUE /\ started = {}
  /\ final = 0 /\ running = 0 /\ env = 0 /\ view = 0 /\ pending = 0 /\ latest = 0 /\ met = 0
RunIdle ==
  /\ main = NoTail(<<>>) /\ disturbed = {} /\ handled = {}
  /\ threads = [p \in {<<>>} |-> [Thread EXCEPT !.result = "ok"]]
SyntaxIdle == source = 0 /\ text = 0 /\ parsed = 0

CleanupIdle ==
  code = 0 /\ turns = 0 /\ slots = 0 /\ heap = 0 /\ value = 0 /\ broken = 0

CompilerInit ==
  /\ part \in {"moves", "matches", "effects", "graph", "auto", "run",
               "syntax", "cleanup"}
  /\ IF part = "moves" THEN Moves!Init ELSE MovesIdle
  /\ IF part = "matches" THEN Matches!Init ELSE MatchesIdle
  /\ IF part = "effects" THEN InferenceInit ELSE EffectsIdle
  /\ IF part = "graph" THEN GraphInit ELSE GraphIdle
  /\ IF part = "auto" THEN Init ELSE AutoIdle
  /\ IF part = "run" THEN InterpreterInit ELSE RunIdle
  /\ IF part = "syntax" THEN Syntax!Init ELSE SyntaxIdle
  /\ IF part = "cleanup" THEN Cleanup!Init ELSE CleanupIdle
  /\ part \in {"matches", "effects", "graph", "run", "syntax"} => prog = 0
  /\ part \notin {"moves", "syntax"} => stage = 0
  /\ part \notin {"auto", "cleanup"} => pc = 0

CompilerNext ==
  /\ UNCHANGED part
  /\ \/ /\ part = "moves" /\ Moves!Next
        /\ UNCHANGED <<pc, matchesVars, effectsVars, graphVars, autoVars,
                       interpreterVars, syntaxVars, cleanupVars>>
     \/ /\ part = "matches" /\ Matches!Next
        /\ UNCHANGED <<prog, stage, pc, movesVars, effectsVars, graphVars,
                       autoVars, interpreterVars, syntaxVars, cleanupVars>>
     \/ /\ part = "effects" /\ InferenceNext
        /\ UNCHANGED <<prog, stage, pc, movesVars, matchesVars, graphVars, autoVars,
                       interpreterVars, syntaxVars, cleanupVars>>
     \/ /\ part = "graph" /\ GraphNext
        /\ UNCHANGED <<prog, stage, pc, movesVars, matchesVars, effectsVars,
                       autoVars, interpreterVars, syntaxVars, cleanupVars>>
     \/ /\ part = "auto" /\ Next
        /\ UNCHANGED <<stage, movesVars, matchesVars, effectsVars,
                       graphVars, interpreterVars, syntaxVars, cleanupVars>>
     \/ /\ part = "run" /\ InterpreterNext
        /\ UNCHANGED <<prog, stage, pc, movesVars, matchesVars, effectsVars,
                       graphVars, autoVars, syntaxVars, cleanupVars>>
     \/ /\ part = "syntax" /\ Syntax!Next
        /\ UNCHANGED <<prog, pc, movesVars, matchesVars, effectsVars,
                       graphVars, autoVars, interpreterVars, cleanupVars>>
     \/ /\ part = "cleanup" /\ Cleanup!Next
        /\ UNCHANGED <<stage, movesVars, matchesVars, effectsVars,
                       graphVars, autoVars, interpreterVars, syntaxVars>>

CompilerSpec ==
  CompilerInit /\ [][CompilerNext]_<<part, prog, stage, pc, movesVars, matchesVars, effectsVars,
                    graphVars, autoVars, interpreterVars, syntaxVars, cleanupVars>>
-----------------------------------------------------------------------------
\* The bodies satisfy the conditions under which SequentialValues and
\* SequentialEffects are theorems.
ASSUME BodiesSeen == Seen /\ Heard

(* The instances' properties, for the one at work. *)

\* The passes of compute_dominators end with the dominance relation.
DominatorsExact == part = "moves" => Moves!DominatorsExact

\* A body that may use a moved binding gets an RC fallback or an error.
MoveSound == part = "moves" => Moves!MoveSound

\* A use-after-move error names a body that may do it.
UamIsReal == part = "moves" => Moves!UamIsReal

\* A match that is let through has an arm for every value.
ExhaustiveSound == part = "matches" => Matches!ExhaustiveSound

\* A rejected match is told of a value it misses.
WitnessMissed == part = "matches" => Matches!WitnessMissed

\* An arm is called unreachable iff earlier ones take all its values.
UnreachableExact == part = "matches" => Matches!UnreachableExact

\* The parser groups a text as the table of operators says.
TextMeansTree == part = "syntax" => Syntax!TextMeansTree

\* Buffers are freed once on every path, and none but the result is left.
BuffersFreedOnce == part = "cleanup" => Cleanup!BuffersFreedOnce
=============================================================================
