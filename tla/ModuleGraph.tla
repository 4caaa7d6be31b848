---------------------------- MODULE ModuleGraph ----------------------------
(***************************************************************************)
(* The project's modules (module.rs): the edges their imports make, the    *)
(* search for cycles that stop a build, and the order in which the modules *)
(* are emitted.                                                            *)
(*                                                                         *)
(* Modules are numbers (the ids).  A module is a record of the names it    *)
(* defines and its imports, in order; an import is a record [path, name,   *)
(* as, pub]: `import path.name as as`, for path the id of a module, or     *)
(* NoModule.                                                               *)
(***************************************************************************)
EXTENDS Integers, Sequences, FiniteSets, Digraphs

CONSTANT Projects  \* [modules, sub, root, synthetic]: the projects to draw from

NoModule == 0

\* The module that path.name is, when it is one and not an item of path.
SubModule(project, path, name) ==
  IF <<path, name>> \in DOMAIN project.sub THEN project.sub[<<path, name>>] ELSE NoModule

\* Mutant: an import of an item is taken for one of a module.
ImporteeModulesOnly(project, imp) == SubModule(project, imp.path, imp.name)

\* The module an import depends on.
Importee(project, imp) ==
  LET s == SubModule(project, imp.path, imp.name) IN IF s # NoModule THEN s ELSE imp.path

ImportsOf(project, m) ==
  {project.modules[m].imports[i] : i \in DOMAIN project.modules[m].imports}

EdgesOf(project) ==
  [m \in DOMAIN project.modules |->
     {Importee(project, imp) : imp \in ImportsOf(project, m)} \cap DOMAIN project.modules]

ASSUME ProjectsAssumption ==
  /\ \A p \in Projects : Len(p.modules) \in Nat /\ DOMAIN p.modules = 1 .. Len(p.modules)
  /\ \A graph \in {EdgesOf(p) : p \in Projects} : IsComponents(Components(graph), graph)

VARIABLES
  tree,     \* the project
  left,     \* the components in which a cycle is still to be looked for
  queue,    \* of the search for the shortest one: paths from its first module
  seen,     \* the modules this search has come to
  cycles,   \* the cycles reported
  stack,    \* of the emission's depth-first search: <<"enter" or "exit", id>>
  visited,
  emitted,  \* the emission order so far
  build     \* "loaded", "detecting", "rejected", "emitting" or "emitted"

detectVars == <<left, queue, seen, cycles>>
emitVars == <<stack, visited, emitted>>
graphVars == <<tree, detectVars, emitVars, build>>

Modules == DOMAIN tree.modules
Edges == EdgesOf(tree)
First(S) == Ascending(S)[1]
-----------------------------------------------------------------------------
GraphInit ==
  /\ tree \in Projects
  /\ left = <<>> /\ queue = <<>> /\ seen = {} /\ cycles = {}
  /\ stack = <<>> /\ visited = {} /\ emitted = <<>>
  /\ build = "loaded"

DetectCycles ==
  /\ build = "loaded"
  /\ left' = Components(Edges)
  /\ build' = "detecting"
  /\ UNCHANGED <<tree, queue, seen, cycles, emitVars>>

NextComponent == build = "detecting" /\ queue = <<>> /\ left # <<>>

\* Mutant: a module that imports itself is no cycle.
ExamineAloneNoCycle ==
  /\ NextComponent /\ Cardinality(Head(left)) = 1
  /\ left' = Tail(left)
  /\ UNCHANGED <<tree, queue, seen, cycles, emitVars, build>>

\* A module alone in its component is a cycle if it imports itself.
ExamineAlone ==
  /\ NextComponent /\ Cardinality(Head(left)) = 1
  /\ cycles' = cycles \cup {<<m>> : m \in {n \in Head(left) : n \in Edges[n]}}
  /\ left' = Tail(left)
  /\ UNCHANGED <<tree, queue, seen, emitVars, build>>

\* In another one the shortest cycle through its first module is looked for,
\* breadth first.
BeginSearch ==
  /\ NextComponent /\ Cardinality(Head(left)) # 1
  /\ queue' = << <<First(Head(left))>> >>
  /\ seen' = {First(Head(left))}
  /\ UNCHANGED <<tree, left, cycles, emitVars, build>>

\* The end of the path searched first, and its successors in the component.
Tip == queue[1][Len(queue[1])]
Ahead == Edges[Tip] \cap Head(left)
Closes == Tip # queue[1][1] /\ queue[1][1] \in Ahead

Report(cycle) ==
  /\ cycles' = cycles \cup {cycle}
  /\ left' = Tail(left)
  /\ queue' = <<>> /\ seen' = {}

CloseCycle ==
  /\ build = "detecting" /\ queue # <<>> /\ Closes
  /\ Report(queue[1])
  /\ UNCHANGED <<tree, emitVars, build>>

\* The path is continued to the modules not seen yet; a search that has
\* nowhere to go reports the first module alone.
Extend ==
  /\ build = "detecting" /\ queue # <<>> /\ ~ Closes
  /\ LET fresh == Ascending(Ahead \ seen)
         longer == Tail(queue) \o [i \in DOMAIN fresh |-> Append(queue[1], fresh[i])]
     IN IF longer = <<>> THEN Report(<<queue[1][1]>>)
        ELSE /\ queue' = longer
             /\ seen' = seen \cup Ahead
             /\ UNCHANGED <<left, cycles>>
  /\ UNCHANGED <<tree, emitVars, build>>

\* A build goes on to emission only without cycles.
Decide ==
  /\ build = "detecting" /\ queue = <<>> /\ left = <<>>
  /\ build' = IF cycles = {} THEN "emitting" ELSE "rejected"
  /\ UNCHANGED <<tree, detectVars, emitVars>>

\* The next root: the project's first, then the modules nobody has reached.
NextRoot ==
  /\ build = "emitting" /\ stack = <<>>
  /\ LET rest == Modules \ visited
         root == IF tree.root \in rest THEN tree.root ELSE First(rest)
     IN IF rest = {} THEN build' = "emitted" /\ UNCHANGED stack
        ELSE stack' = << <<"enter", root>> >> /\ UNCHANGED build
  /\ UNCHANGED <<tree, detectVars, visited, emitted>>

\* Mutant: modules are marked when they are pushed, not when they are entered.
EnterMarksChildren ==
  /\ build = "emitting" /\ stack # <<>>
  /\ LET v == stack[1][2]
         below == Ascending(Edges[v] \ visited)
     IN /\ stack[1][1] = "enter"
        /\ stack' = [i \in DOMAIN below |-> <<"enter", below[i]>>]
                    \o << <<"exit", v>> >> \o Tail(stack)
        /\ visited' = visited \cup {v} \cup Edges[v]
  /\ UNCHANGED <<tree, detectVars, emitted, build>>

\* A module on the stack is entered: its imports go above its own exit.
EnterModule ==
  /\ build = "emitting" /\ stack # <<>> /\ stack[1][1] = "enter"
  /\ LET v == stack[1][2]
         below == Ascending(Edges[v] \ (visited \cup {v}))
     IN IF v \in visited THEN stack' = Tail(stack) /\ UNCHANGED visited
        ELSE /\ visited' = visited \cup {v}
             /\ stack' = [i \in DOMAIN below |-> <<"enter", below[i]>>]
                         \o << <<"exit", v>> >> \o Tail(stack)
  /\ UNCHANGED <<tree, detectVars, emitted, build>>

\* All it imports is out; so is the module itself, unless it is a stub.
EmitModule ==
  /\ build = "emitting" /\ stack # <<>> /\ stack[1][1] = "exit"
  /\ emitted' = IF stack[1][2] \in tree.synthetic THEN emitted
                ELSE Append(emitted, stack[1][2])
  /\ stack' = Tail(stack)
  /\ UNCHANGED <<tree, detectVars, visited, build>>

GraphNext ==
  \/ DetectCycles \/ ExamineAlone \/ BeginSearch \/ CloseCycle \/ Extend \/ Decide
  \/ NextRoot \/ EnterModule \/ EmitModule

GraphSpec == GraphInit /\ [][GraphNext]_graphVars
-----------------------------------------------------------------------------
(* Properties. *)

\* At every moment each module emitted comes after those it imports, and is
\* emitted once; in the end all are there but the stubs.
DependenciesFirst ==
  LET out == {emitted[i] : i \in DOMAIN emitted}
  IN build \in {"emitting", "emitted"} =>
       /\ \A i \in DOMAIN emitted : \A n \in Edges[emitted[i]] \ tree.synthetic :
            \E j \in 1 .. i - 1 : emitted[j] = n
       /\ \A i, j \in DOMAIN emitted : emitted[i] = emitted[j] => i = j
       /\ build = "emitted" => out = Modules \ tree.synthetic

\* The modules of c import each other in a circle.
IsCycle(c) ==
  /\ \A i \in 1 .. Len(c) : c[(i % Len(c)) + 1] \in Edges[c[i]]
  /\ \A i, j \in 1 .. Len(c) : c[i] = c[j] => i = j

\* A project is rejected iff some import chain comes back to where it
\* started, and what is shown to the user is one, as short as it can be for
\* its first module (unless that imports itself as well); every module on a
\* cycle belongs to a component shown.
CyclesReported ==
  LET onCycle == {m \in Modules : m \in Reachable(m, Edges)}
  IN build \in {"rejected", "emitting", "emitted"} =>
       /\ build = "rejected" <=> onCycle # {}
       /\ \A c \in cycles :
            /\ IsCycle(c)
            /\ \A k \in 2 .. Len(c) - 1 : \A p \in [1 .. k -> Modules] :
                 p[1] = c[1] => ~ IsCycle(p)
       /\ \A m \in onCycle : \E c \in cycles : c[1] = m \/ Mutual(c[1], m, Edges)
=============================================================================
