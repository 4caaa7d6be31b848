------------------------ MODULE GraphAnalyses_proofs ------------------------
(***************************************************************************)
(* Theorems about the two analyses over graphs.  ModuleGraph, for all      *)
(* projects: the cycles reported are the shortest there are, a project is  *)
(* rejected iff it has one, and the others are emitted with each module    *)
(* behind those it imports.  EffectInference, for all programs: inference  *)
(* ends no lower than the least solution for the calls of the call graph,  *)
(* and no higher than the one for the calls seen in the end, and a program *)
(* without complaints charges every caller with what its callees may do.   *)
(* Neither restricts the inputs of the other, whose sets may be empty.     *)
(***************************************************************************)
EXTENDS ModuleGraph, EffectInference, Digraphs_proofs, SequenceTheorems

(***************************************************************************)
(* What each variable holds, and when.                                     *)
(***************************************************************************)
Typed ==
  /\ tree \in Projects
  /\ left \in Seq(SUBSET Modules)
  /\ queue \in Seq(Seq(Modules) \ {<<>>}) /\ seen \in SUBSET Modules
  /\ stack \in Seq({"enter", "exit"} \X Modules)
  /\ visited \in SUBSET Modules /\ emitted \in Seq(Modules)

Phases ==
  /\ build \in {"loaded", "detecting", "rejected", "emitting", "emitted"}
  /\ build # "detecting" => left = <<>>
  /\ queue # <<>> => left # <<>>
  /\ build = "loaded" => cycles = {}
  /\ build \in {"emitting", "emitted", "rejected"} => (build = "rejected" <=> cycles # {})
  /\ build \in {"loaded", "detecting", "rejected"} =>
       stack = <<>> /\ visited = {} /\ emitted = <<>>
  /\ build = "emitted" => stack = <<>> /\ visited = Modules

(***************************************************************************)
(* The components examined are the first of those found.                   *)
(***************************************************************************)
Found == Components(Edges)
Examined == Len(Found) - Len(left)

Progress ==
  build # "loaded" =>
    /\ Examined \in Nat
    /\ \A i \in DOMAIN left : left[i] = Found[Examined + i]

(***************************************************************************)
(* The breadth-first search of the component scc from start, in the graph  *)
(* succ: the paths q, the modules S seen, and their distances d.           *)
(***************************************************************************)
PathFrom(path, start, S, succ) ==
  /\ path # <<>> /\ path[1] = start
  /\ \A i \in DOMAIN path : path[i] \in S
  /\ \A i, j \in DOMAIN path : path[i] = path[j] => i = j
  /\ \A i \in 1 .. Len(path) - 1 : path[i + 1] \in succ[path[i]]

TipOf(path) == path[Len(path)]
Tips(q) == {TipOf(q[i]) : i \in DOMAIN q}

\* All successors of u in the component are seen, and none closes a cycle.
Searched(u, start, d, S, scc, succ) ==
  /\ \A w \in succ[u] \cap scc : w \in S /\ d[w] <= d[u] + 1
  /\ u # start => start \notin succ[u]

Distances(d, start, q, S, scc, succ) ==
  /\ d[start] = 1
  /\ \A i \in DOMAIN q : d[TipOf(q[i])] = Len(q[i])
  /\ \A u \in S : d[u] <= Len(q[1]) + 1
  /\ \A u \in S \ Tips(q) : Searched(u, start, d, S, scc, succ)

Searching(start, q, S, scc, succ) ==
  /\ Cardinality(scc) # 1 /\ S \subseteq scc /\ start \in S
  /\ \A i \in DOMAIN q : PathFrom(q[i], start, S, succ)
  /\ \A i, j \in DOMAIN q : i <= j => Len(q[i]) <= Len(q[j])
  /\ \E d \in [S -> Nat] : Distances(d, start, q, S, scc, succ)

Search == queue # <<>> => Searching(queue[1][1], queue, seen, Head(left), Edges)

(***************************************************************************)
(* The cycles reported so far.                                             *)
(***************************************************************************)
NoShorter(c) ==
  \A k \in 2 .. Len(c) - 1 : \A p \in [1 .. k -> Modules] : p[1] = c[1] => ~ IsCycle(p)

OnCycle(m) == m \in Reachable(m, Edges)

Reported ==
  /\ \A c \in cycles : /\ c[1] \in Modules /\ OnCycle(c[1])
                       /\ IsCycle(c) /\ NoShorter(c)
  /\ build # "loaded" =>
       \A i \in 1 .. Examined : \A m \in Found[i] :
         OnCycle(m) => \E c \in cycles : c[1] \in Found[i]

(***************************************************************************)
(* The emission.  A module is open from its entry to its exit, then done.  *)
(***************************************************************************)
IsExit(k) == stack[k][1] = "exit"
Open == {stack[k][2] : k \in {j \in DOMAIN stack : IsExit(j)}}
Done == visited \ Open

\* What lies above an open module leads from it, and what it imports is done
\* or lies above it.
OpenModules ==
  \A k \in DOMAIN stack : IsExit(k) =>
    /\ stack[k][2] \in visited
    /\ \A j \in 1 .. k - 1 : stack[j][2] \in Reachable(stack[k][2], Edges)
    /\ \A n \in Edges[stack[k][2]] \ Done : \E j \in 1 .. k - 1 : stack[j][2] = n

DoneModules == \A m \in Done : Edges[m] \subseteq Done

EmittedModules ==
  /\ {emitted[i] : i \in DOMAIN emitted} = Done \ tree.synthetic
  /\ \A i, j \in DOMAIN emitted : emitted[i] = emitted[j] => i = j
  /\ \A i \in DOMAIN emitted : \A n \in Edges[emitted[i]] \ tree.synthetic :
       \E j \in 1 .. i - 1 : emitted[j] = n

Emission == OpenModules /\ DoneModules /\ EmittedModules

Shape == Typed /\ Phases /\ Progress

-----------------------------------------------------------------------------
LEMMA GraphFacts ==
  ASSUME tree \in Projects
  PROVE  /\ Len(tree.modules) \in Nat /\ Modules = 1 .. Len(tree.modules)
         /\ Modules \in SUBSET Nat /\ IsFiniteSet(Modules)
         /\ DOMAIN Edges = Modules /\ IsGraph(Edges)
         /\ \A m \in Modules : Edges[m] \in SUBSET Modules
         /\ IsComponents(Found, Edges)
<1>1. Len(tree.modules) \in Nat /\ Modules = 1 .. Len(tree.modules)
  BY ProjectsAssumption DEF Modules
<1>2. Modules \in SUBSET Nat /\ IsFiniteSet(Modules)
  BY <1>1, FS_Interval
<1>3. DOMAIN Edges = Modules /\ IsGraph(Edges) /\ \A m \in Modules : Edges[m] \in SUBSET Modules
  BY DEF Edges, EdgesOf, Modules, IsGraph
<1>4. IsComponents(Found, Edges)
  BY ProjectsAssumption DEF Edges, Found
<1> QED
  BY <1>1, <1>2, <1>3, <1>4

LEMMA TreeStill ==
  ASSUME UNCHANGED tree
  PROVE  Modules' = Modules /\ Edges' = Edges /\ Found' = Found
BY DEF Modules, Edges, Found

\* The components found are sets of modules.
LEMMA FoundFacts ==
  ASSUME tree \in Projects
  PROVE  /\ Found \in Seq(SUBSET Modules) /\ Len(Found) \in Nat
         /\ \A i \in 1 .. Len(Found) : /\ Found[i] \in SUBSET Modules /\ Found[i] # {}
                                       /\ IsFiniteSet(Found[i])
<1>1. Found \in Seq(SUBSET Modules) /\ \A i \in DOMAIN Found : Found[i] # {}
  BY GraphFacts DEF IsComponents
<1>2. Len(Found) \in Nat /\ DOMAIN Found = 1 .. Len(Found)
  BY <1>1
<1>3. \A i \in 1 .. Len(Found) : Found[i] \in SUBSET Modules
  BY <1>1, <1>2
<1>4. \A i \in 1 .. Len(Found) : IsFiniteSet(Found[i])
  BY <1>3, GraphFacts, FS_Subset
<1> QED
  BY <1>1, <1>2, <1>3, <1>4

\* The component examined next.
LEMMA NextFound ==
  ASSUME Shape, build # "loaded", left # <<>>
  PROVE  /\ Examined + 1 \in 1 .. Len(Found) /\ Head(left) = Found[Examined + 1]
         /\ Head(left) \in SUBSET Modules /\ Head(left) # {} /\ IsFiniteSet(Head(left))
         /\ Tail(left) \in Seq(SUBSET Modules) /\ Len(Tail(left)) = Len(left) - 1
         /\ \A i \in DOMAIN Tail(left) : Tail(left)[i] = left[i + 1]
<1> USE DEF Shape
<1>1. tree \in Projects /\ left \in Seq(SUBSET Modules)
  BY DEF Typed
<1>2. /\ Len(left) \in Nat \ {0} /\ DOMAIN left = 1 .. Len(left) /\ Head(left) = left[1]
      /\ Tail(left) \in Seq(SUBSET Modules) /\ Len(Tail(left)) = Len(left) - 1
      /\ \A i \in DOMAIN Tail(left) : Tail(left)[i] = left[i + 1]
  BY <1>1
<1>3. Examined \in Nat /\ left[1] = Found[Examined + 1]
  BY <1>2 DEF Progress
<1>4. Examined + 1 \in 1 .. Len(Found)
  BY <1>1, <1>2, <1>3, FoundFacts DEF Examined
<1> QED
  BY <1>1, <1>2, <1>3, <1>4, FoundFacts

\* The first of a nonempty set is one of it, and the least.
LEMMA FirstFacts ==
  ASSUME NEW S \in SUBSET Nat, IsFiniteSet(S), S # {}
  PROVE  First(S) \in S
<1>1. Cardinality(S) # 0
  BY FS_EmptySet
<1>2. Ascending(S) \in Seq(S) /\ Len(Ascending(S)) = Cardinality(S) /\ Cardinality(S) \in Nat
  BY AscendingFacts
<1> QED
  BY <1>1, <1>2 DEF First

\* Lists are put on the stack and into the queue one element per number.
Each(S, f) == [i \in DOMAIN Ascending(S) |-> f[Ascending(S)[i]]]

IsEach(s, S, f) ==
  /\ Len(s) = Cardinality(S) /\ Cardinality(S) \in Nat
  /\ \A i \in 1 .. Cardinality(S) : \E x \in S : s[i] = f[x]
  /\ \A x \in S : \E i \in 1 .. Cardinality(S) : s[i] = f[x]

LEMMA EachOf ==
  ASSUME NEW X, NEW S \in SUBSET Nat, IsFiniteSet(S), NEW f \in [S -> X]
  PROVE  Each(S, f) \in Seq(X) /\ IsEach(Each(S, f), S, f)
<1> DEFINE a == Ascending(S)
           n == Cardinality(S)
           s == Each(S, f)
<1>1. /\ a \in Seq(S) /\ DOMAIN a = 1 .. n /\ n \in Nat
      /\ \A x \in S : \E i \in DOMAIN a : a[i] = x
  BY AscendingFacts
<1>2. \A i \in 1 .. n : a[i] \in S
  BY <1>1
<1>3. s \in [1 .. n -> X] /\ \A i \in 1 .. n : s[i] = f[a[i]]
  BY <1>1, <1>2 DEF Each
<1>4. s \in Seq(X) /\ Len(s) = n
  <2> HIDE DEF s
  <2> QED
    BY <1>1, <1>3
<1> HIDE DEF a, s
<1> QED
  BY <1>1, <1>2, <1>3, <1>4 DEF s, IsEach

(***************************************************************************)
(* Shape is an invariant.                                                  *)
(***************************************************************************)
LEMMA ShapeInit == GraphInit => Shape
<1> SUFFICES ASSUME GraphInit PROVE Shape
  OBVIOUS
<1>1. Typed
  BY DEF GraphInit, Typed
<1>2. Phases
  BY DEF GraphInit, Phases
<1>3. Progress
  BY DEF GraphInit, Progress
<1> QED
  BY <1>1, <1>2, <1>3 DEF Shape

\* The search of a component goes on from one of its modules.
LEMMA SearchStep ==
  ASSUME Shape, queue # <<>>
  PROVE  /\ build = "detecting" /\ left # <<>>
         /\ Len(queue) \in Nat \ {0} /\ DOMAIN queue = 1 .. Len(queue)
         /\ queue[1] \in Seq(Modules) /\ queue[1] # <<>>
         /\ Len(queue[1]) \in Nat \ {0} /\ DOMAIN queue[1] = 1 .. Len(queue[1])
         /\ Tip \in Modules /\ queue[1][1] \in Modules /\ Tip = TipOf(queue[1])
         /\ Ahead \in SUBSET Modules /\ Ahead \ seen \in SUBSET Nat
         /\ IsFiniteSet(Ahead \ seen)
         /\ Tail(queue) \in Seq(Seq(Modules) \ {<<>>})
         /\ Len(Tail(queue)) = Len(queue) - 1
         /\ \A i \in 1 .. Len(queue) - 1 : Tail(queue)[i] = queue[i + 1]
<1>1. queue \in Seq(Seq(Modules) \ {<<>>}) /\ tree \in Projects
  BY DEF Shape, Typed
<1>2. build = "detecting" /\ left # <<>>
  BY DEF Shape, Phases
<1>3. /\ Len(queue) \in Nat \ {0} /\ DOMAIN queue = 1 .. Len(queue)
      /\ queue[1] \in Seq(Modules) /\ queue[1] # <<>>
      /\ Tail(queue) \in Seq(Seq(Modules) \ {<<>>})
      /\ Len(Tail(queue)) = Len(queue) - 1
      /\ \A i \in 1 .. Len(queue) - 1 : Tail(queue)[i] = queue[i + 1]
  BY <1>1
<1>4. /\ Len(queue[1]) \in Nat \ {0} /\ DOMAIN queue[1] = 1 .. Len(queue[1])
      /\ queue[1][1] \in Modules /\ queue[1][Len(queue[1])] \in Modules
  BY <1>3
<1>5. Tip \in Modules /\ Tip = TipOf(queue[1])
  BY <1>4 DEF Tip, TipOf
<1>6. Edges[Tip] \in SUBSET Modules
  BY <1>1, <1>5, GraphFacts
<1>7. Ahead \in SUBSET Modules
  BY <1>6 DEF Ahead
<1>8. Ahead \ seen \in SUBSET Nat /\ IsFiniteSet(Ahead \ seen)
  BY <1>1, <1>7, GraphFacts, FS_Subset
<1> QED
  BY <1>2, <1>3, <1>4, <1>5, <1>7, <1>8

\* Sequences end to end, and one element longer.
IsConcat(r, q, s) ==
  /\ Len(q) \in Nat /\ Len(s) \in Nat /\ Len(r) = Len(q) + Len(s)
  /\ \A i \in 1 .. Len(q) : r[i] = q[i]
  /\ \A i \in 1 .. Len(s) : r[Len(q) + i] = s[i]

LEMMA ConcatFacts ==
  ASSUME NEW X, NEW q \in Seq(X), NEW s \in Seq(X)
  PROVE  q \o s \in Seq(X) /\ IsConcat(q \o s, q, s)
<1>1. Len(q) \in Nat /\ Len(s) \in Nat
  OBVIOUS
<1>2. /\ q \o s \in Seq(X) /\ Len(q \o s) = Len(q) + Len(s)
      /\ \A i \in 1 .. Len(q) + Len(s) :
           (q \o s)[i] = IF i <= Len(q) THEN q[i] ELSE s[i - Len(q)]
  BY ConcatProperties, Zenon
<1> QED
  BY <1>1, <1>2 DEF IsConcat

LEMMA NoElements ==
  ASSUME NEW X, NEW q \in Seq(X), Len(q) = 0
  PROVE  q = <<>>
OBVIOUS

LEMMA AppendFacts ==
  ASSUME NEW X, NEW q \in Seq(X), NEW x \in X
  PROVE  /\ Append(q, x) \in Seq(X) \ {<<>>}
         /\ Len(q) \in Nat /\ Len(Append(q, x)) = Len(q) + 1
         /\ \A i \in 1 .. Len(q) : Append(q, x)[i] = q[i]
         /\ Append(q, x)[Len(q) + 1] = x
<1>1. Len(q) \in Nat
  OBVIOUS
<1>2. /\ Append(q, x) \in Seq(X) /\ Len(Append(q, x)) = Len(q) + 1
      /\ \A i \in 1 .. Len(q) : Append(q, x)[i] = q[i]
      /\ Append(q, x)[Len(q) + 1] = x
  BY AppendProperties
<1>3. Append(q, x) # <<>>
  <2>1. Len(<<>>) = 0
    OBVIOUS
  <2> QED
    BY <1>1, <1>2, <2>1
<1> QED
  BY <1>1, <1>2, <1>3

\* The queue when a path is continued.
Longer ==
  LET fresh == Ascending(Ahead \ seen)
  IN Tail(queue) \o [i \in DOMAIN fresh |-> Append(queue[1], fresh[i])]

LEMMA LongerFacts ==
  ASSUME Shape, queue # <<>>
  PROVE  LET n == Cardinality(Ahead \ seen)
         IN  /\ n \in Nat /\ Longer \in Seq(Seq(Modules) \ {<<>>})
             /\ Len(Longer) = (Len(queue) - 1) + n
             /\ \A i \in 1 .. Len(queue) - 1 : Longer[i] = queue[i + 1]
             /\ \A i \in 1 .. n : \E x \in Ahead \ seen :
                  Longer[(Len(queue) - 1) + i] = Append(queue[1], x)
             /\ \A x \in Ahead \ seen : \E i \in 1 .. n :
                  Longer[(Len(queue) - 1) + i] = Append(queue[1], x)
<1> DEFINE S == Ahead \ seen
           n == Cardinality(S)
           X == Seq(Modules) \ {<<>>}
           f == [x \in S |-> Append(queue[1], x)]
           s == Each(S, f)
           t == Tail(queue)
<1>1. /\ S \in SUBSET Nat /\ IsFiniteSet(S) /\ S \subseteq Modules
      /\ queue[1] \in Seq(Modules)
      /\ t \in Seq(X) /\ Len(t) = Len(queue) - 1
      /\ Len(queue) \in Nat \ {0}
      /\ \A i \in 1 .. Len(queue) - 1 : t[i] = queue[i + 1]
  BY SearchStep
<1>2. f \in [S -> X]
  <2> SUFFICES ASSUME NEW x \in S PROVE Append(queue[1], x) \in X
    OBVIOUS
  <2>1. x \in Modules
    BY <1>1
  <2> QED
    BY <1>1, <2>1, AppendFacts, Zenon
<1>3. Longer = t \o s
  <2>1. \A i \in DOMAIN Ascending(S) : Ascending(S)[i] \in S
    BY <1>1, AscendingFacts
  <2> QED
    BY <2>1 DEF Longer, Each
<1>4. \A x \in S : f[x] = Append(queue[1], x)
  OBVIOUS
<1> HIDE DEF f, X, S, t
<1>5. s \in Seq(X) /\ IsEach(s, S, f)
  BY <1>1, <1>2, EachOf, Zenon
<1> HIDE DEF s
<1>6. t \o s \in Seq(X) /\ IsConcat(t \o s, t, s)
  BY <1>1, <1>5, ConcatFacts, Zenon
<1>7. /\ n \in Nat /\ Longer \in Seq(X) /\ Len(Longer) = (Len(queue) - 1) + n
      /\ \A i \in 1 .. Len(queue) - 1 : Longer[i] = queue[i + 1]
      /\ \A i \in 1 .. n : Longer[(Len(queue) - 1) + i] = s[i]
  BY <1>1, <1>3, <1>5, <1>6 DEF IsEach, IsConcat
<1>8. ASSUME NEW i \in 1 .. n
      PROVE  \E x \in S : Longer[(Len(queue) - 1) + i] = Append(queue[1], x)
  <2>1. PICK x \in S : s[i] = f[x]
    BY <1>5 DEF IsEach
  <2> QED
    BY <1>4, <1>7, <2>1, Zenon
<1>9. ASSUME NEW x \in S
      PROVE  \E i \in 1 .. n : Longer[(Len(queue) - 1) + i] = Append(queue[1], x)
  <2>1. PICK i \in 1 .. n : s[i] = f[x]
    BY <1>5 DEF IsEach
  <2> QED
    BY <1>4, <1>7, <2>1, Zenon
<1> QED
  BY <1>7, <1>8, <1>9 DEF S, X, n

\* A component is done with.
LEMMA ShapeReport ==
  ASSUME Shape, build = "detecting", left # <<>>,
         left' = Tail(left), queue' = <<>> , seen' \in SUBSET Modules,
         UNCHANGED <<tree, emitVars, build>>
  PROVE  Shape' /\ Examined' = Examined + 1
<1> USE DEF emitVars
<1>1. Modules' = Modules /\ Edges' = Edges /\ Found' = Found
  BY TreeStill
<1>2. /\ Tail(left) \in Seq(SUBSET Modules) /\ Len(Tail(left)) = Len(left) - 1
      /\ \A i \in DOMAIN Tail(left) : Tail(left)[i] = left[i + 1]
  BY NextFound
<1>3. Typed'
  BY <1>1, <1>2 DEF Shape, Typed
<1>4. Phases'
  BY DEF Shape, Phases
<1>5. Examined \in Nat /\ \A i \in DOMAIN left : left[i] = Found[Examined + i]
  BY DEF Shape, Progress
<1>6. left \in Seq(SUBSET Modules) /\ tree \in Projects
  BY DEF Shape, Typed
<1>7. Len(left) \in Nat /\ Len(Found) \in Nat
  BY <1>6, FoundFacts
<1>8. Examined' = Examined + 1
  BY <1>1, <1>2, <1>7 DEF Examined
<1>9. \A i \in DOMAIN Tail(left) : Tail(left)[i] = Found[(Examined + 1) + i]
  <2> SUFFICES ASSUME NEW i \in DOMAIN Tail(left)
               PROVE  Tail(left)[i] = Found[(Examined + 1) + i]
    OBVIOUS
  <2>1. i \in Nat /\ i + 1 \in DOMAIN left
    BY <1>2, <1>6
  <2>2. Tail(left)[i] = left[i + 1] /\ left[i + 1] = Found[Examined + (i + 1)]
    BY <1>2, <1>5, <2>1, Zenon
  <2>3. Examined + (i + 1) = (Examined + 1) + i
    BY <1>5, <2>1
  <2> QED
    BY <2>2, <2>3, Zenon
<1>10. Progress'
  <2> HIDE DEF Examined
  <2> QED
    BY <1>1, <1>5, <1>8, <1>9 DEF Progress
<1> QED
  BY <1>3, <1>4, <1>8, <1>10 DEF Shape

\* What lies below v on the stack when it is entered, and the stack then.
Below(v) == Edges[v] \ (visited \cup {v})

Deeper(v) ==
  LET below == Ascending(Below(v))
  IN [i \in DOMAIN below |-> <<"enter", below[i]>>] \o << <<"exit", v>> >> \o Tail(stack)

LEMMA StackFacts ==
  ASSUME Shape, stack # <<>>
  PROVE  /\ Len(stack) \in Nat \ {0} /\ DOMAIN stack = 1 .. Len(stack)
         /\ \A i \in 1 .. Len(stack) : /\ stack[i][1] \in {"enter", "exit"}
                                       /\ stack[i][2] \in Modules
                                       /\ stack[i] = <<stack[i][1], stack[i][2]>>
         /\ Tail(stack) \in Seq({"enter", "exit"} \X Modules)
         /\ Len(Tail(stack)) = Len(stack) - 1
         /\ DOMAIN Tail(stack) = 1 .. Len(stack) - 1
         /\ \A i \in 1 .. Len(stack) - 1 : Tail(stack)[i] = stack[i + 1]
<1>1. stack \in Seq({"enter", "exit"} \X Modules)
  BY DEF Shape, Typed
<1>2. \A i \in DOMAIN stack : stack[i] \in {"enter", "exit"} \X Modules
  BY <1>1
<1>3. /\ Len(stack) \in Nat \ {0} /\ DOMAIN stack = 1 .. Len(stack)
      /\ Tail(stack) \in Seq({"enter", "exit"} \X Modules)
      /\ Len(Tail(stack)) = Len(stack) - 1 /\ DOMAIN Tail(stack) = 1 .. Len(stack) - 1
      /\ \A i \in 1 .. Len(stack) - 1 : Tail(stack)[i] = stack[i + 1]
  BY <1>1
<1> QED
  BY <1>2, <1>3

LEMMA DeeperFacts ==
  ASSUME Shape, stack # <<>>, NEW v \in Modules
  PROVE  LET n == Cardinality(Below(v))
         IN  /\ n \in Nat /\ Below(v) \in SUBSET Modules
             /\ Deeper(v) \in Seq({"enter", "exit"} \X Modules)
             /\ Len(Deeper(v)) = n + Len(stack)
             /\ \A i \in 1 .. n : \E x \in Below(v) : Deeper(v)[i] = <<"enter", x>>
             /\ \A x \in Below(v) : \E i \in 1 .. n : Deeper(v)[i] = <<"enter", x>>
             /\ Deeper(v)[n + 1] = <<"exit", v>>
             /\ \A i \in 2 .. Len(stack) : Deeper(v)[n + i] = stack[i]
<1> DEFINE S == Below(v)
           n == Cardinality(S)
           X == {"enter", "exit"} \X Modules
           f == [x \in S |-> <<"enter", x>>]
           s == Each(S, f)
           o == << <<"exit", v>> >>
           t == Tail(stack)
<1>1. S \in SUBSET Modules /\ S \in SUBSET Nat /\ IsFiniteSet(S)
  <2>1. tree \in Projects
    BY DEF Shape, Typed
  <2>2. S \in SUBSET Modules
    BY <2>1, GraphFacts DEF Below
  <2> HIDE DEF S
  <2> QED
    BY <2>1, <2>2, GraphFacts, FS_Subset
<1>2. /\ Len(stack) \in Nat \ {0} /\ t \in Seq(X) /\ Len(t) = Len(stack) - 1
      /\ \A i \in 1 .. Len(stack) - 1 : t[i] = stack[i + 1]
  BY StackFacts
<1>3. o \in Seq(X) /\ Len(o) = 1 /\ o[1] = <<"exit", v>>
  OBVIOUS
<1>4. f \in [S -> X] /\ \A x \in S : f[x] = <<"enter", x>>
  BY <1>1
<1>5. Deeper(v) = (s \o o) \o t
  <2>1. \A i \in DOMAIN Ascending(S) : Ascending(S)[i] \in S
    BY <1>1, AscendingFacts
  <2> QED
    BY <2>1 DEF Deeper, Each
<1> HIDE DEF f, X, S, o, t
<1>6. s \in Seq(X) /\ IsEach(s, S, f)
  BY <1>1, <1>4, EachOf, Zenon
<1> HIDE DEF s
<1>7. s \o o \in Seq(X) /\ IsConcat(s \o o, s, o)
  BY <1>3, <1>6, ConcatFacts, Zenon
<1>8. Deeper(v) \in Seq(X) /\ IsConcat(Deeper(v), s \o o, t)
  BY <1>2, <1>5, <1>7, ConcatFacts, Zenon
<1>9. n \in Nat /\ Len(s) = n
  BY <1>6 DEF IsEach
<1> HIDE DEF n
<1> DEFINE r == Deeper(v)
           so == s \o o
<1> HIDE DEF r, so
<1>10. /\ Len(so) = n + 1 /\ \A i \in 1 .. n : so[i] = s[i]
       /\ so[n + 1] = <<"exit", v>>
  BY <1>3, <1>7, <1>9 DEF IsConcat, so
<1>11. /\ Len(r) = n + Len(stack) /\ \A i \in 1 .. n + 1 : r[i] = so[i]
       /\ \A i \in 1 .. Len(stack) - 1 : r[n + 1 + i] = stack[i + 1]
  <2>1. IsConcat(r, so, t)
    BY <1>8 DEF r, so
  <2>2. /\ Len(so) = n + 1 /\ n \in Nat /\ Len(t) = Len(stack) - 1 /\ Len(stack) \in Nat
        /\ \A i \in 1 .. Len(stack) - 1 : t[i] = stack[i + 1]
    BY <1>2, <1>9, <1>10
  <2>3. Len(r) = n + Len(stack) /\ \A i \in 1 .. n + 1 : r[i] = so[i]
    BY <2>1, <2>2 DEF IsConcat
  <2>4. \A i \in 1 .. Len(stack) - 1 : r[n + 1 + i] = t[i]
    BY <2>1, <2>2 DEF IsConcat
  <2> QED
    BY <2>2, <2>3, <2>4
<1>12. \A i \in 1 .. n : r[i] = s[i]
  BY <1>9, <1>10, <1>11
<1>13. r[n + 1] = <<"exit", v>>
  BY <1>9, <1>10, <1>11
<1>14. ASSUME NEW i \in 2 .. Len(stack)
       PROVE  r[n + i] = stack[i]
  <2>1. i - 1 \in 1 .. Len(stack) - 1 /\ n + 1 + (i - 1) = n + i /\ (i - 1) + 1 = i
    BY <1>2, <1>9
  <2> QED
    BY <1>11, <2>1
<1>15. ASSUME NEW i \in 1 .. n
       PROVE  \E x \in S : r[i] = <<"enter", x>>
  <2>1. PICK x \in S : s[i] = f[x]
    BY <1>6 DEF IsEach, n
  <2> QED
    BY <1>4, <1>12, <2>1, Zenon
<1>16. ASSUME NEW x \in S
       PROVE  \E i \in 1 .. n : r[i] = <<"enter", x>>
  <2>1. PICK i \in 1 .. n : s[i] = f[x]
    BY <1>6 DEF IsEach, n
  <2> QED
    BY <1>4, <1>12, <2>1, Zenon
<1> QED
  BY <1>1, <1>8, <1>9, <1>11, <1>13, <1>14, <1>15, <1>16 DEF S, n, X, r

LEMMA ShapeNext == Shape /\ [GraphNext]_graphVars => Shape'
<1> SUFFICES ASSUME Shape, [GraphNext]_graphVars PROVE Shape'
  OBVIOUS
<1> USE DEF detectVars, emitVars
<1>1. /\ tree \in Projects /\ left \in Seq(SUBSET Modules)
      /\ seen \in SUBSET Modules /\ visited \in SUBSET Modules
      /\ Modules \in SUBSET Nat /\ IsFiniteSet(Modules)
  BY GraphFacts DEF Shape, Typed
<1>2. CASE DetectCycles
  <2> USE <1>2 DEF DetectCycles
  <2>1. Modules' = Modules /\ Found' = Found
    BY TreeStill
  <2>2. Found \in Seq(SUBSET Modules) /\ Len(Found) \in Nat
    BY <1>1, FoundFacts
  <2>3. left' = Found
    BY DEF Found
  <2>4. Typed'
    BY <2>1, <2>2, <2>3 DEF Shape, Typed
  <2>5. Phases'
    BY DEF Shape, Phases
  <2>6. Examined' = 0
    BY <2>1, <2>2, <2>3 DEF Examined
  <2>7. \A i \in DOMAIN Found : i = 0 + i
    BY <2>2
  <2>8. Progress'
    BY <2>1, <2>3, <2>6, <2>7 DEF Progress
  <2> QED
    BY <2>4, <2>5, <2>8 DEF Shape
<1>3. CASE ExamineAlone
  BY <1>1, <1>3, ShapeReport DEF ExamineAlone, NextComponent, Shape, Typed
<1>4. CASE BeginSearch
  <2> USE <1>4 DEF BeginSearch, NextComponent
  <2>1. Modules' = Modules /\ Found' = Found
    BY TreeStill
  <2>2. Head(left) \in SUBSET Modules /\ Head(left) # {} /\ IsFiniteSet(Head(left))
    BY NextFound
  <2>3. First(Head(left)) \in Modules
    BY <1>1, <2>2, FirstFacts
  <2>4. Typed'
    BY <2>1, <2>3 DEF Shape, Typed
  <2>5. Phases'
    BY DEF Shape, Phases
  <2>6. Progress'
    BY <2>1 DEF Shape, Progress, Examined
  <2> QED
    BY <2>4, <2>5, <2>6 DEF Shape
<1>5. CASE CloseCycle
  <2>1. left # <<>> /\ build = "detecting"
    BY <1>5, SearchStep DEF CloseCycle
  <2> QED
    BY <1>5, <2>1, ShapeReport DEF CloseCycle, Report
<1>6. CASE Extend
  <2> USE <1>6
  <2>1. build = "detecting" /\ queue # <<>> /\ left # <<>> /\ UNCHANGED <<tree, emitVars, build>>
    BY SearchStep DEF Extend
  <2>2. CASE Report(<<queue[1][1]>>)
    BY <2>1, <2>2, ShapeReport DEF Report
  <2>3. CASE queue' = Longer /\ seen' = seen \cup Ahead /\ UNCHANGED <<left, cycles>>
    <3>1. Modules' = Modules /\ Found' = Found
      BY <2>1, TreeStill
    <3>2. Longer \in Seq(Seq(Modules) \ {<<>>}) /\ Ahead \in SUBSET Modules
      BY <2>1, LongerFacts, SearchStep
    <3>3. Typed'
      BY <2>1, <2>3, <3>1, <3>2 DEF Shape, Typed
    <3>4. Phases'
      BY <2>1, <2>3 DEF Shape, Phases
    <3>5. Progress'
      BY <2>1, <2>3, <3>1 DEF Shape, Progress, Examined
    <3> QED
      BY <3>3, <3>4, <3>5 DEF Shape
  <2> QED
    BY <2>2, <2>3 DEF Extend, Longer
<1>7. CASE Decide
  <2> USE <1>7 DEF Decide
  <2>1. Modules' = Modules /\ Found' = Found
    BY TreeStill
  <2>2. Typed'
    BY <2>1 DEF Shape, Typed
  <2>3. Phases'
    BY DEF Shape, Phases
  <2>4. Progress'
    BY <2>1 DEF Shape, Progress, Examined
  <2> QED
    BY <2>2, <2>3, <2>4 DEF Shape
<1>8. CASE NextRoot
  <2> USE <1>8 DEF NextRoot
  <2> DEFINE others == Modules \ visited
             root == IF tree.root \in others THEN tree.root ELSE First(others)
  <2>1. Modules' = Modules /\ Found' = Found
    BY TreeStill
  <2>2. others # {} => root \in Modules
    <3>1. others \in SUBSET Nat /\ IsFiniteSet(others)
      BY <1>1, FS_Subset
    <3> QED
      BY <3>1, FirstFacts
  <2>3. \/ others = {} /\ build' = "emitted" /\ UNCHANGED stack
        \/ others # {} /\ stack' = << <<"enter", root>> >> /\ UNCHANGED build
    BY Zenon
  <2> HIDE DEF root
  <2>4. Typed'
    <3>1. stack' \in Seq({"enter", "exit"} \X Modules)
      <4> DEFINE X == {"enter", "exit"} \X Modules
                 r == <<"enter", root>>
      <4>1. others # {} => r \in X
        BY <2>2
      <4>2. stack \in Seq(X)
        BY DEF Shape, Typed
      <4>3. stack' = stack \/ (others # {} /\ stack' = <<r>>)
        BY <2>3, Zenon
      <4> HIDE DEF X, r
      <4>4. others # {} => <<r>> \in Seq(X)
        BY <4>1
      <4> QED
        BY <4>2, <4>3, <4>4 DEF X
    <3> QED
      BY <2>1, <3>1 DEF Shape, Typed
  <2>5. Phases'
    BY <1>1, <2>1, <2>3 DEF Shape, Phases
  <2>6. Progress'
    BY <2>1 DEF Shape, Progress, Examined
  <2> QED
    BY <2>4, <2>5, <2>6 DEF Shape
<1>9. CASE EnterModule
  <2> USE <1>9 DEF EnterModule
  <2> DEFINE v == stack[1][2]
  <2>1. Modules' = Modules /\ Found' = Found
    BY TreeStill
  <2>2. v \in Modules /\ Tail(stack) \in Seq({"enter", "exit"} \X Modules)
    BY StackFacts
  <2>3. \/ v \in visited /\ stack' = Tail(stack) /\ UNCHANGED visited
        \/ v \notin visited /\ visited' = visited \cup {v} /\ stack' = Deeper(v)
    BY Zenon DEF Deeper, Below
  <2>4. Deeper(v) \in Seq({"enter", "exit"} \X Modules)
    BY <2>2, DeeperFacts
  <2> HIDE DEF v
  <2>5. Typed'
    BY <2>1, <2>2, <2>3, <2>4 DEF Shape, Typed
  <2>6. Phases'
    BY <2>1, <2>3 DEF Shape, Phases
  <2>7. Progress'
    BY <2>1 DEF Shape, Progress, Examined
  <2> QED
    BY <2>5, <2>6, <2>7 DEF Shape
<1>10. CASE EmitModule
  <2> USE <1>10 DEF EmitModule
  <2>1. Modules' = Modules /\ Found' = Found
    BY TreeStill
  <2>2. stack[1][2] \in Modules /\ Tail(stack) \in Seq({"enter", "exit"} \X Modules)
    BY StackFacts
  <2>3. emitted \in Seq(Modules) /\ Append(emitted, stack[1][2]) \in Seq(Modules)
    BY <2>2 DEF Shape, Typed
  <2>4. Typed'
    BY <2>1, <2>2, <2>3 DEF Shape, Typed
  <2>5. Phases'
    BY <2>1 DEF Shape, Phases
  <2>6. Progress'
    BY <2>1 DEF Shape, Progress, Examined
  <2> QED
    BY <2>4, <2>5, <2>6 DEF Shape
<1>11. CASE UNCHANGED graphVars
  BY <1>11, TreeStill DEF graphVars, Shape, Typed, Phases, Progress, Examined
<1> QED
  BY <1>2, <1>3, <1>4, <1>5, <1>6, <1>7, <1>8, <1>9, <1>10, <1>11 DEF GraphNext

(***************************************************************************)
(* The emission.                                                           *)
(***************************************************************************)
Acyclic == \A m \in Modules : ~ OnCycle(m)

\* Import chains, module by module.
LEMMA Chains ==
  ASSUME tree \in Projects, NEW x \in Modules
  PROVE  /\ Reachable(x, Edges) \subseteq Modules
         /\ Edges[x] \subseteq Reachable(x, Edges)
         /\ \A y \in Reachable(x, Edges) : Edges[y] \subseteq Reachable(x, Edges)
         /\ Acyclic => x \notin Edges[x]
         /\ Acyclic => \A y \in Reachable(x, Edges) : x \notin Edges[y]
<1>1. IsGraph(Edges) /\ x \in DOMAIN Edges /\ DOMAIN Edges = Modules
  BY GraphFacts
<1>2. /\ Reachable(x, Edges) \subseteq Modules
      /\ Edges[x] \subseteq Reachable(x, Edges)
      /\ \A y \in Reachable(x, Edges) : Edges[y] \subseteq Reachable(x, Edges)
  BY <1>1, ReachableClosed DEF Closed
<1> QED
  BY <1>2 DEF Acyclic, OnCycle

LEMMA EmissionInit == GraphInit => Emission
<1> SUFFICES ASSUME GraphInit PROVE Emission
  OBVIOUS
<1>1. stack = <<>> /\ visited = {} /\ emitted = <<>>
  BY DEF GraphInit
<1>2. DOMAIN stack = {} /\ DOMAIN emitted = {}
  BY <1>1
<1>3. Open = {} /\ Done = {}
  BY <1>1, <1>2 DEF Open, Done
<1> QED
  BY <1>2, <1>3 DEF Emission, OpenModules, DoneModules, EmittedModules

LEMMA EmissionStill ==
  ASSUME Emission, UNCHANGED <<tree, emitVars>>
  PROVE  Emission'
<1>1. UNCHANGED <<tree, stack, visited, emitted>>
  BY DEF emitVars
<1>2. Edges' = Edges
  BY <1>1, TreeStill
<1>3. Open' = Open /\ Done' = Done
  BY <1>1 DEF Open, Done, IsExit
<1>4. OpenModules'
  BY <1>1, <1>2, <1>3 DEF Emission, OpenModules, IsExit
<1>5. DoneModules'
  BY <1>2, <1>3 DEF Emission, DoneModules
<1>6. EmittedModules'
  BY <1>1, <1>2, <1>3 DEF Emission, EmittedModules
<1> QED
  BY <1>4, <1>5, <1>6 DEF Emission

\* What OpenModules says of one module, and that open modules were entered.
LEMMA OpenFacts ==
  ASSUME Shape, OpenModules
  PROVE  /\ Open \subseteq visited /\ Open \cap Done = {} /\ visited = Open \cup Done
         /\ DOMAIN stack = 1 .. Len(stack) /\ Len(stack) \in Nat
         /\ \A k \in 1 .. Len(stack) : IsExit(k) => stack[k][2] \in Open
         /\ \A x \in Open : \E k \in 1 .. Len(stack) : IsExit(k) /\ stack[k][2] = x
         /\ \A k \in 1 .. Len(stack) : stack[k][2] \in Modules
<1>1. stack \in Seq({"enter", "exit"} \X Modules)
  BY DEF Shape, Typed
<1>2. DOMAIN stack = 1 .. Len(stack) /\ Len(stack) \in Nat
  BY <1>1
<1>3. \A k \in 1 .. Len(stack) : stack[k][2] \in Modules
  BY <1>1, <1>2
<1>4. Open \subseteq visited
  BY DEF Open, OpenModules
<1> QED
  BY <1>2, <1>3, <1>4 DEF Open, Done

\* The stack only grows above what is open, when no module is entered.
LEMMA EmissionRoot ==
  ASSUME Shape, Emission, NextRoot
  PROVE  Emission'
<1>1. /\ stack = <<>> /\ UNCHANGED <<tree, visited, emitted>>
      /\ stack' = <<>> \/ \E r : stack' = << <<"enter", r>> >>
  BY Zenon DEF NextRoot, detectVars
<1>2. Edges' = Edges
  BY <1>1, TreeStill
<1>3. \A k \in DOMAIN stack' : stack'[k][1] = "enter"
  <2>1. CASE stack' = <<>>
    BY <2>1
  <2>2. ASSUME NEW r, stack' = << <<"enter", r>> >> PROVE <1>3!:
    <3> DEFINE e == <<"enter", r>>
    <3>1. e[1] = "enter"
      OBVIOUS
    <3> HIDE DEF e
    <3>2. stack' = <<e>>
      BY <2>2 DEF e
    <3> QED
      BY <3>1, <3>2
  <2> QED
    BY <1>1, <2>1, <2>2
<1>4. \A k \in DOMAIN stack' : ~ IsExit(k)'
  BY <1>3 DEF IsExit
<1>5. Open = {} /\ Open' = {}
  BY <1>1, <1>4 DEF Open
<1>6. Done' = Done
  BY <1>1, <1>5 DEF Done
<1>7. OpenModules'
  BY <1>4 DEF OpenModules
<1>8. DoneModules' /\ EmittedModules'
  BY <1>1, <1>2, <1>6 DEF Emission, DoneModules, EmittedModules
<1> QED
  BY <1>7, <1>8 DEF Emission

\* A module entered before is left where it lies: it is done, or lies open
\* nearer to the top than any module that waits for it.
LEMMA EmissionSkip ==
  ASSUME Shape, Emission, Acyclic, stack # <<>>, ~ IsExit(1), stack[1][2] \in visited,
         stack' = Tail(stack), UNCHANGED <<tree, visited, emitted>>
  PROVE  Emission'
<1> DEFINE v == stack[1][2]
<1>1. /\ Len(stack) \in Nat \ {0} /\ DOMAIN stack = 1 .. Len(stack)
      /\ DOMAIN stack' = 1 .. Len(stack) - 1
      /\ \A k \in 1 .. Len(stack) - 1 : stack'[k] = stack[k + 1]
  BY StackFacts
<1>2. Edges' = Edges /\ Modules' = Modules
  BY TreeStill
<1>3. \A k \in 1 .. Len(stack) - 1 : IsExit(k)' <=> IsExit(k + 1)
  BY <1>1 DEF IsExit
<1>4. Open' = Open
  <2>1. ASSUME NEW x \in Open' PROVE x \in Open
    <3>1. PICK k \in 1 .. Len(stack) - 1 : IsExit(k)' /\ x = stack'[k][2]
      BY <1>1, <2>1 DEF Open
    <3>2. k + 1 \in 1 .. Len(stack) /\ IsExit(k + 1) /\ x = stack[k + 1][2]
      BY <1>1, <1>3, <3>1
    <3> QED
      BY <1>1, <3>2 DEF Open
  <2>2. ASSUME NEW x \in Open PROVE x \in Open'
    <3>1. PICK k \in 1 .. Len(stack) : IsExit(k) /\ x = stack[k][2]
      BY <1>1, <2>2 DEF Open
    <3>2. k # 1
      BY <3>1
    <3>3. k - 1 \in 1 .. Len(stack) - 1 /\ (k - 1) + 1 = k
      BY <1>1, <3>2
    <3>4. IsExit(k - 1)' /\ x = stack'[k - 1][2]
      BY <1>1, <1>3, <3>1, <3>3
    <3> QED
      BY <1>1, <3>3, <3>4 DEF Open
  <2> QED
    BY <2>1, <2>2
<1>5. Done' = Done
  BY <1>4 DEF Done
<1>6. OpenModules'
  <2> SUFFICES ASSUME NEW k \in DOMAIN stack', IsExit(k)'
               PROVE  /\ stack'[k][2] \in visited'
                      /\ \A j \in 1 .. k - 1 :
                           stack'[j][2] \in Reachable(stack'[k][2], Edges')
                      /\ \A n \in Edges'[stack'[k][2]] \ Done' :
                           \E j \in 1 .. k - 1 : stack'[j][2] = n
    BY DEF OpenModules
  <2> DEFINE u == stack[k + 1][2]
  <2>1. /\ k \in Nat /\ k + 1 \in 1 .. Len(stack)
        /\ stack'[k][2] = u
        /\ u \in visited
        /\ \A j \in 1 .. k : stack[j][2] \in Reachable(u, Edges)
        /\ \A n \in Edges[u] \ Done : \E j \in 1 .. k : stack[j][2] = n
    <3>1. k \in Nat /\ k + 1 \in 1 .. Len(stack) /\ (k + 1) - 1 = k
      BY <1>1
    <3>2. k + 1 \in DOMAIN stack /\ IsExit(k + 1) /\ stack'[k][2] = u
      BY <1>1, <1>3, <3>1
    <3> QED
      BY <3>1, <3>2 DEF Emission, OpenModules
  <2>2. ASSUME NEW n \in Edges[u] \ Done
        PROVE  \E j \in 1 .. k - 1 : stack[j + 1][2] = n
    <3>1. PICK j \in 1 .. k : stack[j][2] = n
      BY <2>1
    <3>2. CASE j # 1
      <4>1. j - 1 \in 1 .. k - 1 /\ (j - 1) + 1 = j
        BY <2>1, <3>2
      <4> QED
        BY <3>1, <4>1
    <3>3. CASE j = 1
      <4>1. n = v /\ n \in Open
        BY <3>1, <3>3, OpenFacts DEF Emission
      <4>2. PICK i \in 1 .. Len(stack) : IsExit(i) /\ stack[i][2] = n
        BY <4>1, OpenFacts DEF Emission
      <4>3. i # 1
        BY <4>2
      <4>4. tree \in Projects /\ n \in Modules /\ u \in Modules
        BY <2>1, <4>1, OpenFacts DEF Shape, Typed
      <4>5. n \notin Edges[n] /\ \A y \in Reachable(n, Edges) : n \notin Edges[y]
        BY <4>4, Chains
      <4>6. i # k + 1
        BY <4>2, <4>5, <2>2
      <4>7. ~ i > k + 1
        <5> SUFFICES ASSUME i > k + 1 PROVE FALSE
          OBVIOUS
        <5>1. k + 1 \in 1 .. i - 1 /\ i \in DOMAIN stack
          BY <1>1, <2>1
        <5>2. u \in Reachable(n, Edges)
          BY <4>2, <5>1 DEF Emission, OpenModules
        <5> QED
          BY <4>5, <5>2, <2>2
      <4>8. i - 1 \in 1 .. k - 1 /\ (i - 1) + 1 = i
        BY <1>1, <2>1, <4>3, <4>6, <4>7
      <4> QED
        BY <4>2, <4>8
    <3> QED
      BY <3>2, <3>3
  <2>3. \A j \in 1 .. k - 1 : j + 1 \in 1 .. k /\ stack'[j] = stack[j + 1]
    BY <1>1, <2>1
  <2> HIDE DEF u
  <2> QED
    BY <1>2, <1>5, <2>1, <2>2, <2>3
<1>7. DoneModules' /\ EmittedModules'
  BY <1>2, <1>5 DEF Emission, DoneModules, EmittedModules
<1> QED
  BY <1>6, <1>7 DEF Emission

\* A module entered for the first time is open, with its imports above it.
LEMMA EmissionEnter ==
  ASSUME Shape, Emission, Acyclic, stack # <<>>, ~ IsExit(1), stack[1][2] \notin visited,
         stack' = Deeper(stack[1][2]), visited' = visited \cup {stack[1][2]},
         UNCHANGED <<tree, emitted>>
  PROVE  Emission'
<1> DEFINE v == stack[1][2]
           n == Cardinality(Below(v))
<1>1. /\ Len(stack) \in Nat \ {0} /\ DOMAIN stack = 1 .. Len(stack)
      /\ v \in Modules /\ 1 \in 1 .. Len(stack)
  BY StackFacts
<1>2. /\ n \in Nat /\ Below(v) \in SUBSET Modules
      /\ Len(stack') = n + Len(stack)
      /\ \A i \in 1 .. n : \E x \in Below(v) : stack'[i] = <<"enter", x>>
      /\ \A x \in Below(v) : \E i \in 1 .. n : stack'[i] = <<"enter", x>>
      /\ stack'[n + 1] = <<"exit", v>>
      /\ \A i \in 2 .. Len(stack) : stack'[n + i] = stack[i]
  BY <1>1, DeeperFacts
<1>3. stack' \in Seq({"enter", "exit"} \X Modules)
  BY <1>1, DeeperFacts
<1>4. DOMAIN stack' = 1 .. n + Len(stack)
  BY <1>2, <1>3
<1>5. Edges' = Edges /\ Modules' = Modules /\ tree \in Projects
  BY TreeStill DEF Shape, Typed
<1> HIDE DEF n
<1>6. \A i \in 1 .. n : ~ IsExit(i)' /\ stack'[i][2] \in Below(v)
  BY <1>2 DEF IsExit
<1>7. stack'[n + 1][1] = "exit" /\ stack'[n + 1][2] = v
  BY <1>2
<1>8. \A i \in 2 .. Len(stack) : /\ stack'[n + i][1] = "exit" <=> IsExit(i)
                                /\ stack'[n + i][2] = stack[i][2]
  BY <1>2 DEF IsExit
\* The positions of the new stack.
<1>9. ASSUME NEW k \in 1 .. n + Len(stack)
      PROVE  k \in 1 .. n \/ k = n + 1 \/ \E i \in 2 .. Len(stack) : k = n + i
  <2>1. k \in 1 .. n \/ k = n + 1 \/ (k - n \in 2 .. Len(stack) /\ k = n + (k - n))
    BY <1>1, <1>2
  <2> QED
    BY <2>1
<1>10. v \notin Open /\ v \notin Done
  BY OpenFacts DEF Emission
<1>11. Open' = Open \cup {v}
  <2>1. ASSUME NEW x \in Open' PROVE x \in Open \cup {v}
    <3>1. PICK k \in 1 .. n + Len(stack) : IsExit(k)' /\ x = stack'[k][2]
      BY <1>4, <2>1 DEF Open
    <3>2. CASE k \in 1 .. n
      BY <1>6, <3>1, <3>2
    <3>3. CASE k = n + 1
      BY <1>7, <3>1, <3>3
    <3>4. ASSUME NEW i \in 2 .. Len(stack), k = n + i PROVE x \in Open
      <4>1. IsExit(i) /\ x = stack[i][2] /\ i \in 1 .. Len(stack)
        BY <1>1, <1>8, <3>1, <3>4 DEF IsExit
      <4> QED
        BY <1>1, <4>1 DEF Open
    <3> QED
      BY <1>9, <3>2, <3>3, <3>4
  <2>2. v \in Open'
    <3>1. n + 1 \in 1 .. n + Len(stack)
      BY <1>1, <1>2
    <3> QED
      BY <1>4, <1>7, <3>1 DEF Open, IsExit
  <2>3. ASSUME NEW x \in Open PROVE x \in Open'
    <3>1. PICK i \in 1 .. Len(stack) : IsExit(i) /\ x = stack[i][2]
      BY <1>1, <2>3 DEF Open
    <3>2. i \in 2 .. Len(stack) /\ n + i \in 1 .. n + Len(stack)
      <4>1. i # 1
        BY <3>1
      <4> QED
        BY <1>1, <1>2, <4>1
    <3>3. stack'[n + i][1] = "exit" /\ x = stack'[n + i][2]
      BY <1>8, <3>1, <3>2
    <3> QED
      BY <1>4, <3>2, <3>3 DEF Open, IsExit
  <2> QED
    BY <2>1, <2>2, <2>3
<1>12. Done' = Done
  BY <1>10, <1>11 DEF Done
<1>13. ASSUME NEW x \in Edges[v] \ Done
       PROVE  \E i \in 1 .. n : stack'[i][2] = x
  <2>1. x \in Modules /\ v \notin Edges[v]
    BY <1>1, <1>5, Chains, GraphFacts
  <2>2. x \notin Open
    <3> SUFFICES ASSUME x \in Open PROVE FALSE
      OBVIOUS
    <3>1. PICK k \in 1 .. Len(stack) : IsExit(k) /\ stack[k][2] = x
      BY OpenFacts DEF Emission
    <3>2. 1 \in 1 .. k - 1 /\ k \in DOMAIN stack
      <4>1. k # 1
        BY <3>1
      <4> QED
        BY <1>1, <4>1
    <3>3. v \in Reachable(x, Edges)
      BY <3>1, <3>2 DEF Emission, OpenModules
    <3> QED
      BY <1>5, <1>13, <2>1, <3>3, Chains
  <2>3. x \in Below(v)
    BY <1>13, <2>1, <2>2, OpenFacts DEF Below, Emission
  <2>4. PICK i \in 1 .. n : stack'[i] = <<"enter", x>>
    BY <1>2, <2>3 DEF n
  <2> QED
    BY <2>4
<1> DEFINE OpenAt(k, u) ==
             /\ u \in visited'
             /\ \A j \in 1 .. k - 1 : stack'[j][2] \in Reachable(u, Edges)
             /\ \A x \in Edges[u] \ Done : \E j \in 1 .. k - 1 : stack'[j][2] = x
<1>14. ASSUME NEW k \in DOMAIN stack', IsExit(k)'
       PROVE  OpenAt(k, stack'[k][2])
  <2>1. CASE k \in 1 .. n
    BY <1>6, <1>14, <2>1
  <2>2. CASE k = n + 1
    <3>1. stack'[k][2] = v /\ k - 1 = n
      BY <1>2, <1>7, <2>2
    <3>2. Below(v) \subseteq Reachable(v, Edges)
      BY <1>1, <1>5, Chains DEF Below
    <3> QED
      BY <1>6, <1>13, <3>1, <3>2
  <2>3. ASSUME NEW i \in 2 .. Len(stack), k = n + i
        PROVE  OpenAt(k, stack'[k][2])
    <3> DEFINE u == stack[i][2]
    <3>1. stack'[k][2] = u /\ IsExit(i) /\ i \in DOMAIN stack /\ i \in 1 .. Len(stack)
      BY <1>1, <1>8, <1>14, <2>3 DEF IsExit
    <3>2. /\ u \in visited
          /\ \A j \in 1 .. i - 1 : stack[j][2] \in Reachable(u, Edges)
          /\ \A x \in Edges[u] \ Done : \E j \in 1 .. i - 1 : stack[j][2] = x
      BY <3>1 DEF Emission, OpenModules
    <3>3. u \in Modules /\ 1 \in 1 .. i - 1
      BY <1>1, <3>1, StackFacts
    <3>4. Edges[v] \subseteq Reachable(u, Edges)
      BY <1>5, <3>2, <3>3, Chains
    <3> HIDE DEF u, v
    <3>5. ASSUME NEW j \in 1 .. k - 1
          PROVE  stack'[j][2] \in Reachable(u, Edges)
      <4>1. j \in 1 .. n \/ j = n + 1 \/ \E m \in 2 .. i - 1 : j = n + m
        <5>1. j \in 1 .. n \/ j = n + 1 \/ (j - n \in 2 .. i - 1 /\ j = n + (j - n))
          BY <1>1, <1>2, <2>3
        <5> QED
          BY <5>1
      <4>2. CASE j \in 1 .. n
        BY <1>6, <3>4, <4>2 DEF Below
      <4>3. CASE j = n + 1
        BY <1>7, <3>2, <3>3, <4>3 DEF v
      <4>4. ASSUME NEW m \in 2 .. i - 1, j = n + m PROVE stack'[j][2] \in Reachable(u, Edges)
        <5>1. m \in 2 .. Len(stack) /\ m \in 1 .. i - 1
          BY <1>1
        <5> QED
          BY <1>8, <3>2, <4>4, <5>1
      <4> QED
        BY <4>1, <4>2, <4>3, <4>4
    <3>6. ASSUME NEW x \in Edges[u] \ Done
          PROVE  \E j \in 1 .. k - 1 : stack'[j][2] = x
      <4>1. PICK m \in 1 .. i - 1 : stack[m][2] = x
        BY <3>2
      <4>2. n + m \in 1 .. k - 1
        BY <1>1, <1>2, <2>3
      <4>3. stack'[n + m][2] = x
        <5>1. CASE m = 1
          BY <1>7, <4>1, <5>1 DEF v
        <5>2. CASE m # 1
          <6>1. m \in 2 .. Len(stack)
            BY <1>1, <5>2
          <6> QED
            BY <1>8, <4>1, <6>1
        <5> QED
          BY <5>1, <5>2
      <4> QED
        BY <4>2, <4>3
    <3>7. OpenAt(k, u)
      BY <3>2, <3>5, <3>6
    <3> HIDE DEF OpenAt
    <3> QED
      BY <3>1, <3>7
  <2> HIDE DEF OpenAt
  <2> QED
    BY <1>4, <1>9, <1>14, <2>1, <2>2, <2>3
<1>15. OpenModules'
  BY <1>5, <1>12, <1>14 DEF OpenModules
<1>16. DoneModules' /\ EmittedModules'
  BY <1>5, <1>12 DEF Emission, DoneModules, EmittedModules
<1> QED
  BY <1>15, <1>16 DEF Emission

\* A module left is done: all it imports was done before.
LEMMA EmissionExit ==
  ASSUME Shape, Emission, Acyclic, EmitModule
  PROVE  Emission'
<1> DEFINE v == stack[1][2]
<1>1. /\ stack # <<>> /\ IsExit(1) /\ stack' = Tail(stack)
      /\ emitted' = IF v \in tree.synthetic THEN emitted ELSE Append(emitted, v)
      /\ UNCHANGED <<tree, visited>>
  BY DEF EmitModule, IsExit, detectVars
<1>2. /\ Len(stack) \in Nat \ {0} /\ DOMAIN stack = 1 .. Len(stack)
      /\ DOMAIN stack' = 1 .. Len(stack) - 1
      /\ \A k \in 1 .. Len(stack) - 1 : stack'[k] = stack[k + 1]
  BY <1>1, StackFacts
<1>3. Edges' = Edges /\ Modules' = Modules /\ tree \in Projects
  BY <1>1, TreeStill DEF Shape, Typed
<1>4. \A k \in 1 .. Len(stack) - 1 : IsExit(k)' <=> IsExit(k + 1)
  BY <1>2 DEF IsExit
<1>5. v \in Modules /\ v \in Open
  <2>1. 1 \in 1 .. Len(stack)
    BY <1>2
  <2> QED
    BY <1>1, <2>1, OpenFacts DEF Emission
<1>6. Edges[v] \subseteq Done
  <2>1. 1 \in DOMAIN stack /\ ~ \E j \in 1 .. 1 - 1 : TRUE
    BY <1>2
  <2>2. \A n \in Edges[v] \ Done : \E j \in 1 .. 1 - 1 : stack[j][2] = n
    BY <1>1, <2>1 DEF Emission, OpenModules
  <2> QED
    BY <2>1, <2>2
<1>7. ASSUME NEW k \in 1 .. Len(stack), IsExit(k), stack[k][2] = v
      PROVE  k = 1
  <2> SUFFICES ASSUME k # 1 PROVE FALSE
    OBVIOUS
  <2>1. k \in DOMAIN stack /\ 1 \in 1 .. k - 1
    BY <1>2
  <2>2. v \in Reachable(v, Edges)
    BY <1>7, <2>1 DEF Emission, OpenModules
  <2> QED
    BY <1>5, <2>2 DEF Acyclic, OnCycle
<1>8. Open' = Open \ {v}
  <2>1. ASSUME NEW x \in Open' PROVE x \in Open \ {v}
    <3>1. PICK k \in 1 .. Len(stack) - 1 : IsExit(k)' /\ x = stack'[k][2]
      BY <1>2, <2>1 DEF Open
    <3>2. k + 1 \in 1 .. Len(stack) /\ IsExit(k + 1) /\ x = stack[k + 1][2] /\ k + 1 # 1
      BY <1>2, <1>4, <3>1
    <3>3. x # v
      BY <1>7, <3>2
    <3> QED
      BY <1>2, <3>2, <3>3 DEF Open
  <2>2. ASSUME NEW x \in Open \ {v} PROVE x \in Open'
    <3>1. PICK k \in 1 .. Len(stack) : IsExit(k) /\ x = stack[k][2]
      BY <1>2, <2>2 DEF Open
    <3>2. k # 1
      BY <2>2, <3>1
    <3>3. k - 1 \in 1 .. Len(stack) - 1 /\ (k - 1) + 1 = k
      BY <1>2, <3>2
    <3>4. IsExit(k - 1)' /\ x = stack'[k - 1][2]
      BY <1>2, <1>4, <3>1, <3>3
    <3> QED
      BY <1>2, <3>3, <3>4 DEF Open
  <2> QED
    BY <2>1, <2>2
<1>9. Done' = Done \cup {v} /\ v \notin Done
  BY <1>1, <1>5, <1>8, OpenFacts DEF Done, Emission
<1>10. OpenModules'
  <2> SUFFICES ASSUME NEW k \in DOMAIN stack', IsExit(k)'
               PROVE  /\ stack'[k][2] \in visited'
                      /\ \A j \in 1 .. k - 1 :
                           stack'[j][2] \in Reachable(stack'[k][2], Edges')
                      /\ \A n \in Edges'[stack'[k][2]] \ Done' :
                           \E j \in 1 .. k - 1 : stack'[j][2] = n
    BY DEF OpenModules
  <2> DEFINE u == stack[k + 1][2]
  <2>1. /\ k \in Nat /\ k + 1 \in 1 .. Len(stack)
        /\ stack'[k][2] = u
        /\ u \in visited
        /\ \A j \in 1 .. k : stack[j][2] \in Reachable(u, Edges)
        /\ \A n \in Edges[u] \ Done : \E j \in 1 .. k : stack[j][2] = n
    <3>1. k \in Nat /\ k + 1 \in 1 .. Len(stack) /\ (k + 1) - 1 = k
      BY <1>2
    <3>2. k + 1 \in DOMAIN stack /\ IsExit(k + 1) /\ stack'[k][2] = u
      BY <1>2, <1>4, <3>1
    <3> QED
      BY <3>1, <3>2 DEF Emission, OpenModules
  <2>2. ASSUME NEW n \in Edges[u] \ (Done \cup {v})
        PROVE  \E j \in 1 .. k - 1 : stack[j + 1][2] = n
    <3>1. PICK j \in 1 .. k : stack[j][2] = n
      BY <2>1, <2>2
    <3>2. j # 1
      BY <2>2, <3>1
    <3>3. j - 1 \in 1 .. k - 1 /\ (j - 1) + 1 = j
      BY <2>1, <3>2
    <3> QED
      BY <3>1, <3>3
  <2>3. \A j \in 1 .. k - 1 : j + 1 \in 1 .. k /\ stack'[j] = stack[j + 1]
    BY <1>2, <2>1
  <2> HIDE DEF u
  <2> QED
    BY <1>1, <1>3, <1>9, <2>1, <2>2, <2>3
<1>11. DoneModules'
  BY <1>3, <1>6, <1>9 DEF Emission, DoneModules
<1>12. EmittedModules'
  <2>1. EmittedModules
    BY DEF Emission
  <2>2. CASE v \in tree.synthetic
    BY <1>1, <1>3, <1>9, <2>1, <2>2 DEF EmittedModules
  <2>3. CASE v \notin tree.synthetic
    <3> DEFINE m == Len(emitted)
    <3>1. emitted \in Seq(Modules)
      BY DEF Shape, Typed
    <3>2. /\ emitted' \in Seq(Modules) /\ m \in Nat /\ Len(emitted') = m + 1
          /\ \A i \in 1 .. m : emitted'[i] = emitted[i]
          /\ emitted'[m + 1] = v
      BY <1>1, <1>5, <2>3, <3>1, AppendFacts
    <3>3. DOMAIN emitted = 1 .. m /\ DOMAIN emitted' = 1 .. m + 1
      BY <3>1, <3>2
    <3> HIDE DEF m, v
    <3>4. \A i \in 1 .. m + 1 : i \in 1 .. m \/ i = m + 1
      BY <3>2
    <3>5. {emitted'[i] : i \in DOMAIN emitted'} = {emitted[i] : i \in DOMAIN emitted} \cup {v}
      <4>1. 1 .. m \subseteq 1 .. m + 1 /\ m + 1 \in 1 .. m + 1
        BY <3>2
      <4> QED
        BY <3>2, <3>3, <3>4, <4>1
    <3>6. \A i \in 1 .. m : emitted[i] \in Done \ tree.synthetic
      BY <2>1, <3>3 DEF EmittedModules
    <3>7. \A i, j \in 1 .. m + 1 : emitted'[i] = emitted'[j] => i = j
      <4>1. \A i, j \in 1 .. m : emitted[i] = emitted[j] => i = j
        BY <2>1, <3>3 DEF EmittedModules
      <4> QED
        BY <1>9, <3>2, <3>4, <3>6, <4>1
    <3>8. ASSUME NEW i \in 1 .. m + 1, NEW n \in Edges[emitted'[i]] \ tree.synthetic
          PROVE  \E j \in 1 .. i - 1 : emitted'[j] = n
      <4>1. CASE i = m + 1
        <5>1. n \in Done \ tree.synthetic
          BY <1>6, <3>2, <3>8, <4>1
        <5>2. PICK j \in DOMAIN emitted : emitted[j] = n
          BY <2>1, <5>1 DEF EmittedModules
        <5>3. j \in 1 .. i - 1 /\ emitted'[j] = n
          BY <3>2, <3>3, <4>1, <5>2
        <5> QED
          BY <5>3
      <4>2. CASE i \in 1 .. m
        <5>1. n \in Edges[emitted[i]] \ tree.synthetic /\ i \in DOMAIN emitted
          BY <3>2, <3>3, <3>8, <4>2
        <5>2. PICK j \in 1 .. i - 1 : emitted[j] = n
          BY <2>1, <5>1 DEF EmittedModules
        <5>3. j \in 1 .. m
          BY <3>2, <4>2
        <5> QED
          BY <3>2, <5>2, <5>3
      <4> QED
        BY <3>4, <4>1, <4>2
    <3>9. Done' \ tree.synthetic = (Done \ tree.synthetic) \cup {v}
      BY <1>9, <2>3
    <3>10. {emitted'[i] : i \in DOMAIN emitted'} = Done' \ tree.synthetic
      BY <2>1, <3>5, <3>9 DEF EmittedModules
    <3> QED
      BY <1>1, <1>3, <3>3, <3>7, <3>8, <3>10 DEF EmittedModules
  <2> QED
    BY <2>2, <2>3
<1> QED
  BY <1>10, <1>11, <1>12 DEF Emission

LEMMA EmissionNext ==
  ASSUME Shape, Emission, build = "emitting" => Acyclic, [GraphNext]_graphVars
  PROVE  Emission'
<1>1. CASE NextRoot
  BY <1>1, EmissionRoot
<1>2. CASE EnterModule
  <2>1. /\ stack # <<>> /\ ~ IsExit(1) /\ build = "emitting" /\ UNCHANGED <<tree, emitted>>
    BY <1>2 DEF EnterModule, IsExit, detectVars
  <2>2. \/ stack[1][2] \in visited /\ stack' = Tail(stack) /\ UNCHANGED visited
        \/ /\ stack[1][2] \notin visited /\ visited' = visited \cup {stack[1][2]}
           /\ stack' = Deeper(stack[1][2])
    BY <1>2, Zenon DEF EnterModule, Deeper, Below
  <2> QED
    BY <2>1, <2>2, EmissionSkip, EmissionEnter
<1>3. CASE EmitModule
  BY <1>3, EmissionExit DEF EmitModule
<1>4. CASE UNCHANGED <<tree, emitVars>>
  BY <1>4, EmissionStill
<1> QED
  BY <1>1, <1>2, <1>3, <1>4
     DEF GraphNext, graphVars, DetectCycles, ExamineAlone, BeginSearch, CloseCycle, Extend, Decide

\* What the emission keeps gives what is asked of it.
LEMMA EmissionOrder == Shape /\ Emission => DependenciesFirst
<1> SUFFICES ASSUME Shape, Emission PROVE DependenciesFirst
  OBVIOUS
<1>1. EmittedModules
  BY DEF Emission
<1>2. build = "emitted" => Done = Modules
  <2> SUFFICES ASSUME build = "emitted" PROVE Done = Modules
    OBVIOUS
  <2>1. stack = <<>> /\ visited = Modules
    BY DEF Shape, Phases
  <2>2. DOMAIN stack = {}
    BY <2>1
  <2>3. Open = {}
    BY <2>2 DEF Open
  <2> QED
    BY <2>1, <2>3 DEF Done
<1> QED
  BY <1>1, <1>2 DEF EmittedModules, DependenciesFirst

(***************************************************************************)
(* The components found, and the cycles in them.                           *)
(***************************************************************************)

\* A component, seen from one of its modules.
LEMMA ComponentFacts ==
  ASSUME tree \in Projects, NEW i \in 1 .. Len(Found), NEW start \in Found[i]
  PROVE  /\ start \in Modules /\ Found[i] \in SUBSET Modules
         /\ \A x \in Found[i] : x # start => Mutual(x, start, Edges)
         /\ \A x \in Modules : Mutual(x, start, Edges) => x \in Found[i]
<1>1. /\ \A v \in Modules : \E j \in DOMAIN Found : v \in Found[j]
      /\ \A j, k \in DOMAIN Found : \A m \in Found[j], n \in Found[k] :
           j = k <=> (m = n \/ Mutual(m, n, Edges))
      /\ DOMAIN Found = 1 .. Len(Found)
  <2>1. Found \in Seq(SUBSET Modules)
    BY FoundFacts
  <2> QED
    BY <2>1, GraphFacts DEF IsComponents
<1>2. Found[i] \in SUBSET Modules /\ start \in Modules
  BY FoundFacts
<1>3. ASSUME NEW x \in Modules, Mutual(x, start, Edges) PROVE x \in Found[i]
  <2>1. PICK j \in DOMAIN Found : x \in Found[j]
    BY <1>1
  <2> QED
    BY <1>1, <1>3, <2>1
<1>4. \A x \in Found[i] : x # start => Mutual(x, start, Edges)
  BY <1>1
<1> QED
  BY <1>2, <1>3, <1>4

\* A set of modules of a component that no import leads out of, but to other
\* components, is all of it.
LEMMA Surrounded ==
  ASSUME tree \in Projects, NEW i \in 1 .. Len(Found), NEW start \in Found[i],
         NEW S, S \subseteq Found[i], start \in S,
         \A u \in S : Edges[u] \cap Found[i] \subseteq S
  PROVE  S = Found[i]
<1> DEFINE scc == Found[i]
           X == S \cup {n \in Reachable(start, Edges) : n \notin scc}
<1>1. /\ start \in Modules /\ scc \in SUBSET Modules
      /\ \A x \in scc : x # start => Mutual(x, start, Edges)
      /\ \A x \in Modules : Mutual(x, start, Edges) => x \in scc
  BY ComponentFacts
<1>2. /\ Reachable(start, Edges) \subseteq Modules
      /\ Edges[start] \subseteq Reachable(start, Edges)
      /\ \A y \in Reachable(start, Edges) : Edges[y] \subseteq Reachable(start, Edges)
  BY <1>1, Chains
<1>3. \A u \in S : Edges[u] \subseteq Reachable(start, Edges)
  BY <1>1, <1>2 DEF Mutual
<1>4. \A u \in S : Edges[u] \subseteq X
  BY <1>3
<1>5. ASSUME NEW n \in Reachable(start, Edges), n \notin scc, NEW m \in Edges[n] \cap scc
      PROVE  FALSE
  <2>1. n \in Modules /\ m \in Reachable(n, Edges) /\ Edges[n] \subseteq Reachable(n, Edges)
    BY <1>2, <1>5, Chains
  <2>2. m = start \/ start \in Reachable(m, Edges)
    BY <1>1, <1>5 DEF Mutual
  <2>3. start \in Reachable(n, Edges)
    <3>1. Reachable(m, Edges) \subseteq Reachable(n, Edges)
      BY <2>1, GraphFacts, ReachableTransitive
    <3> QED
      BY <2>1, <2>2, <3>1
  <2> QED
    BY <1>1, <1>5, <2>1, <2>3 DEF Mutual
<1>6. X \in SUBSET Modules /\ Closed(X, Edges) /\ Edges[start] \subseteq X
  <2>1. X \in SUBSET Modules
    BY <1>1, <1>2
  <2>2. ASSUME NEW n \in X PROVE Edges[n] \subseteq X
    <3>1. CASE n \in S
      BY <1>4, <3>1
    <3>2. CASE n \in Reachable(start, Edges) /\ n \notin scc
      <4>1. Edges[n] \cap scc = {}
        BY <1>5, <3>2
      <4> QED
        BY <1>2, <3>2, <4>1
    <3> QED
      BY <3>1, <3>2
  <2> QED
    BY <1>4, <2>1, <2>2 DEF Closed
<1>7. Reachable(start, Edges) \subseteq X
  <2> HIDE DEF X
  <2> QED
    BY <1>6, GraphFacts, ReachableLeast
<1> QED
  BY <1>1, <1>7 DEF Mutual

\* In a component of several modules something leads back to each of them.
LEMMA LedBack ==
  ASSUME tree \in Projects, NEW i \in 1 .. Len(Found), NEW start \in Found[i],
         NEW y \in Found[i], y # start
  PROVE  /\ \E u \in Found[i] : u # start /\ start \in Edges[u]
         /\ OnCycle(start)
<1>1. /\ start \in Modules /\ y \in Modules /\ Found[i] \in SUBSET Modules
      /\ Mutual(y, start, Edges)
      /\ \A x \in Modules : Mutual(x, start, Edges) => x \in Found[i]
  BY ComponentFacts
<1>2. IsGraph(Edges) /\ DOMAIN Edges = Modules
  BY GraphFacts
<1>3. /\ Reachable(y, Edges) \subseteq Reachable(start, Edges)
      /\ start \in Reachable(y, Edges)
  BY <1>1, <1>2, ReachableTransitive DEF Mutual
<1>4. OnCycle(start)
  BY <1>3 DEF OnCycle
<1>5. CASE start \in Edges[y]
  BY <1>4, <1>5
<1>6. CASE start \notin Edges[y]
  <2>1. PICK u \in Reachable(y, Edges) : u # start /\ start \in Edges[u]
    BY <1>1, <1>2, <1>3, <1>6, ReachableLastStep
  <2>2. u \in Modules /\ u \in Reachable(start, Edges)
    BY <1>1, <1>3, <2>1, Chains
  <2>3. start \in Reachable(u, Edges)
    BY <2>1, <2>2, Chains
  <2> QED
    BY <1>1, <1>4, <2>1, <2>2, <2>3 DEF Mutual
<1> QED
  BY <1>5, <1>6

\* A module alone in its component is on a cycle only if it imports itself.
LEMMA AloneFacts ==
  ASSUME tree \in Projects, NEW i \in 1 .. Len(Found), NEW x, Found[i] = {x}
  PROVE  x \in Modules /\ (OnCycle(x) <=> x \in Edges[x])
<1>1. /\ x \in Modules
      /\ \A y \in Modules : Mutual(y, x, Edges) => y = x
  BY ComponentFacts
<1>2. IsGraph(Edges) /\ DOMAIN Edges = Modules
  BY GraphFacts
<1>3. Edges[x] \subseteq Reachable(x, Edges)
  BY <1>1, Chains
<1>4. ASSUME OnCycle(x), x \notin Edges[x] PROVE FALSE
  <2>1. PICK u \in Reachable(x, Edges) : u # x /\ x \in Edges[u]
    BY <1>1, <1>2, <1>4, ReachableLastStep DEF OnCycle
  <2>2. u \in Modules /\ x \in Reachable(u, Edges)
    BY <1>1, <2>1, Chains
  <2> QED
    BY <1>1, <2>1, <2>2 DEF Mutual
<1> QED
  BY <1>1, <1>3, <1>4 DEF OnCycle

\* The modules of a cycle belong to one component.
LEMMA CycleInComponent ==
  ASSUME tree \in Projects, NEW i \in 1 .. Len(Found), NEW k \in Nat \ {0},
         NEW q \in [1 .. k -> Modules], q[1] \in Found[i],
         \A j \in 1 .. k - 1 : q[j + 1] \in Edges[q[j]], q[1] \in Edges[q[k]]
  PROVE  \A j \in 1 .. k : q[j] \in Found[i]
<1> DEFINE start == q[1]
           R == Reachable(start, Edges)
           Up == {j \in 1 .. k : q[j] = start \/ q[j] \in R}
           Down == {j \in 1 .. k : start \in Reachable(q[j], Edges)}
<1>1. /\ start \in Modules
      /\ \A x \in Modules : Mutual(x, start, Edges) => x \in Found[i]
  BY ComponentFacts
<1>2. IsGraph(Edges) /\ DOMAIN Edges = Modules
  BY GraphFacts
<1>3. 1 \in 1 .. k /\ k \in 1 .. k /\ \A j \in 1 .. k - 1 : j \in 1 .. k /\ j + 1 \in 1 .. k
  OBVIOUS
<1>4. Edges[start] \subseteq R /\ \A y \in R : Edges[y] \subseteq R
  BY <1>1, Chains
<1>5. 1 .. k \subseteq Up
  <2>1. 1 \in Up
    BY <1>3
  <2>2. ASSUME NEW j \in 1 .. k - 1, j \in Up PROVE j + 1 \in Up
    <3>1. q[j + 1] \in Edges[q[j]]
      OBVIOUS
    <3>2. q[j + 1] \in R
      BY <1>4, <2>2, <3>1
    <3> QED
      BY <1>3, <3>2
  <2> HIDE DEF Up
  <2> QED
    BY <2>1, <2>2, IntervalUp
<1>6. 1 .. k \subseteq Down
  <2>1. k \in Down
    BY <1>3, Chains
  <2>2. ASSUME NEW j \in 1 .. k - 1, j + 1 \in Down PROVE j \in Down
    <3>1. /\ q[j] \in Modules /\ q[j + 1] \in Modules
          /\ q[j + 1] \in Edges[q[j]] /\ start \in Reachable(q[j + 1], Edges)
      BY <1>3, <2>2
    <3>2. q[j + 1] \in Reachable(q[j], Edges)
      BY <3>1, Chains
    <3>3. start \in Reachable(q[j], Edges)
      BY <1>2, <3>1, <3>2, ReachableTransitive
    <3> QED
      BY <1>3, <3>3
  <2> HIDE DEF Down
  <2> QED
    BY <2>1, <2>2, IntervalDown
<1>7. ASSUME NEW j \in 1 .. k PROVE q[j] \in Found[i]
  <2>1. q[j] \in Modules /\ (q[j] = start \/ Mutual(q[j], start, Edges))
    BY <1>5, <1>6 DEF Mutual
  <2> QED
    BY <1>1, <2>1
<1> QED
  BY <1>7

(***************************************************************************)
(* The search.                                                             *)
(***************************************************************************)

\* The search as Search describes it, at a step of it.
LEMMA SearchFacts ==
  ASSUME Shape, Search, queue # <<>>
  PROVE  LET p == queue[1]
             start == p[1]
         IN  /\ Examined + 1 \in 1 .. Len(Found) /\ Head(left) = Found[Examined + 1]
             /\ start \in seen /\ seen \subseteq Head(left) /\ start \in Head(left)
             /\ \E y \in Head(left) : y # start
             /\ p \in Seq(Modules) /\ Len(p) \in Nat \ {0} /\ DOMAIN p = 1 .. Len(p)
             /\ PathFrom(p, start, seen, Edges)
             /\ Tip = p[Len(p)] /\ Tip \in seen
             /\ \A i \in DOMAIN queue : /\ Len(queue[i]) \in Nat /\ Len(p) <= Len(queue[i])
                                        /\ PathFrom(queue[i], start, seen, Edges)
                                        /\ TipOf(queue[i]) \in seen
<1> DEFINE p == queue[1]
           start == p[1]
<1>1. /\ build # "loaded" /\ left # <<>>
      /\ Len(queue) \in Nat \ {0} /\ DOMAIN queue = 1 .. Len(queue) /\ 1 \in DOMAIN queue
      /\ p \in Seq(Modules) /\ Len(p) \in Nat \ {0} /\ DOMAIN p = 1 .. Len(p)
      /\ Tip = p[Len(p)]
  BY SearchStep DEF TipOf
<1>2. /\ Examined + 1 \in 1 .. Len(Found) /\ Head(left) = Found[Examined + 1]
      /\ IsFiniteSet(Head(left))
  BY <1>1, NextFound
<1>3. Searching(start, queue, seen, Head(left), Edges)
  BY DEF Search
<1>4. /\ start \in seen /\ seen \subseteq Head(left) /\ start \in Head(left)
      /\ \A i \in DOMAIN queue : PathFrom(queue[i], start, seen, Edges)
      /\ \A i \in DOMAIN queue : Len(p) <= Len(queue[i])
  BY <1>1, <1>3 DEF Searching
<1>5. \E y \in Head(left) : y # start
  <2> SUFFICES ASSUME \A y \in Head(left) : y = start PROVE FALSE
    OBVIOUS
  <2>1. Head(left) = {start}
    BY <1>4
  <2>2. Cardinality(Head(left)) = 1
    BY <2>1, FS_Singleton
  <2> QED
    BY <1>3, <2>2 DEF Searching
<1>6. ASSUME NEW i \in DOMAIN queue
      PROVE  Len(queue[i]) \in Nat /\ TipOf(queue[i]) \in seen
  <2>1. queue[i] \in Seq(Modules) \ {<<>>}
    BY <1>1 DEF Shape, Typed
  <2>2. Len(queue[i]) \in Nat /\ Len(queue[i]) \in DOMAIN queue[i]
    BY <2>1
  <2> QED
    BY <1>4, <2>2 DEF PathFrom, TipOf
<1>7. Tip \in seen
  BY <1>1, <1>6 DEF TipOf
<1> QED
  BY <1>1, <1>2, <1>4, <1>5, <1>6, <1>7

\* A search is not over before it has found a cycle.
LEMMA SearchGoesOn ==
  ASSUME Shape, Search, queue # <<>>, ~ Closes
  PROVE  Longer # <<>>
<1> SUFFICES ASSUME Longer = <<>> PROVE FALSE
  OBVIOUS
<1> DEFINE p == queue[1]
           start == p[1]
           scc == Head(left)
<1>1. /\ Examined + 1 \in 1 .. Len(Found) /\ scc = Found[Examined + 1]
      /\ start \in seen /\ seen \subseteq scc /\ start \in scc
      /\ \E y \in scc : y # start
      /\ Tip = p[Len(p)] /\ Tip \in seen
  BY SearchFacts
<1>2. tree \in Projects
  BY DEF Shape, Typed
<1>3. Ahead \subseteq seen /\ Len(queue) = 1
  <2> DEFINE n == Cardinality(Ahead \ seen)
             m == Len(queue)
             l == Len(Longer)
  <2>1. l = 0
    OBVIOUS
  <2>2. /\ n \in Nat /\ l = (m - 1) + n
        /\ \A x \in Ahead \ seen : \E i \in 1 .. n : Longer[(m - 1) + i] = Append(queue[1], x)
    BY LongerFacts
  <2>3. m \in Nat \ {0}
    BY SearchStep
  <2> HIDE DEF n, m, l
  <2>4. m = 1 /\ n = 0
    BY <2>1, <2>2, <2>3
  <2>5. ~ \E x \in Ahead \ seen : TRUE
    BY <2>2, <2>4
  <2> QED
    BY <2>4, <2>5 DEF m
<1>4. PICK d \in [seen -> Nat] : Distances(d, start, queue, seen, scc, Edges)
  BY DEF Search, Searching
<1>5. Tips(queue) \subseteq {Tip}
  <2>1. DOMAIN queue = 1 .. 1
    BY <1>3, SearchStep
  <2> QED
    BY <1>1, <2>1 DEF Tips, TipOf
<1>6. \A u \in seen : /\ Edges[u] \cap scc \subseteq seen
                      /\ u # start => start \notin Edges[u]
  <2>1. \A u \in seen \ {Tip} : Searched(u, start, d, seen, scc, Edges)
    BY <1>4, <1>5 DEF Distances
  <2>2. Edges[Tip] \cap scc \subseteq seen /\ (Tip # start => start \notin Edges[Tip])
    BY <1>1, <1>3 DEF Ahead, Closes
  <2> QED
    BY <2>1, <2>2 DEF Searched
<1> HIDE DEF scc, start
<1>7. seen = scc
  BY <1>1, <1>2, <1>6, Surrounded
<1>8. \E u \in scc : u # start /\ start \in Edges[u]
  BY <1>1, <1>2, LedBack
<1> QED
  BY <1>6, <1>7, <1>8

\* A path continued by a module not seen yet.
LEMMA PathOn ==
  ASSUME NEW p \in Seq(Modules), NEW start, NEW S, NEW succ, PathFrom(p, start, S, succ),
         NEW x \in Modules, x \notin S, x \in succ[p[Len(p)]], NEW T, S \cup {x} \subseteq T
  PROVE  /\ PathFrom(Append(p, x), start, T, succ) /\ TipOf(Append(p, x)) = x
         /\ Len(Append(p, x)) = Len(p) + 1 /\ Len(p) \in Nat
<1> DEFINE q == Append(p, x)
           n == Len(p)
<1>1. /\ q \in Seq(Modules) \ {<<>>} /\ n \in Nat /\ Len(q) = n + 1
      /\ \A i \in 1 .. n : q[i] = p[i]
      /\ q[n + 1] = x
  BY AppendFacts
<1>2. DOMAIN p = 1 .. n /\ DOMAIN q = 1 .. n + 1 /\ q # <<>>
  BY <1>1
<1>3. n # 0
  BY DEF PathFrom
<1> HIDE DEF q, n
<1>4. \A i \in 1 .. n + 1 : i \in 1 .. n \/ i = n + 1
  BY <1>1
<1>5. q[1] = start
  <2>1. 1 \in 1 .. n
    BY <1>1, <1>3
  <2> QED
    BY <1>1, <2>1 DEF PathFrom
<1>6. \A i \in 1 .. n : p[i] \in S
  BY <1>2 DEF PathFrom
<1>7. \A i \in 1 .. n + 1 : q[i] \in T
  BY <1>1, <1>4, <1>6
<1>8. \A i, j \in 1 .. n + 1 : q[i] = q[j] => i = j
  <2>1. \A i, j \in 1 .. n : p[i] = p[j] => i = j
    BY <1>2 DEF PathFrom
  <2> QED
    BY <1>1, <1>4, <1>6, <2>1
<1>9. ASSUME NEW i \in 1 .. (n + 1) - 1 PROVE q[i + 1] \in succ[q[i]]
  <2>1. CASE i = n
    <3>1. i \in 1 .. n
      BY <1>1, <1>3, <2>1
    <3> QED
      BY <1>1, <2>1, <3>1 DEF n
  <2>2. CASE i # n
    <3>1. i \in 1 .. n - 1 /\ i \in 1 .. n /\ i + 1 \in 1 .. n
      BY <1>1, <2>2
    <3>2. p[i + 1] \in succ[p[i]]
      BY <3>1 DEF PathFrom, n
    <3> QED
      BY <1>1, <3>1, <3>2
  <2> QED
    BY <2>1, <2>2
<1>10. PathFrom(q, start, T, succ)
  BY <1>1, <1>2, <1>5, <1>7, <1>8, <1>9 DEF PathFrom
<1> QED
  BY <1>1, <1>10 DEF TipOf, q, n

\* The search goes on: a longer path for each module not seen before.
LEMMA SearchExtend ==
  ASSUME Shape, Search, queue # <<>>, ~ Closes,
         queue' = Longer, seen' = seen \cup Ahead, UNCHANGED <<tree, left>>
  PROVE  Search'
<1> DEFINE p == queue[1]
           start == p[1]
           scc == Head(left)
           L == Len(p)
           n == Cardinality(Ahead \ seen)
           m == Len(queue) - 1
<1>1. /\ start \in seen /\ seen \subseteq scc
      /\ p \in Seq(Modules) /\ L \in Nat \ {0} /\ DOMAIN p = 1 .. L
      /\ PathFrom(p, start, seen, Edges)
      /\ Tip = p[L] /\ Tip \in seen
      /\ \A i \in DOMAIN queue : /\ Len(queue[i]) \in Nat /\ L <= Len(queue[i])
                                 /\ PathFrom(queue[i], start, seen, Edges)
                                 /\ TipOf(queue[i]) \in seen
  BY SearchFacts
<1>2. /\ m \in Nat /\ DOMAIN queue = 1 .. m + 1 /\ 1 \in DOMAIN queue
      /\ Ahead \in SUBSET Modules
  BY SearchStep
<1>3. /\ n \in Nat /\ queue' \in Seq(Seq(Modules) \ {<<>>}) /\ Len(queue') = m + n
      /\ \A i \in 1 .. m : queue'[i] = queue[i + 1]
      /\ \A i \in 1 .. n : \E x \in Ahead \ seen : queue'[m + i] = Append(p, x)
      /\ \A x \in Ahead \ seen : \E i \in 1 .. n : queue'[m + i] = Append(p, x)
  BY LongerFacts
<1>4. DOMAIN queue' = 1 .. m + n
  BY <1>3
<1>5. m + n # 0
  <2> SUFFICES ASSUME m + n = 0 PROVE FALSE
    OBVIOUS
  <2>1. Len(queue') = 0
    BY <1>3
  <2>2. queue' = <<>>
    BY <1>3, <2>1, NoElements, Zenon
  <2> QED
    BY <2>2, SearchGoesOn
<1>6. PICK d \in [seen -> Nat] : Distances(d, start, queue, seen, scc, Edges)
  BY DEF Search, Searching
<1>7. /\ Cardinality(scc) # 1
      /\ \A i, j \in DOMAIN queue : i <= j => Len(queue[i]) <= Len(queue[j])
  BY DEF Search, Searching
<1>8. Edges' = Edges /\ Head(left') = scc
  BY TreeStill
<1>9. Ahead = Edges[Tip] \cap scc /\ (Tip # start => start \notin Edges[Tip])
  BY <1>1 DEF Ahead, Closes
<1> HIDE DEF p, L, n, m, scc
\* The longer paths.
<1>10. ASSUME NEW x \in Ahead \ seen
       PROVE  /\ PathFrom(Append(p, x), start, seen', Edges) /\ TipOf(Append(p, x)) = x
              /\ Len(Append(p, x)) = L + 1
  <2>1. x \in Modules /\ x \in Edges[p[Len(p)]] /\ seen \cup {x} \subseteq seen'
    BY <1>1, <1>2, <1>9 DEF L
  <2> QED
    BY <1>1, <1>10, <2>1, PathOn DEF L
\* The places in the queue: paths that were in it, and longer ones.
<1>11. ASSUME NEW i \in DOMAIN queue'
       PROVE  \/ i \in 1 .. m /\ i + 1 \in DOMAIN queue /\ queue'[i] = queue[i + 1]
              \/ i > m /\ \E x \in Ahead \ seen : queue'[i] = Append(p, x)
  <2>1. CASE i \in 1 .. m
    BY <1>2, <1>3, <2>1
  <2>2. CASE i \notin 1 .. m
    <3>1. i > m /\ i - m \in 1 .. n /\ m + (i - m) = i
      BY <1>2, <1>3, <1>4, <2>2
    <3> QED
      BY <1>3, <3>1
  <2> QED
    BY <2>1, <2>2
<1>12. ASSUME NEW i \in DOMAIN queue'
       PROVE  PathFrom(queue'[i], start, seen', Edges)
  <2>1. ASSUME NEW j \in DOMAIN queue PROVE PathFrom(queue[j], start, seen', Edges)
    BY <1>1 DEF PathFrom
  <2> QED
    BY <1>10, <1>11, <2>1
<1>13. queue'[1][1] = start
  <2>1. 1 \in DOMAIN queue'
    BY <1>2, <1>3, <1>4, <1>5
  <2> QED
    BY <1>12, <2>1 DEF PathFrom
<1>14. /\ d[start] = 1
       /\ \A i \in DOMAIN queue : d[TipOf(queue[i])] = Len(queue[i])
       /\ \A u \in seen : d[u] \in Nat /\ d[u] <= L + 1
       /\ \A u \in seen \ Tips(queue) : Searched(u, start, d, seen, scc, Edges)
  BY <1>6 DEF Distances, L, p
<1>15. \A i \in DOMAIN queue : Len(queue[i]) <= L + 1
  BY <1>1, <1>14
<1>16. \A i, j \in DOMAIN queue' : i <= j => Len(queue'[i]) <= Len(queue'[j])
  <2> SUFFICES ASSUME NEW i \in DOMAIN queue', NEW j \in DOMAIN queue', i <= j
               PROVE  Len(queue'[i]) <= Len(queue'[j])
    OBVIOUS
  <2>0. m \in Nat /\ n \in Nat
    BY <1>2, <1>3
  <2>1. i \in Nat \ {0} /\ j \in Nat
    BY <2>0, <1>4
  <2>2. CASE j \in 1 .. m
    <3>1. i \in 1 .. m
      BY <2>0, <2>1, <2>2
    <3>2. i + 1 \in 1 .. m + 1 /\ j + 1 \in 1 .. m + 1 /\ i + 1 <= j + 1
      BY <2>0, <2>1, <2>2, <3>1
    <3>3. i + 1 \in DOMAIN queue /\ j + 1 \in DOMAIN queue
      BY <1>2, <3>2
    <3>4. queue'[i] = queue[i + 1] /\ queue'[j] = queue[j + 1]
      BY <1>3, <2>2, <3>1
    <3> QED
      BY <1>7, <3>2, <3>3, <3>4
  <2>3. CASE j \notin 1 .. m
    <3>1. Len(queue'[j]) = L + 1
      BY <1>10, <1>11, <2>3
    <3>2. Len(queue'[i]) <= L + 1
      BY <1>1, <1>10, <1>11, <1>15
    <3> QED
      BY <3>1, <3>2
  <2> QED
    BY <2>2, <2>3
<1> DEFINE e == [u \in seen' |-> IF u \in seen THEN d[u] ELSE L + 1]
<1>17. /\ e \in [seen' -> Nat]
       /\ \A u \in seen : e[u] = d[u]
       /\ \A x \in Ahead \ seen : e[x] = L + 1
  BY <1>1, <1>14
<1> HIDE DEF e
<1>18. \A i \in DOMAIN queue' : e[TipOf(queue'[i])] = Len(queue'[i])
  <2> SUFFICES ASSUME NEW i \in DOMAIN queue'
               PROVE  e[TipOf(queue'[i])] = Len(queue'[i])
    OBVIOUS
  <2>1. CASE i + 1 \in DOMAIN queue /\ queue'[i] = queue[i + 1]
    BY <1>1, <1>14, <1>17, <2>1
  <2>2. ASSUME NEW x \in Ahead \ seen, queue'[i] = Append(p, x)
        PROVE  e[TipOf(queue'[i])] = Len(queue'[i])
    BY <1>10, <1>17, <2>2
  <2> QED
    BY <1>11, <2>1, <2>2
<1>19. L <= Len(queue'[1])
  <2>1. 1 \in DOMAIN queue'
    BY <1>2, <1>3, <1>4, <1>5
  <2>2. CASE 1 + 1 \in DOMAIN queue /\ queue'[1] = queue[1 + 1]
    BY <1>1, <2>2
  <2>3. ASSUME NEW x \in Ahead \ seen, queue'[1] = Append(p, x)
        PROVE  L <= Len(queue'[1])
    BY <1>1, <1>10, <2>3
  <2> QED
    BY <1>11, <2>1, <2>2, <2>3
<1>20. \A u \in seen' : e[u] \in Nat /\ e[u] <= L + 1
  BY <1>1, <1>14, <1>17
<1>21. ASSUME NEW u \in seen' \ Tips(queue')
       PROVE  Searched(u, start, e, seen', scc, Edges)
  <2>1. u \in seen
    <3> SUFFICES ASSUME u \in Ahead \ seen PROVE FALSE
      BY <1>21
    <3>1. PICK i \in 1 .. n : queue'[m + i] = Append(p, u)
      BY <1>3
    <3>2. m + i \in DOMAIN queue'
      BY <1>2, <1>3, <1>4
    <3>3. TipOf(queue'[m + i]) = u
      BY <1>10, <3>1
    <3> QED
      BY <1>21, <3>2, <3>3 DEF Tips
  <2>2. CASE u = Tip
    <3>1. d[u] = L
      <4>1. d[TipOf(queue[1])] = Len(queue[1])
        BY <1>2, <1>14
      <4> QED
        BY <1>1, <2>2, <4>1 DEF TipOf, p, L
    <3>2. \A w \in Edges[u] \cap scc : w \in seen' /\ e[w] <= e[u] + 1
      <4>1. e[u] = L
        BY <1>17, <2>1, <3>1
      <4>2. \A w \in Edges[u] \cap scc : w \in Ahead
        BY <1>9, <2>2
      <4> QED
        BY <1>20, <4>1, <4>2
    <3> QED
      BY <1>9, <2>2, <3>2 DEF Searched
  <2>3. CASE u # Tip
    <3>1. u \notin Tips(queue)
      <4> SUFFICES ASSUME NEW i \in DOMAIN queue, u = TipOf(queue[i]) PROVE FALSE
        BY DEF Tips
      <4>1. i # 1
        BY <1>1, <2>3 DEF TipOf, p, L
      <4>2. /\ i - 1 \in 1 .. m /\ i - 1 \in DOMAIN queue' /\ (i - 1) + 1 = i
        BY <1>2, <1>3, <1>4, <4>1
      <4>3. queue'[i - 1] = queue[i]
        BY <1>3, <4>2
      <4> QED
        BY <1>21, <4>2, <4>3 DEF Tips
    <3>2. Searched(u, start, d, seen, scc, Edges)
      BY <1>14, <2>1, <3>1
    <3> QED
      BY <1>17, <2>1, <3>2 DEF Searched
  <2> QED
    BY <2>2, <2>3
<1>22. Distances(e, start, queue', seen', scc, Edges)
  <2>1. \A u \in seen' : e[u] <= Len(queue'[1]) + 1
    <3>1. Len(queue'[1]) \in Nat
      BY <1>2, <1>3, <1>4, <1>5
    <3> QED
      BY <1>1, <1>19, <1>20, <3>1
  <2> QED
    BY <1>1, <1>14, <1>17, <1>18, <1>21, <2>1 DEF Distances
<1>23. seen' \subseteq scc /\ start \in seen'
  BY <1>1, <1>9
<1>24. Searching(start, queue', seen', scc, Edges)
  <2>1. \E f \in [seen' -> Nat] : Distances(f, start, queue', seen', scc, Edges)
    BY <1>17, <1>22, Zenon
  <2> HIDE DEF start
  <2> QED
    BY <1>7, <1>12, <1>16, <1>23, <2>1, Zenon DEF Searching
<1> QED
  BY <1>8, <1>13, <1>24 DEF Search

LEMMA SearchNext ==
  ASSUME Shape, Search, [GraphNext]_graphVars
  PROVE  Search'
<1>1. CASE queue' = <<>>
  BY <1>1 DEF Search
<1>2. CASE UNCHANGED <<tree, left, queue, seen>>
  BY <1>2, TreeStill DEF Search
<1>3. CASE BeginSearch
  <2> DEFINE start == First(Head(left))
             d == [u \in {start} |-> 1]
             s == <<start>>
             q == <<s>>
  <2>1. /\ queue' = q /\ seen' = {start} /\ UNCHANGED <<tree, left>>
        /\ Cardinality(Head(left)) # 1 /\ left # <<>> /\ build = "detecting"
    BY <1>3 DEF BeginSearch, NextComponent
  <2>2. Edges' = Edges
    BY <2>1, TreeStill
  <2>3. Head(left) \in SUBSET Modules /\ Head(left) # {} /\ IsFiniteSet(Head(left))
    BY <2>1, NextFound
  <2>4. start \in Head(left)
    BY <2>3, FirstFacts, GraphFacts DEF Shape, Typed
  <2> HIDE DEF start
  <2>5. s # <<>> /\ DOMAIN s = 1 .. 1 /\ Len(s) = 1 /\ s[1] = start
    OBVIOUS
  <2> HIDE DEF s
  <2>6. DOMAIN q = 1 .. 1 /\ q[1] = s
    OBVIOUS
  <2> HIDE DEF q
  <2>7. PathFrom(s, start, {start}, Edges)
    BY <2>5 DEF PathFrom
  <2>8. \A i \in DOMAIN q : q[i] = s /\ TipOf(q[i]) = start /\ i = 1
    BY <2>5, <2>6 DEF TipOf
  <2>9. Tips(q) = {start}
    BY <2>6, <2>8 DEF Tips
  <2>10. d \in [{start} -> Nat] /\ d[start] = 1
    OBVIOUS
  <2> HIDE DEF d
  <2>11. Distances(d, start, q, {start}, Head(left), Edges)
    <3>1. \A u \in {start} : d[u] <= Len(q[1]) + 1
      BY <2>5, <2>6, <2>10
    <3>2. \A i \in DOMAIN q : d[TipOf(q[i])] = Len(q[i])
      BY <2>5, <2>8, <2>10
    <3> QED
      BY <2>9, <2>10, <3>1, <3>2 DEF Distances
  <2>12. \A i, j \in DOMAIN q : i <= j => Len(q[i]) <= Len(q[j])
    BY <2>5, <2>8
  <2>13. \E f \in [{start} -> Nat] : Distances(f, start, q, {start}, Head(left), Edges)
    BY <2>10, <2>11, Zenon
  <2>14. Searching(start, q, {start}, Head(left), Edges)
    BY <2>1, <2>4, <2>7, <2>8, <2>12, <2>13 DEF Searching
  <2>15. queue'[1][1] = start
    BY <2>1, <2>5, <2>6
  <2> QED
    BY <2>1, <2>2, <2>14, <2>15 DEF Search
<1>4. CASE Extend
  <2>1. queue # <<>> /\ ~ Closes /\ UNCHANGED tree
    BY <1>4 DEF Extend
  <2>2. Longer # <<>>
    BY <2>1, SearchGoesOn
  <2>3. queue' = Longer /\ seen' = seen \cup Ahead /\ UNCHANGED left
    BY <1>4, <2>2 DEF Extend, Longer
  <2> QED
    BY <2>1, <2>3, SearchExtend
<1>5. CASE DetectCycles
  <2>1. queue = <<>> /\ queue' = queue
    BY <1>5 DEF DetectCycles, Shape, Phases
  <2> QED
    BY <1>1, <2>1
<1>6. CASE ExamineAlone
  BY <1>1, <1>6 DEF ExamineAlone, NextComponent
<1>7. CASE CloseCycle
  BY <1>1, <1>7 DEF CloseCycle, Report
<1>8. CASE Decide \/ NextRoot \/ EnterModule \/ EmitModule
  BY <1>2, <1>8 DEF Decide, NextRoot, EnterModule, EmitModule, detectVars
<1>9. CASE UNCHANGED graphVars
  BY <1>2, <1>9 DEF graphVars, detectVars
<1> QED
  BY <1>3, <1>4, <1>5, <1>6, <1>7, <1>8, <1>9 DEF GraphNext

(***************************************************************************)
(* The cycles reported.                                                    *)
(***************************************************************************)

\* The path that closes is a cycle, and there is none shorter through start.
LEMMA CloseFacts ==
  ASSUME Shape, Search, queue # <<>>, Closes
  PROVE  /\ IsCycle(queue[1]) /\ NoShorter(queue[1])
         /\ queue[1][1] \in Modules /\ OnCycle(queue[1][1])
         /\ queue[1][1] \in Head(left)
<1> DEFINE p == queue[1]
           start == p[1]
           scc == Head(left)
           L == Len(p)
<1>1. /\ Examined + 1 \in 1 .. Len(Found) /\ scc = Found[Examined + 1]
      /\ start \in seen /\ seen \subseteq scc /\ start \in scc
      /\ \E y \in scc : y # start
      /\ p \in Seq(Modules) /\ L \in Nat \ {0} /\ DOMAIN p = 1 .. L
      /\ PathFrom(p, start, seen, Edges)
      /\ Tip = p[L] /\ Tip \in seen
      /\ \A i \in DOMAIN queue : /\ Len(queue[i]) \in Nat /\ L <= Len(queue[i])
                                 /\ TipOf(queue[i]) \in seen
  BY SearchFacts
<1>2. tree \in Projects /\ start \in Modules
  BY <1>1 DEF Shape, Typed
<1>3. Tip # start /\ start \in Edges[Tip] /\ L # 1
  BY <1>1 DEF Closes, Ahead
<1>4. OnCycle(start)
  BY <1>1, <1>2, LedBack
<1>5. IsCycle(p)
  <2>1. \A i, j \in 1 .. L : p[i] = p[j] => i = j
    BY <1>1 DEF PathFrom
  <2>2. ASSUME NEW i \in 1 .. L PROVE p[(i % L) + 1] \in Edges[p[i]]
    <3> HIDE DEF L, p
    <3>1. CASE i = L
      <4>1. i % L = 0
        BY <1>1, <3>1
      <4> QED
        BY <1>1, <1>3, <3>1, <4>1 DEF p
    <3>2. CASE i # L
      <4>1. i % L = i /\ i \in 1 .. L - 1
        BY <1>1, <3>2
      <4>2. p[i + 1] \in Edges[p[i]]
        BY <1>1, <4>1 DEF PathFrom, L
      <4> QED
        BY <4>1, <4>2
    <3> QED
      BY <3>1, <3>2
  <2> HIDE DEF p
  <2> QED
    BY <2>1, <2>2 DEF IsCycle
<1>6. PICK d \in [seen -> Nat] : Distances(d, start, queue, seen, scc, Edges)
  BY DEF Search, Searching
<1>7. /\ d[start] = 1
      /\ \A i \in DOMAIN queue : d[TipOf(queue[i])] = Len(queue[i])
      /\ \A u \in seen \ Tips(queue) : Searched(u, start, d, seen, scc, Edges)
  BY <1>6 DEF Distances
<1>8. ASSUME NEW u \in seen, d[u] < L
      PROVE  Searched(u, start, d, seen, scc, Edges)
  <2>1. u \notin Tips(queue)
    <3> SUFFICES ASSUME NEW i \in DOMAIN queue, u = TipOf(queue[i]) PROVE FALSE
      BY DEF Tips
    <3>1. d[u] = Len(queue[i]) /\ L <= Len(queue[i]) /\ Len(queue[i]) \in Nat
      BY <1>1, <1>7
    <3> HIDE DEF L
    <3> QED
      BY <1>1, <1>8, <3>1
  <2> QED
    BY <1>7, <2>1
<1>9. ASSUME NEW k \in 2 .. L - 1, NEW q \in [1 .. k -> Modules], q[1] = start, IsCycle(q)
      PROVE  FALSE
  <2> HIDE DEF L, p, start
  <2>1. k \in Nat /\ k < L /\ k \in 1 .. k /\ 1 \in 1 .. k /\ k # 1
    BY <1>1
  <2>2. Len(q) = k
    BY <2>1
  <2>3. /\ \A i \in 1 .. k : q[(i % k) + 1] \in Edges[q[i]]
        /\ \A i, j \in 1 .. k : q[i] = q[j] => i = j
    BY <1>9, <2>2 DEF IsCycle
  <2>4. \A i \in 1 .. k - 1 : i % k = i /\ i \in 1 .. k /\ i + 1 \in 1 .. k
    BY <2>1
  <2>5. k % k = 0
    BY <2>1
  <2>6. \A i \in 1 .. k - 1 : q[i + 1] \in Edges[q[i]]
    BY <2>3, <2>4
  <2>7. start \in Edges[q[k]]
    <3>1. q[(k % k) + 1] \in Edges[q[k]] /\ (k % k) + 1 = 1
      BY <2>1, <2>3, <2>5
    <3> QED
      BY <1>9, <3>1
  <2>8. \A i \in 1 .. k : q[i] \in scc
    <3> HIDE DEF scc
    <3>1. k \in Nat \ {0} /\ q[1] \in Found[Examined + 1] /\ q[1] \in Edges[q[k]]
      BY <1>1, <1>9, <2>1, <2>7
    <3> HIDE DEF Examined
    <3> QED
      BY <1>1, <1>2, <2>6, <3>1, CycleInComponent
  <2> DEFINE S == {i \in 1 .. k : q[i] \in seen /\ d[q[i]] <= i}
  <2>9. 1 .. k \subseteq S
    <3>1. 1 \in S
      BY <1>1, <1>7, <1>9, <2>1
    <3>2. ASSUME NEW i \in 1 .. k - 1, i \in S PROVE i + 1 \in S
      <4>1. q[i] \in seen /\ d[q[i]] \in Nat /\ d[q[i]] <= i
        BY <3>2
      <4>2. d[q[i]] < L
        BY <1>1, <2>1, <4>1
      <4>3. \A w \in Edges[q[i]] \cap scc : w \in seen /\ d[w] <= d[q[i]] + 1
        BY <1>8, <4>1, <4>2 DEF Searched
      <4>4. q[i + 1] \in Edges[q[i]] \cap scc
        BY <2>4, <2>6, <2>8
      <4>5. q[i + 1] \in seen /\ d[q[i + 1]] <= d[q[i]] + 1 /\ d[q[i + 1]] \in Nat
        BY <4>3, <4>4
      <4> QED
        BY <2>4, <4>1, <4>5
    <3> HIDE DEF S
    <3> QED
      BY <2>1, <3>1, <3>2, IntervalUp
  <2>10. q[k] \in seen /\ d[q[k]] < L
    <3>1. q[k] \in seen /\ d[q[k]] <= k /\ d[q[k]] \in Nat
      BY <2>1, <2>9
    <3> QED
      BY <1>1, <2>1, <3>1
  <2>11. q[k] # start
    BY <1>9, <2>1, <2>3
  <2> QED
    BY <1>8, <2>7, <2>10, <2>11 DEF Searched
<1>10. NoShorter(p)
  BY <1>9 DEF NoShorter
<1> QED
  BY <1>1, <1>2, <1>4, <1>5, <1>10

\* What is said of a cycle reported, and of the components examined.
LEMMA ReportedMore ==
  ASSUME Shape, Reported, build # "loaded", left # <<>>,
         NEW More, cycles' = cycles \cup More, UNCHANGED <<tree, build>>,
         Examined' = Examined + 1,
         \A c \in More : /\ c[1] \in Modules /\ OnCycle(c[1])
                         /\ IsCycle(c) /\ NoShorter(c),
         \A m \in Head(left) : OnCycle(m) => \E c \in More : c[1] \in Head(left)
  PROVE  Reported'
<1>1. Modules' = Modules /\ Edges' = Edges /\ Found' = Found
  BY TreeStill
<1>2. Examined \in Nat /\ Head(left) = Found[Examined + 1]
  BY NextFound DEF Shape, Progress
<1> HIDE DEF Examined
<1>3. \A c \in cycles' : /\ c[1] \in Modules /\ OnCycle(c[1])
                         /\ IsCycle(c) /\ NoShorter(c)
  BY DEF Reported
<1>4. ASSUME NEW i \in 1 .. Examined + 1, NEW m \in Found[i], OnCycle(m)
      PROVE  \E c \in cycles' : c[1] \in Found[i]
  <2>1. CASE i \in 1 .. Examined
    BY <1>4, <2>1 DEF Reported
  <2>2. CASE i = Examined + 1
    BY <1>2, <1>4, <2>2
  <2> QED
    BY <1>2, <2>1, <2>2
<1>5. \A m : OnCycle(m)' <=> OnCycle(m)
  BY <1>1 DEF OnCycle
<1>6. \A c : (IsCycle(c)' <=> IsCycle(c)) /\ (NoShorter(c)' <=> NoShorter(c))
  BY <1>1 DEF IsCycle, NoShorter
<1> QED
  BY <1>1, <1>3, <1>4, <1>5, <1>6 DEF Reported

LEMMA ReportedStill ==
  ASSUME Reported, build # "loaded", UNCHANGED <<tree, left, cycles>>
  PROVE  Reported'
<1>1. Modules' = Modules /\ Edges' = Edges /\ Found' = Found
  BY TreeStill
<1>2. Examined' = Examined
  BY <1>1 DEF Examined
<1>3. \A m : OnCycle(m)' <=> OnCycle(m)
  BY <1>1 DEF OnCycle
<1>4. \A c : (IsCycle(c)' <=> IsCycle(c)) /\ (NoShorter(c)' <=> NoShorter(c))
  BY <1>1 DEF IsCycle, NoShorter
<1> HIDE DEF Examined
<1> QED
  BY <1>1, <1>2, <1>3, <1>4 DEF Reported

LEMMA ReportedNext ==
  ASSUME Shape, Search, Reported, [GraphNext]_graphVars
  PROVE  Reported'
<1>1. tree \in Projects
  BY DEF Shape, Typed
<1>2. CASE DetectCycles
  <2>1. build = "loaded" /\ cycles' = cycles /\ cycles = {} /\ left' = Found /\ UNCHANGED tree
    BY <1>2 DEF DetectCycles, Shape, Phases, Found
  <2>2. Found' = Found /\ Len(Found) \in Nat
    BY <1>1, <2>1, TreeStill, FoundFacts
  <2>3. Examined' = 0
    BY <2>1, <2>2 DEF Examined
  <2> HIDE DEF Examined
  <2> QED
    BY <2>1, <2>3 DEF Reported
<1>3. CASE ExamineAlone
  <2> DEFINE scc == Head(left)
             More == {<<m>> : m \in {n \in scc : n \in Edges[n]}}
  <2>1. /\ build = "detecting" /\ left # <<>> /\ Cardinality(scc) = 1
        /\ cycles' = cycles \cup More
        /\ left' = Tail(left) /\ queue' = <<>> /\ UNCHANGED <<tree, seen, emitVars, build>>
    BY <1>3 DEF ExamineAlone, NextComponent
  <2>2. Examined' = Examined + 1
    BY <2>1, ShapeReport DEF Shape, Typed
  <2>3. /\ Examined + 1 \in 1 .. Len(Found) /\ scc = Found[Examined + 1]
        /\ IsFiniteSet(scc)
    BY <2>1, NextFound
  <2>4. PICK x : scc = {x}
    BY <2>1, <2>3, FS_Singleton
  <2>5. x \in Modules /\ (OnCycle(x) <=> x \in Edges[x])
    BY <1>1, <2>3, <2>4, AloneFacts
  <2>6. ASSUME NEW c \in More
        PROVE  /\ c[1] \in Modules /\ OnCycle(c[1]) /\ c[1] = x
               /\ IsCycle(c) /\ NoShorter(c)
    <3>1. c = <<x>> /\ x \in Edges[x]
      BY <2>4
    <3>2. Len(c) = 1 /\ c[1] = x /\ 1 .. 1 = {1} /\ 1 % 1 = 0 /\ 0 + 1 = 1
      BY <3>1
    <3>3. IsCycle(c)
      BY <3>1, <3>2 DEF IsCycle
    <3>4. NoShorter(c)
      BY <3>2 DEF NoShorter
    <3> QED
      BY <2>5, <3>1, <3>2, <3>3, <3>4
  <2>7. ASSUME NEW m \in scc, OnCycle(m) PROVE \E c \in More : c[1] \in scc
    <3>1. x \in Edges[x] /\ <<x>> \in More
      BY <2>4, <2>5, <2>7
    <3>2. <<x>>[1] \in scc
      BY <2>4
    <3> QED
      BY <3>1, <3>2
  <2> HIDE DEF More, Examined
  <2> QED
    BY <2>1, <2>2, <2>6, <2>7, ReportedMore
<1>4. CASE CloseCycle
  <2>1. /\ build = "detecting" /\ queue # <<>> /\ Closes /\ cycles' = cycles \cup {queue[1]}
        /\ left' = Tail(left) /\ queue' = <<>> /\ seen' = {}
        /\ UNCHANGED <<tree, emitVars, build>>
    BY <1>4 DEF CloseCycle, Report
  <2>2. left # <<>>
    BY <2>1, SearchStep
  <2>3. Examined' = Examined + 1
    BY <2>1, <2>2, ShapeReport
  <2>4. /\ IsCycle(queue[1]) /\ NoShorter(queue[1])
        /\ queue[1][1] \in Modules /\ OnCycle(queue[1][1])
        /\ queue[1][1] \in Head(left)
    BY <2>1, CloseFacts
  <2> DEFINE More == {queue[1]}
  <2>5. /\ cycles' = cycles \cup More /\ queue[1] \in More
        /\ \A c \in More : c = queue[1]
    BY <2>1
  <2> HIDE DEF Examined, More
  <2>6. \A c \in More : /\ c[1] \in Modules /\ OnCycle(c[1])
                       /\ IsCycle(c) /\ NoShorter(c)
    BY <2>4, <2>5
  <2>7. \A m \in Head(left) : OnCycle(m) => \E c \in More : c[1] \in Head(left)
    BY <2>4, <2>5
  <2> QED
    BY <2>1, <2>2, <2>3, <2>5, <2>6, <2>7, ReportedMore
<1>5. CASE Extend
  <2>1. queue # <<>> /\ ~ Closes /\ build = "detecting" /\ UNCHANGED tree
    BY <1>5 DEF Extend
  <2>2. Longer # <<>>
    BY <2>1, SearchGoesOn
  <2>3. UNCHANGED <<left, cycles>>
    BY <1>5, <2>2 DEF Extend, Longer
  <2> QED
    BY <2>1, <2>3, ReportedStill
<1>6. CASE BeginSearch \/ Decide \/ NextRoot \/ EnterModule \/ EmitModule
  <2>1. build # "loaded" /\ UNCHANGED <<tree, left, cycles>>
    BY <1>6 DEF BeginSearch, NextComponent, Decide, NextRoot, EnterModule, EmitModule, detectVars
  <2> QED
    BY <2>1, ReportedStill
<1>7. CASE UNCHANGED graphVars
  <2>1. UNCHANGED <<tree, left, cycles, build>>
    BY <1>7 DEF graphVars, detectVars
  <2>2. CASE build # "loaded"
    BY <2>1, <2>2, ReportedStill
  <2>3. CASE build = "loaded"
    BY <2>1, <2>3 DEF Reported, Shape, Phases
  <2> QED
    BY <2>2, <2>3
<1> QED
  BY <1>2, <1>3, <1>4, <1>5, <1>6, <1>7 DEF GraphNext

\* All components are examined when a build is decided on.
LEMMA AllReported ==
  ASSUME Shape, Reported, build \in {"rejected", "emitting", "emitted"},
         NEW m \in Modules, OnCycle(m)
  PROVE  \E c \in cycles : c[1] = m \/ Mutual(c[1], m, Edges)
<1>1. tree \in Projects /\ left = <<>> /\ build # "loaded"
  BY DEF Shape, Typed, Phases
<1>2. Len(Found) \in Nat /\ Found \in Seq(SUBSET Modules)
  BY <1>1, FoundFacts
<1>3. Examined = Len(Found)
  BY <1>1, <1>2 DEF Examined
<1>4. PICK i \in 1 .. Len(Found) : m \in Found[i]
  <2>1. DOMAIN Found = 1 .. Len(Found)
    BY <1>2
  <2>2. \A v \in Modules : \E i \in DOMAIN Found : v \in Found[i]
    BY <1>1, GraphFacts, Zenon DEF IsComponents
  <2> QED
    BY <2>1, <2>2
<1>5. PICK c \in cycles : c[1] \in Found[i]
  BY <1>1, <1>3, <1>4 DEF Reported
<1> QED
  BY <1>1, <1>4, <1>5, ComponentFacts

LEMMA ReportedAnswer == Shape /\ Reported => CyclesReported
<1> SUFFICES ASSUME Shape, Reported, build \in {"rejected", "emitting", "emitted"}
             PROVE  LET onCycle == {m \in Modules : m \in Reachable(m, Edges)}
                    IN  /\ build = "rejected" <=> onCycle # {}
                        /\ \A c \in cycles :
                             /\ IsCycle(c)
                             /\ \A k \in 2 .. Len(c) - 1 : \A p \in [1 .. k -> Modules] :
                                  p[1] = c[1] => ~ IsCycle(p)
                        /\ \A m \in onCycle :
                             \E c \in cycles : c[1] = m \/ Mutual(c[1], m, Edges)
  BY DEF CyclesReported
<1> DEFINE onCycle == {m \in Modules : m \in Reachable(m, Edges)}
<1>1. \A m \in onCycle : \E c \in cycles : c[1] = m \/ Mutual(c[1], m, Edges)
  BY AllReported DEF OnCycle
<1>2. \A c \in cycles : c[1] \in onCycle /\ IsCycle(c) /\ NoShorter(c)
  BY DEF Reported, OnCycle
<1>3. build = "rejected" <=> cycles # {}
  BY DEF Shape, Phases
<1> QED
  BY <1>1, <1>2, <1>3 DEF NoShorter

LEMMA AcyclicWhenEmitting ==
  ASSUME Shape, Reported, build = "emitting"
  PROVE  Acyclic
<1>1. cycles = {}
  BY DEF Shape, Phases
<1> QED
  BY <1>1, AllReported DEF Acyclic

(***************************************************************************)
(* The theorems.                                                           *)
(***************************************************************************)
GraphInv == Shape /\ Search /\ Reported /\ Emission

LEMMA GraphInvariant == GraphSpec => []GraphInv
<1>1. GraphInit => GraphInv
  <2> SUFFICES ASSUME GraphInit PROVE Search /\ Reported
    BY ShapeInit, EmissionInit DEF GraphInv
  <2> QED
    BY DEF GraphInit, Search, Reported
<1>2. GraphInv /\ [GraphNext]_graphVars => GraphInv'
  BY ShapeNext, SearchNext, ReportedNext, EmissionNext, AcyclicWhenEmitting DEF GraphInv
<1> QED
  BY <1>1, <1>2, PTL DEF GraphSpec

\* module.rs: whatever the imports, a build is rejected iff they make a cycle,
\* and the cycles shown to the user are the shortest there are.
THEOREM CyclesAreReported == GraphSpec => []CyclesReported
<1>1. GraphInv => CyclesReported
  BY ReportedAnswer DEF GraphInv
<1> QED
  BY <1>1, GraphInvariant, PTL

\* module.rs: whatever the imports, each module is emitted behind those it
\* imports, once, and none is left out.
THEOREM DependenciesComeFirst == GraphSpec => []DependenciesFirst
<1>1. GraphInv => DependenciesFirst
  BY EmissionOrder DEF GraphInv
<1> QED
  BY <1>1, GraphInvariant, PTL

-----------------------------------------------------------------------------
(***************************************************************************)
(* EffectInference: what each variable holds.                              *)
(***************************************************************************)
Kinds == {"none", "explicit", "poly", "named"}

InferenceTyped ==
  /\ program \in CheckedPrograms
  /\ DOMAIN decl = Units /\ \A u \in Units : decl[u].kind \in Kinds
  /\ DOMAIN inferred = Units
  /\ marked \in SUBSET Units
  /\ work \in Seq(SUBSET WithBody(program)) /\ rest \in SUBSET FirstOf(work)
  /\ grown \in BOOLEAN /\ passes \in Nat
  /\ phase \in {"inferring", "ceilings", "verified"}
  /\ phase # "inferring" => work = <<>>

(***************************************************************************)
(* The components solved are the first of those found.                     *)
(***************************************************************************)
Sccs == Components(CallGraph(program))
Solved == Len(Sccs) - Len(work)
Behind == UNION {Sccs[i] : i \in 1 .. Solved}

Solving ==
  /\ Solved \in Nat
  /\ \A i \in DOMAIN work : work[i] = Sccs[Solved + i]

(***************************************************************************)
(* What is inferred is no more than a solution for the calls seen so far   *)
(* has.  Units behind have what every solution for the calls of the call   *)
(* graph has, the early calls; the units walked have what those calls      *)
(* bring, while no effect is new.                                          *)
(***************************************************************************)
Early == [u \in Units |-> CallsSeen(program, u, {})]
Ever == [u \in Units |-> CallsSeen(program, u, Units)]
Always(u, e) == \A x : IsSolution(x, {}) => e \in x[u]
Complete(u) == \A e : Always(u, e) => e \in inferred[u]

Sound ==
  /\ \A x : IsSolution(x, marked) => AtMost(inferred, x)
  /\ \A u \in Units : Seed[u] \subseteq inferred[u]
  /\ \A u \in Units \ WithBody(program) : inferred[u] = Seed[u]

Kept ==
  /\ \A u \in Behind : Complete(u)
  /\ Cardinality(FirstOf(work)) = 1 \/ ~ grown =>
       \A u \in FirstOf(work) \ rest : Needs(u, inferred, {}) \subseteq inferred[u]

(***************************************************************************)
(* The limit on the passes.  Until an effect e has come to all units of    *)
(* the component that must have it, each pass brings it to one more.       *)
(***************************************************************************)
Having(e) == {u \in FirstOf(work) : e \in inferred[u]}
Lacks(u, e) == e \in Needs(u, inferred, {}) /\ e \notin inferred[u]

Spreads(e) ==
  \/ \A u \in FirstOf(work) : Always(u, e) => e \in inferred[u]
  \/ Cardinality(Having(e)) >= passes + 1
  \/ Cardinality(Having(e)) >= passes /\ \E u \in rest : Lacks(u, e)

Limit == \A e : Spreads(e)

(***************************************************************************)
(* The marked units.                                                       *)
(***************************************************************************)
Leading(calls) == {u \in Units : Reachable(u, calls) \cap UsesUnderscore # {}}
Cyclic == {u \in Units : u \in Reachable(u, Early)}
Straight == {u \in Leading(Early) : ({u} \cup Reachable(u, Early)) \cap Cyclic = {}}

Marks ==
  /\ marked \subseteq Leading(Ever)
  /\ (Behind \cup (FirstOf(work) \ rest)) \cap Straight \subseteq marked

\* The complaints are about what was inferred.
Public == {f \in Of("fn") : program.unit[f].pub}
ErrorsFor(leaky) ==
  ImplComplaints \cup DefaultComplaints
    \cup UNION {{<<k, f>> : k \in Complaints(f, leaky)} : f \in Public}
Leaks(leaky) == leaky \in SUBSET {f \in Public : MayLeak(f)} /\ {f \in Public : MustLeak(f)} \subseteq leaky

Reports == phase = "verified" => \E leaky : Leaks(leaky) /\ errors = ErrorsFor(leaky)
-----------------------------------------------------------------------------
LEMMA ProgramFacts ==
  ASSUME program \in CheckedPrograms
  PROVE  /\ Units = 1 .. Len(program.unit) /\ IsFiniteSet(Units)
         /\ WithBody(program) \in SUBSET Units
         /\ DOMAIN program.decl = Units
         /\ program.calls \in [Units -> SUBSET Units]
         /\ \A u \in Units :
              /\ program.unit[u].sort \in {"fn", "method", "impl", "trait"}
              /\ program.decl[u].kind \in Kinds
              /\ u \notin WithBody(program) =>
                   program.calls[u] = {} /\ program.own[u] = {} /\ program.handed[u] = {}
              /\ \A h \in program.handed[u] :
                   h[1] \in program.calls[u] /\ h[1] \in Units /\ h[2] \in Units
              /\ program.unit[u].sort = "impl" =>
                   program.unit[u].of \in Units /\ program.unit[program.unit[u].of].sort = "trait"
<1>1. /\ Len(program.unit) \in Nat /\ Units = 1 .. Len(program.unit)
      /\ DOMAIN program.decl = Units
      /\ program.calls \in [Units -> SUBSET Units]
      /\ \A u \in Units :
           /\ program.unit[u].sort \in {"fn", "method", "impl", "trait"}
           /\ program.decl[u].kind \in Kinds
           /\ u \notin WithBody(program) => program.calls[u] = {} /\ program.own[u] = {}
           /\ \A h \in program.handed[u] :
                h[1] \in program.calls[u] /\ h[2] \in OfSort(program, "fn")
           /\ program.unit[u].sort = "impl" =>
                program.unit[u].of \in Units /\ program.unit[program.unit[u].of].sort = "trait"
  BY ProgramsAssumption DEF Units, Kinds
<1>2. IsFiniteSet(Units)
  BY <1>1, FS_Interval
<1>3. WithBody(program) \in SUBSET Units
  BY DEF WithBody, Units
<1>4. ASSUME NEW u \in Units, NEW h \in program.handed[u]
      PROVE  h[1] \in program.calls[u] /\ h[1] \in Units /\ h[2] \in Units
  <2>1. h[1] \in program.calls[u] /\ h[2] \in OfSort(program, "fn")
    BY <1>1
  <2>2. program.calls[u] \in SUBSET Units
    BY <1>1
  <2> QED
    BY <2>1, <2>2 DEF OfSort, Units
<1> QED
  BY <1>1, <1>2, <1>3, <1>4

\* More marks, more calls.
LEMMA CallsFacts ==
  ASSUME program \in CheckedPrograms, NEW u \in Units
  PROVE  /\ \A M : CallsSeen(program, u, M) \subseteq Units
         /\ \A M, N : M \subseteq N => CallsSeen(program, u, M) \subseteq CallsSeen(program, u, N)
         /\ \A M : program.calls[u] \subseteq CallsSeen(program, u, M)
         /\ u \notin WithBody(program) => \A M : CallsSeen(program, u, M) = {}
<1>1. /\ program.calls[u] \subseteq Units /\ \A h \in program.handed[u] : h[2] \in Units
      /\ u \notin WithBody(program) => program.calls[u] = {} /\ program.handed[u] = {}
  BY ProgramFacts
<1>2. \A M : CallsSeen(program, u, M) \subseteq Units
  BY <1>1 DEF CallsSeen
<1>3. ASSUME NEW M, NEW N, M \subseteq N
      PROVE  CallsSeen(program, u, M) \subseteq CallsSeen(program, u, N)
  BY <1>3 DEF CallsSeen
<1>4. \A M : program.calls[u] \subseteq CallsSeen(program, u, M)
  BY DEF CallsSeen
<1>5. u \notin WithBody(program) => \A M : CallsSeen(program, u, M) = {}
  BY <1>1 DEF CallsSeen
<1> QED
  BY <1>2, <1>3, <1>4, <1>5

LEMMA GraphsOfCalls ==
  ASSUME program \in CheckedPrograms
  PROVE  /\ IsGraph(Early) /\ DOMAIN Early = Units
         /\ IsGraph(Ever) /\ DOMAIN Ever = Units
         /\ \A u \in Units : Early[u] = CallsSeen(program, u, {})
         /\ \A u \in Units : Ever[u] = CallsSeen(program, u, Units)
<1>1. \A u \in Units : \A M : CallsSeen(program, u, M) \subseteq Units
  BY CallsFacts
<1> QED
  BY <1>1 DEF Early, Ever, IsGraph

LEMMA SccFacts ==
  ASSUME program \in CheckedPrograms
  PROVE  /\ IsGraph(CallGraph(program)) /\ DOMAIN CallGraph(program) = WithBody(program)
         /\ \A u \in WithBody(program) :
              CallGraph(program)[u] = CallsSeen(program, u, {}) \cap WithBody(program)
         /\ Sccs \in Seq(SUBSET WithBody(program)) /\ Len(Sccs) \in Nat
         /\ \A u \in WithBody(program) : \E i \in 1 .. Len(Sccs) : u \in Sccs[i]
         /\ \A i \in 1 .. Len(Sccs) : /\ Sccs[i] \in SUBSET WithBody(program)
                                       /\ Sccs[i] # {} /\ IsFiniteSet(Sccs[i])
         /\ \A i, j \in 1 .. Len(Sccs) : \A m \in Sccs[i], n \in Sccs[j] :
              /\ i = j <=> (m = n \/ Mutual(m, n, CallGraph(program)))
              /\ n \in CallsSeen(program, m, {}) => j <= i
<1> DEFINE g == CallGraph(program)
           W == WithBody(program)
<1>1. IsGraph(g) /\ DOMAIN g = W /\ \A u \in W : g[u] = CallsSeen(program, u, {}) \cap W
  BY DEF CallGraph, IsGraph
<1>2. IsComponents(Sccs, g)
  <2>1. \A graph \in {CallGraph(p) : p \in CheckedPrograms} :
          IsComponents(Components(graph), graph)
    BY ProgramsAssumption
  <2> QED
    BY <2>1 DEF Sccs
<1> HIDE DEF g
<1>3. Sccs \in Seq(SUBSET W) /\ Len(Sccs) \in Nat /\ DOMAIN Sccs = 1 .. Len(Sccs)
  <2>1. Sccs \in Seq(SUBSET W)
    BY <1>1, <1>2 DEF IsComponents
  <2> HIDE DEF W
  <2> QED
    BY <2>1
<1>4. \A u \in W : \E i \in 1 .. Len(Sccs) : u \in Sccs[i]
  BY <1>1, <1>2, <1>3 DEF IsComponents
<1>5. \A i \in 1 .. Len(Sccs) : Sccs[i] \in SUBSET W /\ Sccs[i] # {}
  BY <1>2, <1>3 DEF IsComponents
<1>6. \A i \in 1 .. Len(Sccs) : IsFiniteSet(Sccs[i])
  BY <1>5, ProgramFacts, FS_Subset
<1>7. \A i, j \in 1 .. Len(Sccs) : \A m \in Sccs[i], n \in Sccs[j] :
        /\ i = j <=> (m = n \/ Mutual(m, n, g))
        /\ n \in g[m] => j <= i
  BY <1>2, <1>3, Zenon DEF IsComponents
<1>8. \A i, j \in 1 .. Len(Sccs) : \A m \in Sccs[i], n \in Sccs[j] :
        n \in CallsSeen(program, m, {}) => j <= i
  BY <1>1, <1>5, <1>7
<1> QED
  BY <1>1, <1>3, <1>4, <1>5, <1>6, <1>7, <1>8 DEF g

(***************************************************************************)
(* What a unit needs depends, effect by effect, on what its callees have.  *)
(***************************************************************************)
LEMMA ChargeAt ==
  ASSUME NEW v, decl[v].kind \in Kinds, NEW x, NEW y, NEW e,
         e \in x[v] => e \in y[v], e \in CalleeEffects(v, x)
  PROVE  e \in CalleeEffects(v, y)
<1>1. CASE ~ program.unit[v].pub
  BY <1>1 DEF CalleeEffects
<1>2. CASE program.unit[v].pub /\ decl[v].kind \in {"poly", "named"}
  BY <1>2 DEF CalleeEffects
<1>3. CASE program.unit[v].pub /\ decl[v].kind \in {"explicit", "none"}
  BY <1>3 DEF CalleeEffects
<1> QED
  BY <1>1, <1>2, <1>3 DEF Kinds

LEMMA NeedsAt ==
  ASSUME InferenceTyped, NEW u \in Units, NEW M, NEW x, NEW y, NEW e,
         \A v \in CallsSeen(program, u, M) : e \in x[v] => e \in y[v], e \in Needs(u, x, M)
  PROVE  e \in Needs(u, y, M)
<1>1. CASE e \in program.own[u]
  BY <1>1 DEF Needs
<1>2. ASSUME NEW v \in CallsSeen(program, u, M), e \in CalleeEffects(v, x)
      PROVE  e \in Needs(u, y, M)
  <2>1. decl[v].kind \in Kinds
    <3>1. v \in Units
      BY <1>2, CallsFacts DEF InferenceTyped
    <3> QED
      BY <3>1 DEF InferenceTyped
  <2>2. e \in CalleeEffects(v, y)
    BY <1>2, <2>1, ChargeAt
  <2> QED
    BY <1>2, <2>2 DEF Needs
<1> QED
  BY <1>1, <1>2 DEF Needs

LEMMA NeedsMore ==
  ASSUME program \in CheckedPrograms, NEW u \in Units, NEW M, NEW N, M \subseteq N, NEW x
  PROVE  Needs(u, x, M) \subseteq Needs(u, x, N)
<1>1. CallsSeen(program, u, M) \subseteq CallsSeen(program, u, N)
  BY CallsFacts
<1> QED
  BY <1>1 DEF Needs

\* What a solution has, it has by its equations.
LEMMA SolutionHas ==
  ASSUME NEW x, NEW M, IsSolution(x, M), NEW u \in Units
  PROVE  Seed[u] \subseteq x[u] /\ Needs(u, x, M) \subseteq x[u]
BY DEF IsSolution

\* What is trusted, and what is needed of units with no more than they must
\* have, every solution has.
LEMMA AlwaysFacts ==
  ASSUME InferenceTyped, NEW u \in Units
  PROVE  /\ \A e \in Seed[u] : Always(u, e)
         /\ \A y, e : /\ e \in Needs(u, y, {})
                      /\ \A v \in CallsSeen(program, u, {}) : e \in y[v] => Always(v, e)
                      => Always(u, e)
<1>1. \A e \in Seed[u] : Always(u, e)
  BY SolutionHas DEF Always
<1>2. ASSUME NEW y, NEW e, e \in Needs(u, y, {}),
             \A v \in CallsSeen(program, u, {}) : e \in y[v] => Always(v, e),
             NEW x, IsSolution(x, {})
      PROVE  e \in x[u]
  <2>1. \A v \in CallsSeen(program, u, {}) : e \in y[v] => e \in x[v]
    BY <1>2 DEF Always
  <2>2. e \in Needs(u, x, {})
    BY <1>2, <2>1, NeedsAt
  <2> QED
    BY <1>2, <2>2, SolutionHas
<1> QED
  BY <1>1, <1>2 DEF Always

\* The program is the same throughout, and what was declared during inference.
LEMMA ProgramStill ==
  ASSUME UNCHANGED program
  PROVE  /\ Units' = Units /\ WithBody(program)' = WithBody(program)
         /\ CallGraph(program)' = CallGraph(program) /\ Sccs' = Sccs
         /\ \A u, M : CallsSeen(program, u, M)' = CallsSeen(program, u, M)
         /\ \A sort : Of(sort)' = Of(sort)
<1>1. program' = program
  OBVIOUS
<1>2. Units' = Units /\ WithBody(program)' = WithBody(program)
  BY <1>1 DEF Units, WithBody
<1>3. Polymorphic(program)' = Polymorphic(program)
  BY <1>1 DEF Polymorphic, Unimpled, ImplsIn, OfSort
<1>4. \A u, M : CallsSeen(program, u, M)' = CallsSeen(program, u, M)
  BY <1>1, <1>3 DEF CallsSeen
<1>5. CallGraph(program)' = CallGraph(program)
  BY <1>2, <1>4 DEF CallGraph
<1>6. Sccs' = Sccs
  BY <1>5 DEF Sccs
<1>7. \A sort : Of(sort)' = Of(sort)
  BY <1>1 DEF Of, OfSort
<1> QED
  BY <1>2, <1>4, <1>5, <1>6, <1>7

LEMMA DeclStill ==
  ASSUME UNCHANGED <<program, decl>>
  PROVE  /\ Seed' = Seed /\ UsesUnderscore' = UsesUnderscore
         /\ \A u, x, M : Needs(u, x, M)' = Needs(u, x, M)
         /\ \A u : Needs(u, inferred, {})' = Needs(u, inferred', {})
         /\ \A x, M : IsSolution(x, M)' <=> IsSolution(x, M)
         /\ \A u, e : Always(u, e)' <=> Always(u, e)
<1>1. \A u, x : CalleeEffects(u, x)' = CalleeEffects(u, x)
  BY DEF CalleeEffects
<1>2. \A u, x, M : Needs(u, x, M)' = Needs(u, x, M)
  BY <1>1, ProgramStill DEF Needs
<1>5. \A u : Needs(u, inferred, {})' = Needs(u, inferred', {})
  <2>1. \A u : CalleeEffects(u, inferred)' = CalleeEffects(u, inferred')
    BY DEF CalleeEffects
  <2> QED
    BY <2>1, ProgramStill DEF Needs
<1>3. Units' = Units
  BY DEF Units
<1>4. Seed' = Seed /\ UsesUnderscore' = UsesUnderscore
  BY <1>3 DEF Seed, UsesUnderscore
<1>6. \A x, M : IsSolution(x, M)' <=> IsSolution(x, M)
  BY <1>2, <1>3, <1>4 DEF IsSolution
<1>7. \A u, e : Always(u, e)' <=> Always(u, e)
  <2>1. \A x : IsSolution(x, {})' <=> IsSolution(x, {})
    BY <1>6
  <2> QED
    BY <2>1 DEF Always
<1> QED
  BY <1>2, <1>3, <1>4, <1>5, <1>6, <1>7

\* The component solved next, and those behind it.
LEMMA TakesNextComponent ==
  ASSUME InferenceTyped, Solving
  PROVE  /\ FirstOf(work) \in SUBSET WithBody(program) /\ IsFiniteSet(FirstOf(work))
         /\ Solved \in Nat /\ Solved <= Len(Sccs)
         /\ work # <<>> => /\ Solved + 1 \in 1 .. Len(Sccs)
                           /\ FirstOf(work) = Head(work) /\ Head(work) = Sccs[Solved + 1]
                           /\ Tail(work) \in Seq(SUBSET WithBody(program))
                           /\ Len(Tail(work)) = Len(work) - 1
                           /\ DOMAIN Tail(work) = 1 .. Len(work) - 1
                           /\ \A i \in 1 .. Len(work) - 1 : Tail(work)[i] = work[i + 1]
         /\ work = <<>> => Solved = Len(Sccs) /\ FirstOf(work) = {}
<1>1. work \in Seq(SUBSET WithBody(program)) /\ program \in CheckedPrograms
  BY DEF InferenceTyped
<1>2. Solved \in Nat /\ \A i \in DOMAIN work : work[i] = Sccs[Solved + i]
  BY DEF Solving
<1>3. Len(Sccs) \in Nat
  BY <1>1, SccFacts
<1>4. Len(work) \in Nat /\ Solved <= Len(Sccs)
  BY <1>1, <1>3 DEF Solved
<1>5. CASE work = <<>>
  <2>1. Solved = Len(Sccs) /\ FirstOf(work) = {}
    BY <1>3, <1>5 DEF Solved, FirstOf
  <2> QED
    BY <1>2, <1>4, <1>5, <2>1, FS_EmptySet
<1>6. CASE work # <<>>
  <2> DEFINE W == WithBody(program)
  <2>1. work \in Seq(SUBSET W)
    BY <1>1
  <2> HIDE DEF W
  <2> DEFINE X == SUBSET W
  <2> HIDE DEF X
  <2>2. /\ Head(work) = work[1] /\ 1 \in DOMAIN work /\ Head(work) \in X
        /\ Tail(work) \in Seq(X) /\ Len(Tail(work)) = Len(work) - 1
        /\ DOMAIN Tail(work) = 1 .. Len(work) - 1
        /\ \A i \in 1 .. Len(work) - 1 : Tail(work)[i] = work[i + 1]
        /\ Len(work) # 0
    <3>1. work \in Seq(X)
      BY <2>1 DEF X
    <3> QED
      BY <1>6, <3>1
  <2>3. Head(work) = Sccs[Solved + 1]
    BY <1>2, <2>2
  <2>4. Solved + 1 \in 1 .. Len(Sccs)
    BY <1>2, <1>3, <1>4, <2>2 DEF Solved
  <2>5. IsFiniteSet(Head(work))
    BY <1>1, <2>3, <2>4, SccFacts
  <2>6. FirstOf(work) = Head(work)
    BY <1>6 DEF FirstOf
  <2> QED
    BY <1>2, <1>4, <1>6, <2>2, <2>3, <2>4, <2>5, <2>6 DEF W, X
<1> QED
  BY <1>5, <1>6

\* The calls from a component stay in it, or lead to one before it or to a
\* unit without a body.
LEMMA CallsBehind ==
  ASSUME program \in CheckedPrograms, NEW i \in 1 .. Len(Sccs), NEW u \in Sccs[i],
         NEW v \in CallsSeen(program, u, {}), v \in WithBody(program), v \notin Sccs[i]
  PROVE  \E j \in 1 .. i - 1 : v \in Sccs[j]
<1>1. PICK j \in 1 .. Len(Sccs) : v \in Sccs[j]
  BY SccFacts
<1>2. j <= i /\ Len(Sccs) \in Nat
  BY <1>1, SccFacts
<1>3. j # i
  BY <1>1
<1>4. j \in 1 .. i - 1
  BY <1>2, <1>3
<1> QED
  BY <1>1, <1>4

\* The equations bring no effect that the program does not name.
LEMMA NamedFacts ==
  ASSUME InferenceTyped, NEW u \in Units
  PROVE  /\ Seed[u] \subseteq EffectsNamed
         /\ \A x, M : (\A v \in Units : x[v] \subseteq EffectsNamed)
                        => Needs(u, x, M) \subseteq EffectsNamed
<1>1. \A v \in Units : program.own[v] \subseteq EffectsNamed /\ decl[v].effects \subseteq EffectsNamed
  BY DEF EffectsNamed
<1>2. Seed[u] \subseteq EffectsNamed
  BY <1>1 DEF Seed
<1>3. ASSUME NEW x, NEW M, \A v \in Units : x[v] \subseteq EffectsNamed, NEW v \in Units
      PROVE  CalleeEffects(v, x) \subseteq EffectsNamed
  <2>1. decl[v].kind \in Kinds
    BY DEF InferenceTyped
  <2> QED
    BY <1>1, <1>3, <2>1 DEF CalleeEffects, Kinds
<1>4. ASSUME NEW x, NEW M, \A v \in Units : x[v] \subseteq EffectsNamed
      PROVE  Needs(u, x, M) \subseteq EffectsNamed
  <2>1. CallsSeen(program, u, M) \subseteq Units
    BY CallsFacts DEF InferenceTyped
  <2> QED
    BY <1>1, <1>3, <1>4, <2>1 DEF Needs
<1> QED
  BY <1>2, <1>4

(***************************************************************************)
(* In a set of units whose calls lead out of it to complete units only, an *)
(* effect that no unit lacks has come to all that must have it: without it *)
(* where it is not inferred, what all must have would be a solution too.   *)
(***************************************************************************)
LEMMA NoneLacks ==
  ASSUME InferenceTyped, Sound, NEW S \in SUBSET Units, NEW e,
         \A u \in S : \A v \in CallsSeen(program, u, {}) :
           v \in WithBody(program) /\ v \notin S => Complete(v),
         \A u \in S : ~ Lacks(u, e)
  PROVE  \A u \in S : Always(u, e) => e \in inferred[u]
<1> DEFINE T == S \cup (Units \ WithBody(program))
           Y(w) == {d \in EffectsNamed : Always(w, d) /\ (d = e /\ w \in T => e \in inferred[w])}
           y == [w \in Units |-> Y(w)]
<1>1. program \in CheckedPrograms
  BY DEF InferenceTyped
<1>2. ASSUME NEW w \in Units, NEW d \in Seed[w] PROVE d \in Y(w)
  BY <1>2, NamedFacts, AlwaysFacts DEF Sound
<1>3. ASSUME NEW w \in Units, NEW d \in Needs(w, y, {}) PROVE d \in Y(w)
  <2>1. \A v \in CallsSeen(program, w, {}) : v \in Units
    BY <1>1, CallsFacts
  <2>2. d \in EffectsNamed
    <3>1. \A v \in Units : y[v] \subseteq EffectsNamed
      OBVIOUS
    <3> HIDE DEF y
    <3> QED
      BY <1>3, <3>1, NamedFacts
  <2>3. Always(w, d)
    <3>1. \A v \in CallsSeen(program, w, {}) : d \in y[v] => Always(v, d)
      BY <2>1
    <3> HIDE DEF y
    <3> QED
      BY <1>3, <3>1, AlwaysFacts
  <2>4. ASSUME d = e, w \in T PROVE e \in inferred[w]
    <3>1. w \in WithBody(program)
      <4>1. ASSUME w \notin WithBody(program) PROVE FALSE
        <5>1. program.own[w] = {} /\ CallsSeen(program, w, {}) = {}
          BY <1>1, <4>1, ProgramFacts, CallsFacts
        <5> HIDE DEF y
        <5> QED
          BY <1>3, <5>1 DEF Needs
      <4> QED
        BY <4>1
    <3>2. w \in S
      BY <2>4, <3>1
    <3>3. ASSUME NEW v \in CallsSeen(program, w, {}), e \in y[v] PROVE e \in inferred[v]
      <4>1. v \in Units /\ e \in Y(v)
        BY <2>1, <3>3
      <4>2. CASE v \in T
        BY <4>1, <4>2
      <4>3. CASE v \notin T
        BY <3>2, <4>1, <4>3 DEF Complete
      <4> QED
        BY <4>2, <4>3
    <3> HIDE DEF y
    <3>4. e \in Needs(w, inferred, {})
      BY <1>3, <2>4, <3>3, NeedsAt
    <3> QED
      BY <3>2, <3>4 DEF Lacks
  <2> QED
    BY <2>2, <2>3, <2>4
<1>4. IsSolution(y, {})
  <2>1. \A w \in Units : y[w] = Y(w)
    OBVIOUS
  <2> HIDE DEF y, Y
  <2> QED
    BY <1>2, <1>3, <2>1 DEF IsSolution
<1>5. ASSUME NEW u \in S, Always(u, e) PROVE e \in inferred[u]
  <2>1. e \in y[u]
    <3> HIDE DEF y
    <3> QED
      BY <1>4, <1>5 DEF Always
  <2> QED
    BY <2>1
<1> QED
  BY <1>5

LEMMA ComponentHas ==
  ASSUME InferenceTyped, Sound, NEW i \in 1 .. Len(Sccs),
         \A j \in 1 .. i - 1 : \A v \in Sccs[j] : Complete(v),
         NEW e, \A u \in Sccs[i] : ~ Lacks(u, e)
  PROVE  \A u \in Sccs[i] : Always(u, e) => e \in inferred[u]
<1>1. program \in CheckedPrograms
  BY DEF InferenceTyped
<1>2. Sccs[i] \in SUBSET Units
  BY <1>1, SccFacts, ProgramFacts
<1>3. \A u \in Sccs[i] : \A v \in CallsSeen(program, u, {}) :
        v \in WithBody(program) /\ v \notin Sccs[i] => Complete(v)
  BY <1>1, CallsBehind
<1> QED
  BY <1>2, <1>3, NoneLacks

(***************************************************************************)
(* The initial states.                                                     *)
(***************************************************************************)
LEMMA InferenceStart ==
  ASSUME InferenceInit
  PROVE  InferenceTyped /\ Solving /\ Sound /\ Kept /\ Limit /\ Marks /\ Reports
<1> USE DEF InferenceInit
<1>1. program \in CheckedPrograms
  OBVIOUS
<1>2. work = Sccs /\ rest = FirstOf(work)
  BY DEF Sccs
<1>3. Sccs \in Seq(SUBSET WithBody(program)) /\ Len(Sccs) \in Nat
  BY <1>1, SccFacts
<1>4. FirstOf(work) \in SUBSET WithBody(program)
  <2>1. CASE work = <<>>
    BY <2>1 DEF FirstOf
  <2>2. CASE work # <<>>
    <3> DEFINE X == SUBSET WithBody(program)
    <3> HIDE DEF X
    <3>1. work \in Seq(X)
      BY <1>2, <1>3 DEF X
    <3>2. Head(work) \in X
      BY <2>2, <3>1
    <3> QED
      BY <2>2, <3>2 DEF FirstOf, X
  <2> QED
    BY <2>1, <2>2
<1>5. DOMAIN decl = Units /\ \A u \in Units : decl[u].kind \in Kinds
  <2>1. \A u \in Units : program.decl[u].kind \in Kinds
    BY <1>1, ProgramFacts
  <2> QED
    BY <2>1 DEF Kinds
<1>6. DOMAIN inferred = Units
  BY DEF Seed
<1>7. InferenceTyped
  BY <1>1, <1>2, <1>3, <1>4, <1>5, <1>6 DEF InferenceTyped
<1>8. Solved = 0
  BY <1>2, <1>3 DEF Solved
<1>9. Solving
  <2>1. DOMAIN work = 1 .. Len(Sccs)
    BY <1>2, <1>3
  <2>2. \A i \in DOMAIN work : 0 + i = i
    BY <1>3, <2>1
  <2> QED
    BY <1>2, <1>8, <2>2 DEF Solving
<1>10. Behind = {}
  BY <1>8 DEF Behind
<1>11. Sound
  BY DEF Sound, IsSolution, AtMost
<1>12. Kept
  BY <1>2, <1>10 DEF Kept
<1>13. Limit
  <2> SUFFICES ASSUME NEW e PROVE Spreads(e)
    BY DEF Limit
  <2>1. Cardinality(Having(e)) >= passes
    <3>1. IsFiniteSet(FirstOf(work)) /\ Having(e) \subseteq FirstOf(work)
      BY <1>7, <1>9, TakesNextComponent DEF Having
    <3>2. Cardinality(Having(e)) \in Nat
      BY <3>1, FS_Subset, FS_CardinalityType
    <3> QED
      BY <3>2
  <2>2. CASE work = <<>>
    BY <2>2 DEF Spreads, FirstOf
  <2>3. CASE work # <<>> /\ \A u \in FirstOf(work) : ~ Lacks(u, e)
    <3>1. 1 \in 1 .. Len(Sccs) /\ FirstOf(work) = Sccs[1]
      BY <1>7, <1>8, <1>9, <2>3, TakesNextComponent
    <3>2. \A j \in 1 .. 1 - 1 : FALSE
      OBVIOUS
    <3> QED
      BY <1>7, <1>11, <2>3, <3>1, <3>2, ComponentHas DEF Spreads
  <2> QED
    BY <1>2, <2>1, <2>2, <2>3 DEF Spreads
<1>14. Marks
  BY <1>2, <1>10 DEF Marks
<1>15. Reports
  BY DEF Reports
<1> QED
  BY <1>7, <1>9, <1>11, <1>12, <1>13, <1>14, <1>15

(***************************************************************************)
(* A unit is walked.                                                       *)
(***************************************************************************)
LEMMA WalkFacts ==
  ASSUME InferenceTyped, Solving, NEW u \in rest, Walk(u)
  PROVE  /\ u \in Units /\ u \in WithBody(program) /\ u \in FirstOf(work) /\ work # <<>>
         /\ phase = "inferring" /\ UNCHANGED <<program, decl, work, passes, phase, errors>>
         /\ rest' = rest \ {u}
         /\ DOMAIN inferred' = Units
         /\ inferred'[u] = inferred[u] \cup Needs(u, inferred, marked)
         /\ \A v \in Units \ {u} : inferred'[v] = inferred[v]
         /\ \A v \in Units : inferred[v] \subseteq inferred'[v]
         /\ ~ grown' => ~ grown /\ inferred' = inferred
         /\ marked \subseteq marked'
         /\ FirstOf(work)' = FirstOf(work) /\ Solved' = Solved /\ Behind' = Behind
<1>1. /\ phase = "inferring" /\ UNCHANGED <<program, decl, work, passes, phase, errors>>
      /\ rest' = rest \ {u}
      /\ inferred' = [inferred EXCEPT ![u] = @ \cup Needs(u, inferred, marked)]
      /\ grown' = (grown \/ inferred' # inferred)
  BY DEF Walk
<1>2. u \in FirstOf(work) /\ u \in WithBody(program) /\ u \in Units /\ DOMAIN inferred = Units
  BY TakesNextComponent, ProgramFacts DEF InferenceTyped
<1>3. work # <<>>
  BY <1>2 DEF FirstOf
<1>4. /\ DOMAIN inferred' = Units
      /\ inferred'[u] = inferred[u] \cup Needs(u, inferred, marked)
      /\ \A v \in Units \ {u} : inferred'[v] = inferred[v]
  BY <1>1, <1>2
<1>5. \A v \in Units : inferred[v] \subseteq inferred'[v]
  BY <1>4
<1>6. ~ grown' => ~ grown /\ inferred' = inferred
  BY <1>1
<1>7. FirstOf(work)' = FirstOf(work)
  BY <1>1 DEF FirstOf
<1>8. Solved' = Solved /\ Behind' = Behind
  BY <1>1, ProgramStill DEF Solved, Behind
<1>9. marked \subseteq marked'
  BY DEF Walk
<1> QED
  BY <1>1, <1>2, <1>3, <1>4, <1>5, <1>6, <1>7, <1>8, <1>9

LEMMA WalkTyped ==
  ASSUME InferenceTyped, Solving, NEW u \in rest, Walk(u)
  PROVE  InferenceTyped' /\ Solving'
<1>1. Units' = Units /\ WithBody(program)' = WithBody(program) /\ Sccs' = Sccs
  BY WalkFacts, ProgramStill
<1>2. marked' \in SUBSET Units /\ grown' \in BOOLEAN
  <2>1. u \in Units /\ marked \in SUBSET Units
    BY WalkFacts DEF InferenceTyped
  <2> QED
    BY <2>1 DEF Walk, InferenceTyped
<1>3. InferenceTyped'
  BY <1>1, <1>2, WalkFacts DEF InferenceTyped
<1>4. Solving'
  BY <1>1, WalkFacts DEF Solving
<1> QED
  BY <1>3, <1>4

LEMMA WalkSound ==
  ASSUME InferenceTyped, Solving, Sound, NEW u \in rest, Walk(u)
  PROVE  Sound'
<1>1. /\ Units' = Units /\ WithBody(program)' = WithBody(program) /\ Seed' = Seed
      /\ \A x, M : IsSolution(x, M)' <=> IsSolution(x, M)
  BY WalkFacts, ProgramStill, DeclStill
<1>2. /\ u \in Units /\ program \in CheckedPrograms
      /\ \A v \in CallsSeen(program, u, marked) : v \in Units
  BY WalkFacts, CallsFacts DEF InferenceTyped
<1>3. ASSUME NEW x, IsSolution(x, marked'), NEW v \in Units PROVE inferred'[v] \subseteq x[v]
  <2>1. IsSolution(x, marked)
    <3>1. \A w \in Units : Needs(w, x, marked) \subseteq Needs(w, x, marked')
      BY <1>2, WalkFacts, NeedsMore
    <3> QED
      BY <1>3, <3>1 DEF IsSolution
  <2>2. \A w \in Units : inferred[w] \subseteq x[w]
    BY <2>1 DEF Sound, AtMost
  <2>3. CASE v # u
    BY <2>2, <2>3, WalkFacts
  <2>4. CASE v = u
    <3>1. ASSUME NEW e \in Needs(u, inferred, marked) PROVE e \in x[u]
      <4>1. e \in Needs(u, x, marked)
        BY <1>2, <2>2, NeedsAt
      <4> QED
        BY <1>2, <2>1, <4>1, SolutionHas
    <3> QED
      BY <2>2, <2>4, <3>1, WalkFacts
  <2> QED
    BY <2>3, <2>4
<1>4. \A v \in Units : Seed[v] \subseteq inferred'[v]
  BY WalkFacts DEF Sound
<1>5. \A v \in Units \ WithBody(program) : inferred'[v] = Seed[v]
  BY WalkFacts DEF Sound
<1>6. ASSUME NEW x, IsSolution(x, marked)' PROVE AtMost(inferred, x)'
  <2>1. IsSolution(x, marked')
    BY <1>1, <1>6 DEF IsSolution
  <2> QED
    BY <1>1, <1>3, <2>1 DEF AtMost
<1> QED
  BY <1>1, <1>4, <1>5, <1>6 DEF Sound

LEMMA BehindUnits ==
  ASSUME InferenceTyped, Solving
  PROVE  Behind \in SUBSET Units /\ FirstOf(work) \in SUBSET Units
<1>1. program \in CheckedPrograms
  BY DEF InferenceTyped
<1>2. WithBody(program) \in SUBSET Units /\ FirstOf(work) \in SUBSET WithBody(program)
  BY <1>1, ProgramFacts, TakesNextComponent
<1>3. \A i \in 1 .. Solved : Sccs[i] \in SUBSET WithBody(program)
  BY <1>1, TakesNextComponent, SccFacts
<1> QED
  BY <1>2, <1>3 DEF Behind

LEMMA WalkKept ==
  ASSUME InferenceTyped, Solving, Kept, NEW u \in rest, Walk(u)
  PROVE  Kept'
<1>1. /\ \A v \in Units : Needs(v, inferred, {})' = Needs(v, inferred', {})
      /\ \A v, e : Always(v, e)' <=> Always(v, e)
  BY WalkFacts, DeclStill
<1>2. u \in Units /\ program \in CheckedPrograms
  BY WalkFacts DEF InferenceTyped
<1>3. Behind \in SUBSET Units /\ FirstOf(work) \in SUBSET Units
  BY BehindUnits
\* The unit itself needs no more than it had.
<1>4. Needs(u, inferred', {}) \subseteq inferred'[u]
  <2> SUFFICES ASSUME NEW e \in Needs(u, inferred', {}), e \notin inferred'[u] PROVE FALSE
    OBVIOUS
  <2>1. \A v \in CallsSeen(program, u, {}) : e \in inferred'[v] => e \in inferred[v]
    <3>1. CallsSeen(program, u, {}) \subseteq Units
      BY <1>2, CallsFacts
    <3> QED
      BY <3>1, WalkFacts
  <2>2. e \in Needs(u, inferred, {})
    BY <1>2, <2>1, NeedsAt
  <2>3. Needs(u, inferred, {}) \subseteq Needs(u, inferred, marked)
    BY <1>2, NeedsMore
  <2> QED
    BY <2>2, <2>3, WalkFacts
<1>5. ASSUME NEW v \in Behind PROVE Complete(v)'
  <2>1. Complete(v) /\ inferred[v] \subseteq inferred'[v]
    BY <1>3, WalkFacts DEF Kept
  <2> QED
    BY <1>1, <2>1 DEF Complete
<1>6. ASSUME Cardinality(FirstOf(work)) = 1 \/ ~ grown', NEW v \in FirstOf(work) \ rest'
      PROVE  Needs(v, inferred', {}) \subseteq inferred'[v]
  <2>1. CASE v = u
    BY <1>4, <2>1
  <2>2. CASE v # u /\ Cardinality(FirstOf(work)) = 1
    <3>1. PICK w : FirstOf(work) = {w}
      BY <2>2, TakesNextComponent, FS_Singleton
    <3> QED
      BY <1>6, <2>2, <3>1, WalkFacts
  <2>3. CASE v # u /\ ~ grown'
    <3>1. v \in FirstOf(work) \ rest /\ ~ grown /\ inferred' = inferred
      BY <1>6, <2>3, WalkFacts
    <3> QED
      BY <3>1 DEF Kept
  <2> QED
    BY <1>6, <2>1, <2>2, <2>3
<1>7. /\ \A v \in Behind' : Complete(v)'
      /\ Cardinality(FirstOf(work)') = 1 \/ ~ grown' =>
           \A v \in FirstOf(work)' \ rest' : Needs(v, inferred, {})' \subseteq inferred'[v]
  BY <1>1, <1>3, <1>5, <1>6, WalkFacts
<1> QED
  BY <1>7 DEF Kept

LEMMA HavingFacts ==
  ASSUME InferenceTyped, Solving, NEW e
  PROVE  /\ Having(e) \subseteq FirstOf(work) /\ IsFiniteSet(Having(e))
         /\ Cardinality(Having(e)) \in Nat /\ Cardinality(FirstOf(work)) \in Nat
         /\ Cardinality(Having(e)) <= Cardinality(FirstOf(work))
<1>1. Having(e) \subseteq FirstOf(work) /\ IsFiniteSet(FirstOf(work))
  BY TakesNextComponent DEF Having
<1> QED
  BY <1>1, FS_Subset, FS_CardinalityType

LEMMA WalkLimit ==
  ASSUME InferenceTyped, Solving, Limit, NEW u \in rest, Walk(u)
  PROVE  Limit'
<1>1. FirstOf(work) \in SUBSET Units /\ \A v \in Units : CallsSeen(program, v, {}) \subseteq Units
  BY BehindUnits, CallsFacts DEF InferenceTyped
<1>2. /\ \A v \in Units : Needs(v, inferred, {})' = Needs(v, inferred', {})
      /\ \A v, e : Always(v, e)' <=> Always(v, e)
  BY WalkFacts, DeclStill
<1> SUFFICES ASSUME NEW e PROVE Spreads(e)'
  BY DEF Limit
<1> DEFINE scc == FirstOf(work)
           n == Cardinality(Having(e))
           more == {v \in scc : e \in inferred'[v]}
<1>3. /\ Having(e)' = more /\ FirstOf(work)' = scc /\ passes' = passes
      /\ passes \in Nat /\ IsFiniteSet(scc)
  BY WalkFacts, TakesNextComponent DEF Having, InferenceTyped
<1>4. /\ Having(e) \subseteq more /\ IsFiniteSet(more) /\ IsFiniteSet(Having(e))
      /\ n \in Nat /\ Cardinality(more) \in Nat /\ n <= Cardinality(more)
  <2>1. Having(e) \subseteq more /\ more \subseteq scc
    BY <1>1, WalkFacts DEF Having
  <2> HIDE DEF more, scc
  <2> QED
    BY <1>3, <2>1, FS_Subset, FS_CardinalityType
<1> HIDE DEF more
<1>5. CASE \A v \in scc : Always(v, e) => e \in inferred[v]
  <2>1. \A v \in scc : Always(v, e)' => e \in inferred'[v]
    BY <1>1, <1>2, <1>5, WalkFacts
  <2> QED
    BY <1>3, <2>1 DEF Spreads
<1>6. CASE n >= passes + 1
  <2>1. Cardinality(more) >= passes + 1
    BY <1>3, <1>4, <1>6
  <2> QED
    BY <1>3, <2>1 DEF Spreads
<1>7. ASSUME n >= passes, NEW w \in rest, Lacks(w, e) PROVE Spreads(e)'
  <2>1. w \in Units /\ CallsSeen(program, w, {}) \in SUBSET Units
    BY <1>1 DEF InferenceTyped
  <2>2. CASE w = u
    <3>1. u \notin Having(e) /\ Having(e) \cup {u} \subseteq more
      <4>1. Needs(u, inferred, {}) \subseteq Needs(u, inferred, marked)
        BY <2>1, <2>2, NeedsMore DEF InferenceTyped
      <4> QED
        BY <1>4, <1>7, <2>2, <4>1, WalkFacts DEF Having, Lacks, more
    <3>2. Cardinality(Having(e) \cup {u}) = n + 1
      BY <1>4, <3>1, FS_AddElement
    <3>3. Cardinality(Having(e) \cup {u}) <= Cardinality(more)
      BY <1>4, <3>1, FS_Subset
    <3>4. Cardinality(more) >= passes + 1
      BY <1>3, <1>4, <1>7, <3>2, <3>3
    <3> QED
      BY <1>3, <3>4 DEF Spreads
  <2>3. CASE w # u
    <3>1. \A v \in CallsSeen(program, w, {}) : e \in inferred[v] => e \in inferred'[v]
      BY <2>1, WalkFacts
    <3>2. e \in Needs(w, inferred', {})
      BY <1>7, <2>1, <3>1, NeedsAt DEF Lacks
    <3>3. e \notin inferred'[w]
      BY <1>7, <2>1, <2>3, WalkFacts DEF Lacks
    <3>4. Lacks(w, e)' /\ w \in rest'
      BY <1>2, <2>1, <2>3, <3>2, <3>3, WalkFacts DEF Lacks
    <3>5. Cardinality(more) >= passes
      BY <1>3, <1>4, <1>7
    <3> QED
      BY <1>3, <3>4, <3>5 DEF Spreads
  <2> QED
    BY <2>2, <2>3
<1>8. Spreads(e)
  BY DEF Limit
<1> QED
  BY <1>5, <1>6, <1>7, <1>8 DEF Spreads

(***************************************************************************)
(* The marks.                                                              *)
(***************************************************************************)
LEMMA MarksStill ==
  ASSUME UNCHANGED program, UsesUnderscore' = UsesUnderscore
  PROVE  Leading(Ever)' = Leading(Ever) /\ Straight' = Straight
<1>1. Units' = Units /\ Early' = Early /\ Ever' = Ever
  BY ProgramStill DEF Early, Ever
<1>2. Leading(Early)' = Leading(Early) /\ Leading(Ever)' = Leading(Ever)
  BY <1>1 DEF Leading
<1>3. Cyclic' = Cyclic
  BY <1>1 DEF Cyclic
<1> QED
  BY <1>1, <1>2, <1>3 DEF Straight

\* Calls lead on.
LEMMA ReachFacts ==
  ASSUME NEW g, IsGraph(g), DOMAIN g = Units, NEW u \in Units
  PROVE  /\ Reachable(u, g) \subseteq Units /\ g[u] \subseteq Reachable(u, g)
         /\ \A v \in Reachable(u, g) : Reachable(v, g) \subseteq Reachable(u, g)
         /\ \A n \in Reachable(u, g) : \E w \in g[u] : n = w \/ n \in Reachable(w, g)
<1>1. Reachable(u, g) \subseteq Units /\ g[u] \subseteq Reachable(u, g)
  BY ReachableClosed
<1>2. \A v \in Reachable(u, g) : Reachable(v, g) \subseteq Reachable(u, g)
  BY ReachableTransitive
<1>3. \A n \in Reachable(u, g) : \E w \in g[u] : n = w \/ n \in Reachable(w, g)
  BY ReachableFirstStep
<1> QED
  BY <1>1, <1>2, <1>3

\* Two units of one component call each other in a circle.
LEMMA ComponentCyclic ==
  ASSUME program \in CheckedPrograms, NEW i \in 1 .. Len(Sccs),
         NEW u \in Sccs[i], NEW w \in Sccs[i], w \in Early[u]
  PROVE  u \in Cyclic
<1>1. u \in WithBody(program) /\ w \in WithBody(program) /\ u \in Units /\ w \in Units
  BY SccFacts, ProgramFacts
<1>2. w \in Reachable(u, Early)
  BY <1>1, GraphsOfCalls, ReachFacts
<1>3. CASE w = u
  BY <1>1, <1>2, <1>3 DEF Cyclic
<1>4. CASE w # u
  <2> DEFINE g == CallGraph(program)
             c == Early
  <2>1. Mutual(u, w, g)
    BY <1>4, SccFacts
  <2>2. u \in Reachable(w, g)
    BY <2>1 DEF Mutual
  <2>3. /\ IsGraph(g) /\ DOMAIN g = WithBody(program) /\ IsGraph(c) /\ DOMAIN c = Units
        /\ WithBody(program) \subseteq Units
        /\ \A v \in WithBody(program) : g[v] \subseteq c[v]
    BY SccFacts, ProgramFacts, GraphsOfCalls
  <2> HIDE DEF g, c
  <2>4. Reachable(w, g) \subseteq Reachable(w, c)
    BY <1>1, <2>3, ReachableMonotonic
  <2>5. u \in Reachable(w, Early)
    BY <2>2, <2>4 DEF c
  <2>6. Reachable(w, Early) \subseteq Reachable(u, Early)
    BY <1>1, <1>2, GraphsOfCalls, ReachFacts
  <2> QED
    BY <1>1, <2>5, <2>6 DEF Cyclic
<1> QED
  BY <1>3, <1>4

LEMMA WalkMarks ==
  ASSUME InferenceTyped, Solving, Marks, NEW u \in rest, Walk(u)
  PROVE  Marks'
<1> DEFINE Doubtful == CallsSeen(program, u, marked) \cap (UsesUnderscore \cup marked)
<1>1. /\ program \in CheckedPrograms /\ u \in Units /\ u \in WithBody(program)
      /\ u \in FirstOf(work) /\ work # <<>> /\ rest' = rest \ {u}
      /\ FirstOf(work)' = FirstOf(work) /\ Behind' = Behind
      /\ Leading(Ever)' = Leading(Ever) /\ Straight' = Straight
  BY WalkFacts, DeclStill, MarksStill DEF InferenceTyped
<1>2. \/ Doubtful = {} /\ marked' = marked
      \/ Doubtful # {} /\ marked' = marked \cup {u}
  BY DEF Walk
<1>3. /\ CallsSeen(program, u, marked) \subseteq Units
      /\ CallsSeen(program, u, marked) \subseteq Ever[u]
      /\ Early[u] \subseteq CallsSeen(program, u, marked)
  <2>1. marked \subseteq Units
    BY DEF InferenceTyped
  <2> QED
    BY <1>1, <2>1, CallsFacts, GraphsOfCalls
<1>4. ASSUME NEW v \in Doubtful PROVE u \in Leading(Ever)
  <2>1. /\ v \in Units /\ v \in Reachable(u, Ever)
        /\ Reachable(v, Ever) \subseteq Reachable(u, Ever)
    BY <1>1, <1>3, GraphsOfCalls, ReachFacts
  <2>2. CASE v \in UsesUnderscore
    BY <1>1, <2>1, <2>2 DEF Leading
  <2>3. CASE v \in marked
    BY <1>1, <2>1, <2>3 DEF Leading, Marks
  <2> QED
    BY <2>2, <2>3
<1>5. marked' \subseteq Leading(Ever)
  BY <1>2, <1>4 DEF Marks
<1>6. ASSUME u \in Straight PROVE Doubtful # {}
  <2>1. PICK y : y \in Reachable(u, Early) /\ y \in UsesUnderscore
    BY <1>6 DEF Straight, Leading
  <2>2. PICK w \in Early[u] : y = w \/ y \in Reachable(w, Early)
    BY <1>1, <2>1, GraphsOfCalls, ReachFacts
  <2>3. CASE y = w
    BY <1>3, <2>1, <2>2, <2>3
  <2>4. CASE y \in Reachable(w, Early)
    <3>1. /\ w \in Units /\ w \in Reachable(u, Early)
          /\ Reachable(w, Early) \subseteq Reachable(u, Early)
      BY <1>1, <1>3, <2>2, GraphsOfCalls, ReachFacts
    <3>2. w \in Straight
      BY <1>6, <2>1, <2>4, <3>1 DEF Straight, Leading
    <3>3. CallsSeen(program, w, {}) # {}
      BY <1>1, <2>4, <3>1, GraphsOfCalls, ReachFacts
    <3>4. w \in WithBody(program)
      BY <1>1, <3>1, <3>3, CallsFacts
    <3>5. Solved + 1 \in 1 .. Len(Sccs) /\ u \in Sccs[Solved + 1] /\ Solved \in Nat
      BY <1>1, TakesNextComponent
    <3>6. PICK j \in 1 .. Len(Sccs) : w \in Sccs[j]
      BY <1>1, <3>4, SccFacts
    <3>7. j <= Solved + 1
      <4> HIDE DEF Solved
      <4> QED
        BY <1>1, <2>2, <3>5, <3>6, SccFacts, GraphsOfCalls
    <3>8. CASE j = Solved + 1
      <4>1. u \in Cyclic
        <5> HIDE DEF Solved
        <5> QED
          BY <1>1, <2>2, <3>5, <3>6, <3>8, ComponentCyclic
      <4> QED
        BY <1>6, <4>1 DEF Straight
    <3>9. CASE j # Solved + 1
      <4>1. j \in 1 .. Solved
        <5> HIDE DEF Solved
        <5> QED
          BY <3>5, <3>7, <3>9
      <4>2. w \in Behind
        BY <3>6, <4>1 DEF Behind
      <4>3. w \in marked
        BY <3>2, <4>2 DEF Marks
      <4> QED
        BY <1>3, <2>2, <4>3
    <3> QED
      BY <3>8, <3>9
  <2> QED
    BY <2>2, <2>3, <2>4
<1>7. (Behind \cup (FirstOf(work) \ rest')) \cap Straight \subseteq marked'
  <2> SUFFICES ASSUME NEW v \in (Behind \cup (FirstOf(work) \ rest')) \cap Straight
               PROVE  v \in marked'
    OBVIOUS
  <2>1. CASE v = u
    BY <1>2, <1>6, <2>1
  <2>2. CASE v # u
    <3>1. v \in marked
      BY <1>1, <2>2 DEF Marks
    <3> QED
      BY <1>2, <3>1
  <2> QED
    BY <2>1, <2>2
<1> QED
  BY <1>1, <1>5, <1>7 DEF Marks

(***************************************************************************)
(* A pass ends.                                                            *)
(***************************************************************************)

\* An effect that no unit of the component lacks has come to all that must
\* have it.
LEMMA NextHas ==
  ASSUME InferenceTyped, Solving, Sound, Kept, work # <<>>,
         NEW e, \A u \in Head(work) : ~ Lacks(u, e)
  PROVE  \A u \in Head(work) : Always(u, e) => e \in inferred[u]
<1>1. Solved + 1 \in 1 .. Len(Sccs) /\ Head(work) = Sccs[Solved + 1] /\ Solved \in Nat
  BY TakesNextComponent
<1>2. \A j \in 1 .. (Solved + 1) - 1 : \A v \in Sccs[j] : Complete(v)
  <2>1. (Solved + 1) - 1 = Solved
    BY <1>1
  <2> QED
    BY <2>1 DEF Kept, Behind
<1> HIDE DEF Solved
<1> QED
  BY <1>1, <1>2, ComponentHas

\* A component done with is solved: its last pass has shown it, or no effect
\* could still spread.
LEMMA ComponentSolved ==
  ASSUME InferenceTyped, Solving, Sound, Kept, Limit, work # <<>>, rest = {},
         LET size == Cardinality(Head(work)) IN size = 1 \/ ~ grown \/ passes = size
  PROVE  \A u \in Head(work) : Complete(u)
<1> DEFINE scc == Head(work)
           size == Cardinality(scc)
<1>1. FirstOf(work) = scc
  BY TakesNextComponent
<1> SUFFICES ASSUME NEW e PROVE \A u \in scc : Always(u, e) => e \in inferred[u]
  BY DEF Complete
<1>2. CASE size = 1 \/ ~ grown
  <2>1. \A u \in scc : ~ Lacks(u, e)
    BY <1>1, <1>2 DEF Kept, Lacks
  <2> QED
    BY <2>1, NextHas
<1>3. CASE passes = size
  <2>1. Cardinality(Having(e)) \in Nat /\ size \in Nat /\ Cardinality(Having(e)) <= size
    BY <1>1, HavingFacts
  <2>2. (\A u \in scc : Always(u, e) => e \in inferred[u]) \/ Cardinality(Having(e)) >= passes + 1
    BY <1>1 DEF Limit, Spreads
  <2> HIDE DEF size
  <2> QED
    BY <1>3, <2>1, <2>2
<1> QED
  BY <1>2, <1>3

\* The upper bound depends on nothing but what it speaks of.
LEMMA SoundStill ==
  ASSUME Sound, UNCHANGED <<program, inferred, marked>>, Seed' = Seed,
         \A x, M : IsSolution(x, M)' <=> IsSolution(x, M)
  PROVE  Sound'
<1>1. Units' = Units /\ WithBody(program)' = WithBody(program)
  BY ProgramStill
<1>2. ASSUME NEW x, IsSolution(x, marked)' PROVE AtMost(inferred, x)'
  <2>1. IsSolution(x, marked)' <=> IsSolution(x, marked)
    BY DEF IsSolution
  <2> QED
    BY <1>1, <1>2, <2>1 DEF Sound, AtMost
<1> QED
  BY <1>1, <1>2 DEF Sound

LEMMA EndPassKeeps ==
  ASSUME InferenceTyped, Solving, Sound, Kept, Limit, Marks, EndPass
  PROVE  InferenceTyped' /\ Solving' /\ Sound' /\ Kept' /\ Limit' /\ Marks'
<1> DEFINE size == Cardinality(Head(work))
           solved == size = 1 \/ ~ grown \/ passes = size
<1>1. /\ phase = "inferring" /\ work # <<>> /\ rest = {}
      /\ work' = IF solved THEN Tail(work) ELSE work
      /\ passes' = IF solved THEN 0 ELSE passes + 1
      /\ rest' = FirstOf(work') /\ grown' = FALSE
      /\ UNCHANGED <<program, decl, inferred, marked, phase, errors>>
  BY DEF EndPass
<1> HIDE DEF solved
<1>2. /\ Units' = Units /\ WithBody(program)' = WithBody(program) /\ Sccs' = Sccs
      /\ Seed' = Seed
      /\ \A u : Needs(u, inferred, {})' = Needs(u, inferred, {})
      /\ \A x, M : IsSolution(x, M)' <=> IsSolution(x, M)
      /\ \A u, e : Always(u, e)' <=> Always(u, e)
  <2>1. \A u : Needs(u, inferred, {})' = Needs(u, inferred', {})
    BY <1>1, DeclStill
  <2>2. \A u : Needs(u, inferred, {})' = Needs(u, inferred, {})
    BY <1>1, <2>1
  <2> QED
    BY <1>1, <2>2, ProgramStill, DeclStill
<1>3. /\ Solved \in Nat /\ Solved + 1 \in 1 .. Len(Sccs)
      /\ FirstOf(work) = Head(work) /\ Head(work) = Sccs[Solved + 1]
      /\ FirstOf(work) \in SUBSET WithBody(program)
      /\ Tail(work) \in Seq(SUBSET WithBody(program)) /\ Len(Tail(work)) = Len(work) - 1
      /\ DOMAIN Tail(work) = 1 .. Len(work) - 1
      /\ \A i \in 1 .. Len(work) - 1 : Tail(work)[i] = work[i + 1]
  BY <1>1, TakesNextComponent
<1>4. /\ work \in Seq(SUBSET WithBody(program)) /\ Len(work) \in Nat
      /\ DOMAIN work = 1 .. Len(work) /\ Len(Sccs) \in Nat
      /\ passes \in Nat /\ program \in CheckedPrograms
  <2>1. work \in Seq(SUBSET WithBody(program)) /\ program \in CheckedPrograms /\ passes \in Nat
    BY DEF InferenceTyped
  <2> DEFINE X == SUBSET WithBody(program)
  <2> HIDE DEF X
  <2>2. work \in Seq(X)
    BY <2>1 DEF X
  <2>3. Len(work) \in Nat /\ DOMAIN work = 1 .. Len(work)
    BY <2>2
  <2> QED
    BY <2>1, <2>3, SccFacts
<1>5. Solved' = IF solved THEN Solved + 1 ELSE Solved
  BY <1>1, <1>2, <1>3, <1>4 DEF Solved
<1>6. Solving'
  <2>1. CASE ~ solved
    BY <1>1, <1>2, <1>5, <2>1 DEF Solving
  <2>2. CASE solved
    <3> SUFFICES ASSUME NEW i \in 1 .. Len(work) - 1
                 PROVE  work'[i] = Sccs[Solved' + i]
      BY <1>1, <1>2, <1>3, <1>5, <2>2 DEF Solving
    <3>1. work'[i] = work[i + 1] /\ i + 1 \in DOMAIN work /\ i \in Nat
      BY <1>1, <1>3, <1>4, <2>2
    <3>2. work[i + 1] = Sccs[Solved + (i + 1)]
      BY <3>1 DEF Solving
    <3>3. Solved' + i = Solved + (i + 1)
      BY <1>3, <1>5, <2>2, <3>1
    <3> QED
      BY <3>1, <3>2, <3>3
  <2> QED
    BY <2>1, <2>2
<1>7. InferenceTyped'
  <2>1. work' \in Seq(SUBSET WithBody(program)) /\ passes' \in Nat
    BY <1>1, <1>3, <1>4
  <2> QED
    BY <1>1, <1>2, <2>1 DEF InferenceTyped
<1>8. Sound'
  BY <1>1, <1>2, SoundStill
<1>9. Behind' = IF solved THEN Behind \cup Head(work) ELSE Behind
  <2>1. CASE ~ solved
    BY <1>2, <1>5, <2>1 DEF Behind
  <2>2. CASE solved
    <3> HIDE DEF Solved
    <3>1. \A i : i \in 1 .. Solved + 1 <=> (i \in 1 .. Solved \/ i = Solved + 1)
      BY <1>3
    <3> QED
      BY <1>2, <1>3, <1>5, <2>2, <3>1 DEF Behind
  <2> QED
    BY <2>1, <2>2
<1>13. \A u \in Behind' : Complete(u)
  <2>1. solved => \A u \in Head(work) : Complete(u)
    BY <1>1, ComponentSolved DEF solved
  <2> QED
    BY <1>9, <2>1 DEF Kept
<1>10. Kept'
  <2>1. FirstOf(work)' \ rest' = {}
    BY <1>1 DEF FirstOf
  <2>2. \A u : Complete(u)' <=> Complete(u)
    BY <1>1, <1>2 DEF Complete
  <2> QED
    BY <1>13, <2>1, <2>2 DEF Kept
<1>11. Limit'
  <2> SUFFICES ASSUME NEW e PROVE Spreads(e)'
    BY DEF Limit
  <2>1. \A u : Lacks(u, e)' <=> Lacks(u, e)
    BY <1>1, <1>2 DEF Lacks
  <2>2. rest' = FirstOf(work)'
    BY <1>1 DEF FirstOf
  <2>3. CASE ~ solved
    <3>1. FirstOf(work)' = FirstOf(work) /\ Having(e)' = Having(e) /\ passes' = passes + 1
      BY <1>1, <2>3 DEF FirstOf, Having
    <3>2. \/ \A u \in FirstOf(work) : Always(u, e) => e \in inferred[u]
          \/ Cardinality(Having(e)) >= passes + 1
      BY <1>1 DEF Limit, Spreads
    <3>3. CASE \A u \in FirstOf(work) : Always(u, e) => e \in inferred[u]
      BY <1>1, <1>2, <3>1, <3>3 DEF Spreads
    <3>4. CASE Cardinality(Having(e)) >= passes + 1
      <4>1. Cardinality(Having(e))' >= passes'
        BY <3>1, <3>4
      <4>2. CASE \E u \in FirstOf(work) : Lacks(u, e)
        BY <2>1, <2>2, <3>1, <4>1, <4>2 DEF Spreads
      <4>3. CASE \A u \in FirstOf(work) : ~ Lacks(u, e)
        BY <1>1, <1>2, <1>3, <3>1, <4>3, NextHas DEF Spreads
      <4> QED
        BY <4>2, <4>3
    <3> QED
      BY <3>2, <3>3, <3>4
  <2>4. CASE solved
    <3>1. Cardinality(Having(e)') \in Nat
      <4>1. FirstOf(work') \in SUBSET WithBody(program)
        <5>1. CASE work' = <<>>
          BY <5>1 DEF FirstOf
        <5>2. CASE work' # <<>>
          <6> DEFINE X == SUBSET WithBody(program)
          <6> HIDE DEF X
          <6>1. work' \in Seq(X)
            BY <1>1, <1>3, <2>4 DEF X
          <6>2. Head(work') \in X
            BY <5>2, <6>1
          <6> QED
            BY <5>2, <6>2 DEF FirstOf, X
        <5> QED
          BY <5>1, <5>2
      <4>2. Having(e)' \subseteq FirstOf(work')
        BY DEF Having, FirstOf
      <4>3. IsFiniteSet(WithBody(program))
        BY <1>4, ProgramFacts, FS_Subset
      <4>4. IsFiniteSet(FirstOf(work'))
        BY <4>1, <4>3, FS_Subset
      <4> QED
        BY <4>2, <4>4, FS_Subset, FS_CardinalityType
    <3>2. Cardinality(Having(e)') >= passes'
      BY <1>1, <2>4, <3>1
    <3>3. CASE work' = <<>>
      BY <3>3 DEF Spreads, FirstOf
    <3>4. CASE \E u \in FirstOf(work)' : Lacks(u, e)'
      BY <2>2, <3>2, <3>4 DEF Spreads
    <3>5. CASE work' # <<>> /\ \A u \in FirstOf(work)' : ~ Lacks(u, e)'
      <4>1. Solved' + 1 \in 1 .. Len(Sccs) /\ FirstOf(work)' = Sccs[Solved' + 1] /\ Solved' \in Nat
        <5>1. Len(Sccs)' = Len(Sccs) /\ FirstOf(work)' = Head(work')
          BY <1>2, <3>5 DEF FirstOf
        <5>2. Solved' = Solved + 1 /\ Len(work') = Len(work) - 1 /\ Len(work') # 0
          BY <1>1, <1>3, <1>4, <1>5, <2>4, <3>5
        <5>3. Head(work') = work[2] /\ 2 \in DOMAIN work
          <6>1. Head(work') = work'[1]
            BY <1>1, <1>3, <1>4, <2>4, <5>2
          <6>2. 1 \in 1 .. Len(work) - 1
            BY <1>4, <1>1, <1>3, <2>4, <5>2
          <6> QED
            BY <1>1, <1>3, <1>4, <2>4, <6>1, <6>2
        <5>4. work[2] = Sccs[Solved + 2]
          BY <5>3 DEF Solving
        <5>5. Solved' + 1 \in 1 .. Len(Sccs)
          <6>1. Solved = Len(Sccs) - Len(work)
            BY DEF Solved
          <6> HIDE DEF Solved
          <6> QED
            BY <1>3, <1>4, <5>2, <5>3, <6>1
        <5>6. Solved' + 1 = Solved + 2 /\ Solved' \in Nat
          BY <1>3, <5>2
        <5> QED
          BY <5>1, <5>3, <5>4, <5>5, <5>6
      <4>2. \A j \in 1 .. (Solved' + 1) - 1 : \A v \in Sccs[j] : Complete(v)
        <5>1. (Solved' + 1) - 1 = Solved'
          <6>1. \A n \in Nat : (n + 1) - 1 = n
            OBVIOUS
          <6> QED
            BY <4>1, <6>1, Zenon
        <5> QED
          BY <1>2, <1>13, <5>1 DEF Behind
      <4>3. \A u \in Sccs[Solved' + 1] : ~ Lacks(u, e)
        BY <2>1, <3>5, <4>1
      <4>4. \A u \in FirstOf(work)' : Always(u, e) => e \in inferred[u]
        <5> DEFINE k == Solved' + 1
        <5> HIDE DEF k
        <5> QED
          BY <4>1, <4>2, <4>3, ComponentHas DEF k
      <4> QED
        BY <1>1, <1>2, <4>4 DEF Spreads
    <3> QED
      BY <3>3, <3>4, <3>5
  <2> QED
    BY <2>3, <2>4
<1>12. Marks'
  <2>1. Leading(Ever)' = Leading(Ever) /\ Straight' = Straight
    BY <1>1, DeclStill, MarksStill
  <2>2. FirstOf(work)' \ rest' = {}
    BY <1>1 DEF FirstOf
  <2>3. Behind' \cap Straight \subseteq marked
    BY <1>1, <1>3, <1>9 DEF Marks
  <2> QED
    BY <1>1, <2>1, <2>2, <2>3 DEF Marks
<1> QED
  BY <1>6, <1>7, <1>8, <1>10, <1>11, <1>12

(***************************************************************************)
(* Ceilings change no equation: callers of a private method are charged    *)
(* with what it does whatever it declares.                                 *)
(***************************************************************************)
LEMMA CeilingStill ==
  ASSUME InferenceTyped, InferCeilings
  PROVE  /\ DOMAIN decl' = Units /\ \A u \in Units : decl'[u].kind \in Kinds
         /\ \A u \in Units : program.unit[u].pub \/ u \notin Of("trait") => decl'[u] = decl[u]
         /\ Seed' = Seed /\ UsesUnderscore' = UsesUnderscore
         /\ \A x, M : IsSolution(x, M)' <=> IsSolution(x, M)
         /\ \A u, e : Always(u, e)' <=> Always(u, e)
<1> DEFINE ceiling == [t \in Of("trait") |-> UNION {inferred[u] : u \in Impls(t)}]
<1>1. /\ decl' = [u \in Units |->
                    IF /\ u \in Of("trait") /\ ~ program.unit[u].pub
                       /\ decl[u].kind = "none" /\ ceiling[u] # {}
                    THEN [kind |-> "explicit", effects |-> ceiling[u]]
                    ELSE decl[u]]
      /\ UNCHANGED <<program, inferred>>
  BY DEF InferCeilings
<1> HIDE DEF ceiling
<1>2. /\ DOMAIN decl' = Units
      /\ \A u \in Units : \/ decl'[u] = decl[u]
                          \/ /\ decl'[u].kind = "explicit" /\ decl[u].kind = "none"
                             /\ u \in Of("trait") /\ ~ program.unit[u].pub
  BY <1>1
<1>3. Units' = Units /\ program' = program
  BY <1>1, ProgramStill
<1>4. \A u \in Units : decl[u].kind \in Kinds
  BY DEF InferenceTyped
<1>5. \A u \in Units : decl'[u].kind \in Kinds
  BY <1>2, <1>4 DEF Kinds
<1>6. Seed' = Seed
  BY <1>2, <1>3 DEF Seed, Of, OfSort
<1>7. UsesUnderscore' = UsesUnderscore
  BY <1>2, <1>3 DEF UsesUnderscore
<1>8. ASSUME NEW v \in Units
      PROVE  \A x : CalleeEffects(v, x)' = CalleeEffects(v, x)
  <2>1. CASE ~ program.unit[v].pub
    BY <1>1, <1>3, <2>1 DEF CalleeEffects
  <2>2. CASE program.unit[v].pub
    <3>1. decl'[v] = decl[v]
      BY <1>2, <2>2
    <3>2. /\ program.unit[v].pub /\ program' = program /\ inferred' = inferred
          /\ decl'[v].kind = decl[v].kind /\ decl'[v].effects = decl[v].effects
      BY <1>1, <2>2, <3>1
    <3>3. CASE decl[v].kind = "explicit"
      BY <3>2, <3>3 DEF CalleeEffects
    <3>4. CASE decl[v].kind = "none"
      BY <3>2, <3>4 DEF CalleeEffects
    <3>5. CASE decl[v].kind \in {"poly", "named"}
      BY <3>2, <3>5 DEF CalleeEffects
    <3> QED
      BY <1>4, <3>3, <3>4, <3>5 DEF Kinds
  <2> QED
    BY <2>1, <2>2
<1>9. \A u \in Units : \A M : CallsSeen(program, u, M) \subseteq Units
  BY CallsFacts DEF InferenceTyped
<1>10. ASSUME NEW u \in Units, NEW x, NEW M PROVE Needs(u, x, M)' = Needs(u, x, M)
  <2>1. \A v \in CallsSeen(program, u, M) : CalleeEffects(v, x)' = CalleeEffects(v, x)
    BY <1>8, <1>9
  <2>2. CallsSeen(program, u, M)' = CallsSeen(program, u, M)
    BY <1>1, ProgramStill
  <2> QED
    BY <1>3, <2>1, <2>2 DEF Needs
<1>12. \A x, M : IsSolution(x, M)' <=> IsSolution(x, M)
  BY <1>3, <1>6, <1>10 DEF IsSolution
<1>13. \A u, e : Always(u, e)' <=> Always(u, e)
  <2>1. \A x : IsSolution(x, {})' <=> IsSolution(x, {})
    BY <1>12
  <2> QED
    BY <2>1 DEF Always
<1>11. \A u \in Units : program.unit[u].pub \/ u \notin Of("trait") => decl'[u] = decl[u]
  BY <1>2
<1> QED
  BY <1>2, <1>5, <1>6, <1>7, <1>11, <1>12, <1>13

LEMMA CeilingsKeep ==
  ASSUME InferenceTyped, Solving, Sound, Kept, Limit, Marks, InferCeilings
  PROVE  InferenceTyped' /\ Solving' /\ Sound' /\ Kept' /\ Limit' /\ Marks'
<1>1. /\ phase = "inferring" /\ work = <<>> /\ phase' = "ceilings"
      /\ UNCHANGED <<program, inferred, marked, work, rest, grown, passes, errors>>
  BY DEF InferCeilings
<1>2. /\ Units' = Units /\ WithBody(program)' = WithBody(program) /\ Sccs' = Sccs
      /\ FirstOf(work)' = FirstOf(work) /\ FirstOf(work) = {}
  BY <1>1, ProgramStill DEF FirstOf
<1>3. Solved' = Solved /\ Behind' = Behind /\ Behind \in SUBSET Units
  <2>1. Solved' = Solved /\ Behind' = Behind
    BY <1>1, <1>2 DEF Solved, Behind
  <2>2. \A i \in 1 .. Solved : Sccs[i] \in SUBSET WithBody(program)
    BY TakesNextComponent, SccFacts DEF InferenceTyped
  <2>3. WithBody(program) \in SUBSET Units
    BY ProgramFacts DEF InferenceTyped
  <2> QED
    BY <2>1, <2>2, <2>3 DEF Behind
<1>4. InferenceTyped'
  BY <1>1, <1>2, CeilingStill DEF InferenceTyped
<1>5. Solving'
  BY <1>1, <1>2, <1>3 DEF Solving
<1>7. Sound'
  BY <1>1, CeilingStill, SoundStill
<1>8. Kept'
  <2>1. \A u : Complete(u)' <=> Complete(u)
    BY <1>1, CeilingStill DEF Complete
  <2> QED
    BY <1>2, <1>3, <2>1 DEF Kept
<1>9. Limit'
  BY <1>2 DEF Limit, Spreads
<1>10. Marks'
  <2>1. Leading(Ever)' = Leading(Ever) /\ Straight' = Straight
    BY <1>1, CeilingStill, MarksStill
  <2> QED
    BY <1>1, <1>2, <1>3, <2>1 DEF Marks
<1> QED
  BY <1>4, <1>5, <1>7, <1>8, <1>9, <1>10

\* Nothing else touches what inference keeps.
LEMMA InferenceStill ==
  ASSUME InferenceTyped, Solving, Sound, Kept, Limit, Marks, phase' \in {phase, "verified"},
         phase' = "verified" => work = <<>>,
         UNCHANGED <<program, decl, inferred, marked, work, rest, grown, passes>>
  PROVE  InferenceTyped' /\ Solving' /\ Sound' /\ Kept' /\ Limit' /\ Marks'
<1>1. /\ Units' = Units /\ WithBody(program)' = WithBody(program) /\ Sccs' = Sccs
      /\ FirstOf(work)' = FirstOf(work) /\ Seed' = Seed
      /\ \A x, M : IsSolution(x, M)' <=> IsSolution(x, M)
      /\ \A u, e : Always(u, e)' <=> Always(u, e)
  BY ProgramStill, DeclStill DEF FirstOf
<1>2. Solved' = Solved /\ Behind' = Behind
  BY <1>1 DEF Solved, Behind
<1>3. \A u : Needs(u, inferred, {})' = Needs(u, inferred, {})
  <2>1. \A u : Needs(u, inferred, {})' = Needs(u, inferred', {})
    BY DeclStill
  <2> QED
    BY <2>1
<1>4. InferenceTyped'
  BY <1>1 DEF InferenceTyped
<1>5. Solving' /\ Sound'
  BY <1>1, <1>2, SoundStill DEF Solving
<1>6. Kept'
  <2>1. \A u : Complete(u)' <=> Complete(u)
    BY <1>1 DEF Complete
  <2> QED
    BY <1>1, <1>2, <1>3, <2>1 DEF Kept
<1>7. Limit'
  <2>1. \A e, u : Lacks(u, e)' <=> Lacks(u, e)
    BY <1>3 DEF Lacks
  <2>2. \A e : Having(e)' = Having(e)
    BY <1>1 DEF Having
  <2>3. \A e : Spreads(e)' <=> Spreads(e)
    BY <1>1, <2>1, <2>2 DEF Spreads
  <2> QED
    BY <2>3 DEF Limit
<1>8. Marks'
  BY <1>1, <1>2, DeclStill, MarksStill DEF Marks
<1> QED
  BY <1>4, <1>5, <1>6, <1>7, <1>8

\* Verification reports on what was inferred, and nothing follows it.
LEMMA ReportsNext ==
  ASSUME Reports, InferenceNext \/ UNCHANGED effectsVars
  PROVE  Reports'
<1>1. SUFFICES ASSUME phase' = "verified" PROVE Reports'
  BY DEF Reports
<1>2. /\ UNCHANGED <<program, decl, inferred, marked>>
      /\ \E leaky : Leaks(leaky) /\ errors' = ErrorsFor(leaky)
  <2>1. CASE Verify
    BY <2>1 DEF Verify, Leaks, ErrorsFor, Public
  <2>2. CASE UNCHANGED effectsVars
    BY <1>1, <2>2 DEF effectsVars, Reports
  <2>3. CASE \E u \in rest : Walk(u)
    BY <1>1, <2>3 DEF Walk
  <2>4. CASE EndPass
    BY <1>1, <2>4 DEF EndPass
  <2>5. CASE InferCeilings
    BY <1>1, <2>5 DEF InferCeilings
  <2> QED
    BY <2>1, <2>2, <2>3, <2>4, <2>5 DEF InferenceNext
<1>3. /\ \A sort : Of(sort)' = Of(sort)
      /\ WithBody(program)' = WithBody(program) /\ Units' = Units
      /\ \A u, M : CallsSeen(program, u, M)' = CallsSeen(program, u, M)
  BY <1>2, ProgramStill
<1>4. Public' = Public
  BY <1>2, <1>3 DEF Public
<1>5. \A f : MustLeak(f)' = MustLeak(f) /\ MayLeak(f)' = MayLeak(f)
  <2>1. \A v : CalleeEffects(v, inferred)' = CalleeEffects(v, inferred)
    BY <1>2 DEF CalleeEffects
  <2>2. \A f, e : Origins(f, e)' = Origins(f, e)
    <3>1. \A f : CallsSeen(program, f, marked)' = CallsSeen(program, f, marked)
      BY <1>2, ProgramStill DEF CallsSeen
    <3> QED
      BY <1>2, <2>1, <3>1 DEF Origins
  <2>3. \A f : Conduits(f)' = Conduits(f)
    BY <1>2, <1>3 DEF Conduits
  <2>4. \A f : Unlicensed(f)' = Unlicensed(f)
    BY <1>2 DEF Unlicensed, Opaque
  <2> QED
    BY <2>2, <2>3, <2>4 DEF MustLeak, MayLeak
<1>6. \A f, leaky : Complaints(f, leaky)' = Complaints(f, leaky)
  BY <1>2 DEF Complaints, Unlicensed, Opaque
<1>7. ImplComplaints' = ImplComplaints /\ DefaultComplaints' = DefaultComplaints
  BY <1>2, <1>3 DEF ImplComplaints, DefaultComplaints, ExceedsCeiling, Opaque
<1>8. \A leaky : Leaks(leaky)' <=> Leaks(leaky)
  BY <1>4, <1>5 DEF Leaks
<1>9. \A leaky : ErrorsFor(leaky)' = ErrorsFor(leaky)
  BY <1>4, <1>6, <1>7 DEF ErrorsFor
<1> QED
  BY <1>2, <1>8, <1>9 DEF Reports

InferenceInv ==
  InferenceTyped /\ Solving /\ Sound /\ Kept /\ Limit /\ Marks /\ Reports

LEMMA InferenceInvariant == InferenceSpec => []InferenceInv
<1>1. InferenceInit => InferenceInv
  BY InferenceStart DEF InferenceInv
<1>2. InferenceInv /\ [InferenceNext]_effectsVars => InferenceInv'
  <2> SUFFICES ASSUME InferenceInv, InferenceNext \/ UNCHANGED effectsVars
               PROVE  InferenceInv'
    OBVIOUS
  <2>1. InferenceTyped /\ Solving /\ Sound /\ Kept /\ Limit /\ Marks /\ Reports
    BY DEF InferenceInv
  <2>2. Reports'
    BY <2>1, ReportsNext
  <2>3. CASE \E u \in rest : Walk(u)
    <3>1. PICK u \in rest : Walk(u)
      BY <2>3
    <3> QED
      BY <2>1, <2>2, <3>1, WalkTyped, WalkSound, WalkKept, WalkLimit, WalkMarks
      DEF InferenceInv
  <2>4. CASE EndPass
    BY <2>1, <2>2, <2>4, EndPassKeeps DEF InferenceInv
  <2>5. CASE InferCeilings
    BY <2>1, <2>2, <2>5, CeilingsKeep DEF InferenceInv
  <2>6. CASE Verify
    <3>1. /\ phase' \in {phase, "verified"} /\ (phase' = "verified" => work = <<>>)
          /\ UNCHANGED <<program, decl, inferred, marked, work, rest, grown, passes>>
      BY <2>1, <2>6 DEF Verify, InferenceTyped
    <3> QED
      BY <2>1, <2>2, <3>1, InferenceStill DEF InferenceInv
  <2>7. CASE UNCHANGED effectsVars
    <3>1. /\ phase' \in {phase, "verified"} /\ (phase' = "verified" => work = <<>>)
          /\ UNCHANGED <<program, decl, inferred, marked, work, rest, grown, passes>>
      BY <2>1, <2>7 DEF effectsVars, InferenceTyped
    <3> QED
      BY <2>1, <2>2, <3>1, InferenceStill DEF InferenceInv
  <2> QED
    BY <2>3, <2>4, <2>5, <2>6, <2>7 DEF InferenceNext
<1> QED
  BY <1>1, <1>2, PTL DEF InferenceSpec

(***************************************************************************)
(* When every component is behind, what all solutions for the early calls  *)
(* have is one of them, and is inferred.                                   *)
(***************************************************************************)
Least == [u \in Units |-> {e \in inferred[u] \cap EffectsNamed : Always(u, e)}]

LEMMA LeastSolves ==
  ASSUME InferenceTyped, Solving, Sound, Kept, work = <<>>
  PROVE  /\ Behind = WithBody(program)
         /\ Least \in [Units -> SUBSET EffectsNamed]
         /\ IsSolution(Least, {}) /\ AtMost(Least, inferred)
<1>1. program \in CheckedPrograms
  BY DEF InferenceTyped
<1>2. Solved = Len(Sccs)
  BY TakesNextComponent
<1>3. Behind = WithBody(program)
  BY <1>1, <1>2, SccFacts DEF Behind
<1>4. Least \in [Units -> SUBSET EffectsNamed]
  BY DEF Least
<1>5. /\ \A u \in Units : Least[u] = {e \in inferred[u] \cap EffectsNamed : Always(u, e)}
      /\ \A u \in Units : Least[u] \subseteq EffectsNamed
  BY DEF Least
<1>6. ASSUME NEW u \in Units, NEW e \in Seed[u] PROVE e \in Least[u]
  BY <1>5, <1>6, NamedFacts, AlwaysFacts DEF Sound
<1>7. ASSUME NEW u \in Units, NEW e \in Needs(u, Least, {}) PROVE e \in Least[u]
  <2>1. e \in EffectsNamed
    BY <1>5, <1>7, NamedFacts
  <2>2. \A v \in CallsSeen(program, u, {}) : e \in Least[v] => Always(v, e)
    BY <1>1, <1>5, CallsFacts
  <2>3. Always(u, e)
    BY <1>7, <2>2, AlwaysFacts
  <2>4. u \in WithBody(program)
    <3>1. ASSUME u \notin WithBody(program) PROVE FALSE
      <4>1. program.own[u] = {} /\ CallsSeen(program, u, {}) = {}
        BY <1>1, <3>1, ProgramFacts, CallsFacts
      <4> QED
        BY <1>7, <4>1 DEF Needs
    <3> QED
      BY <3>1
  <2> QED
    BY <1>3, <1>5, <2>1, <2>3, <2>4 DEF Kept, Complete
<1>8. IsSolution(Least, {})
  BY <1>6, <1>7 DEF IsSolution
<1>9. AtMost(Least, inferred)
  BY <1>5 DEF AtMost
<1> QED
  BY <1>3, <1>4, <1>8, <1>9

(***************************************************************************)
(* Inference ends no lower than a solution for the calls of the call graph *)
(* and no higher than any for the calls seen in the end; the marked units  *)
(* are units that can reach a `with _` unit, and all of them that do so    *)
(* with no cycle on the way (inference.rs: infer_effects, infer_fn).       *)
(***************************************************************************)
THEOREM InferenceIsExact == InferenceSpec => []InferenceExact
<1>1. ASSUME InferenceInv PROVE InferenceExact
  <2>1. InferenceTyped /\ Solving /\ Sound /\ Kept /\ Marks
    BY <1>1 DEF InferenceInv
  <2> SUFFICES ASSUME phase = "ceilings"
               PROVE  /\ \E x \in [Units -> SUBSET EffectsNamed] :
                           IsSolution(x, {}) /\ AtMost(x, inferred)
                      /\ \A x \in [Units -> SUBSET EffectsNamed] :
                           IsSolution(x, marked) => AtMost(inferred, x)
                      /\ marked \subseteq Leading(Ever)
                      /\ \A u \in Leading(Early) :
                           ({u} \cup Reachable(u, Early)) \cap Cyclic = {} => u \in marked
    BY DEF InferenceExact, Leading, Cyclic, Early, Ever
  <2>2. work = <<>>
    BY <2>1 DEF InferenceTyped
  <2>3. /\ Behind = WithBody(program) /\ Least \in [Units -> SUBSET EffectsNamed]
        /\ IsSolution(Least, {}) /\ AtMost(Least, inferred)
    BY <2>1, <2>2, LeastSolves
  <2>4. \A x : IsSolution(x, marked) => AtMost(inferred, x)
    BY <2>1 DEF Sound
  <2>5. marked \subseteq Leading(Ever)
    BY <2>1 DEF Marks
  <2>6. ASSUME NEW u \in Straight PROVE u \in marked
    <3>1. program \in CheckedPrograms /\ u \in Units /\ Reachable(u, Early) # {}
      BY <2>1 DEF InferenceTyped, Straight, Leading
    <3>2. CallsSeen(program, u, {}) # {}
      BY <3>1, GraphsOfCalls, ReachFacts
    <3>3. u \in WithBody(program)
      BY <3>1, <3>2, CallsFacts
    <3> QED
      BY <2>1, <2>3, <3>3 DEF Marks
  <2> QED
    BY <2>3, <2>4, <2>5, <2>6 DEF Straight
<1> QED
  BY <1>1, InferenceInvariant, PTL

(***************************************************************************)
(* From here on the program is verified, without complaints.  A unit whose *)
(* callers do not have to trust a declaration charges them with all it was *)
(* found to do: what it declares is not less.                              *)
(***************************************************************************)
Verified == InferenceTyped /\ Sound /\ Reports /\ phase = "verified" /\ errors = {}

LEMMA NoComplaints ==
  ASSUME Verified
  PROVE  /\ \E leaky : \A f \in Public : Complaints(f, leaky) = {}
         /\ \A u \in Of("impl") : ~ ExceedsCeiling(u, program.unit[u].of)
         /\ \A t \in Of("trait") \cap WithBody(program) : ~ ExceedsCeiling(t, t)
<1>1. PICK leaky : errors = ErrorsFor(leaky)
  BY DEF Verified, Reports
<1>2. errors = {}
  BY DEF Verified
<1>3. ASSUME NEW f \in Public PROVE Complaints(f, leaky) = {}
  <2> DEFINE About(g) == {<<k, g>> : k \in Complaints(g, leaky)}
  <2>1. UNION {About(g) : g \in Public} = {}
    BY <1>1, <1>2 DEF ErrorsFor
  <2>2. About(f) = {}
    <3> HIDE DEF About
    <3> QED
      BY <2>1
  <2> QED
    BY <2>2
<1>4. ImplComplaints = {} /\ DefaultComplaints = {}
  BY <1>1, <1>2 DEF ErrorsFor
<1>5. \A u \in Of("impl") : ExceedsCeiling(u, program.unit[u].of) => <<"impl", u>> \in ImplComplaints
  BY DEF ImplComplaints
<1>6. \A t \in Of("trait") \cap WithBody(program) :
        ExceedsCeiling(t, t) => <<"default", t>> \in DefaultComplaints
  BY DEF DefaultComplaints
<1> QED
  BY <1>3, <1>4, <1>5, <1>6

LEMMA CallersCharged ==
  ASSUME PublicEffects = "declared", Verified, NEW u \in Units \ Unaccounted,
         NEW x, x[u] \subseteq inferred[u]
  PROVE  Opaque(x[u]) \subseteq CalleeEffects(u, x)
<1> DEFINE known == Opaque(inferred[u])
<1>5. Opaque(x[u]) \subseteq known /\ Opaque(x[u]) \subseteq x[u]
  BY DEF Opaque
<1>1. CASE ~ program.unit[u].pub
  BY <1>1, <1>5 DEF CalleeEffects
<1>2. CASE program.unit[u].pub /\ decl[u].kind \in {"poly", "named"}
  BY <1>2, <1>5 DEF CalleeEffects
<1>3. CASE program.unit[u].pub /\ decl[u].kind \in {"explicit", "none"}
  <2>1. program.unit[u].sort \in {"fn", "method", "impl", "trait"}
    BY ProgramFacts DEF Verified, InferenceTyped
  <2>2. u \in Of("fn") \/ (u \in Of("trait") /\ decl[u].kind = "explicit")
    BY <1>3, <2>1 DEF Unaccounted, Of, OfSort, Units
  <2>3. CASE u \in Of("fn")
    <3>1. PICK leaky : "missing" \notin Complaints(u, leaky)
      BY <1>3, <2>3, NoComplaints DEF Public
    <3>2. ~ \/ decl[u].kind = "explicit" /\ Unlicensed(u) # {}
            \/ decl[u].kind = "none" /\ PublicEffects = "declared" /\ known # {}
      BY <3>1 DEF Complaints
    <3>3. CASE decl[u].kind = "explicit"
      <4>1. known \subseteq decl[u].effects
        BY <3>2, <3>3 DEF Unlicensed
      <4> QED
        BY <1>3, <1>5, <3>3, <4>1 DEF CalleeEffects
    <3>4. CASE decl[u].kind = "none"
      BY <1>5, <3>2, <3>4
    <3> QED
      BY <1>3, <3>3, <3>4
  <2>4. CASE u \in Of("trait") /\ decl[u].kind = "explicit"
    <3>1. known \subseteq decl[u].effects
      <4>1. CASE u \in WithBody(program)
        BY <2>4, <4>1, NoComplaints DEF ExceedsCeiling
      <4>2. CASE u \notin WithBody(program)
        <5>1. inferred[u] = Seed[u]
          BY <4>2 DEF Verified, Sound
        <5>2. Seed[u] = {}
          BY <2>4 DEF Seed, Of, OfSort
        <5> QED
          BY <5>1, <5>2 DEF Opaque
      <4> QED
        BY <4>1, <4>2
    <3> QED
      BY <1>3, <1>5, <2>4, <3>1 DEF CalleeEffects
  <2> QED
    BY <2>2, <2>3, <2>4
<1>4. decl[u].kind \in Kinds
  BY DEF Verified, InferenceTyped
<1> QED
  BY <1>1, <1>2, <1>3, <1>4 DEF Kinds

\* What a run of u may enter next, u charges its callers with.
LEMMA StepCharged ==
  ASSUME PublicEffects = "declared", Verified, NEW x, IsSolution(x, {}), AtMost(x, inferred),
         NEW u \in Units \ Unaccounted, NEW v \in Runs[u], v \notin Unaccounted
  PROVE  v \in Units /\ Opaque(CalleeEffects(v, x)) \subseteq CalleeEffects(u, x)
<1>1. program \in CheckedPrograms
  BY DEF Verified, InferenceTyped
<1>2. Opaque(x[u]) \subseteq CalleeEffects(u, x)
  BY CallersCharged DEF AtMost
<1>3. CASE v \in CallsSeen(program, u, {})
  <2>1. v \in Units
    BY <1>1, <1>3, CallsFacts
  <2>2. CalleeEffects(v, x) \subseteq Needs(u, x, {})
    BY <1>3 DEF Needs
  <2>3. CalleeEffects(v, x) \subseteq x[u]
    BY <2>2, SolutionHas
  <2> QED
    BY <1>2, <2>1, <2>3 DEF Opaque
<1>4. CASE v \in Impls(u)
  <2>1. /\ v \in Units /\ v \in Of("impl") /\ program.unit[v].of = u
        /\ program.unit[u].sort = "trait"
    BY <1>1, <1>4, ProgramFacts DEF Impls, ImplsIn, Of, OfSort, Units
  <2>2. ~ program.unit[v].pub
    BY <2>1 DEF Unaccounted
  <2>3. program.unit[u].pub /\ decl[u].kind = "explicit"
    BY <2>1 DEF Unaccounted, Of, OfSort, Units
  <2>4. Opaque(inferred[v]) \subseteq decl[u].effects
    BY <2>1, <2>3, NoComplaints DEF ExceedsCeiling
  <2>5. Opaque(x[v]) \subseteq decl[u].effects
    BY <2>1, <2>4 DEF Opaque, AtMost
  <2> QED
    BY <2>1, <2>2, <2>3, <2>5 DEF CalleeEffects
<1>5. CASE v \in program.calls[u]
  BY <1>3, <1>5 DEF CallsSeen
<1>6. CASE v \in Handed(u)
  <2>1. PICK h \in program.handed[u] : v = h[2]
    BY <1>6 DEF Handed
  <2>2. h[1] \in Polymorphic(program)
    BY DEF Unaccounted
  <2> QED
    BY <1>3, <2>1, <2>2 DEF CallsSeen
<1> QED
  BY <1>4, <1>5, <1>6 DEF Runs

(***************************************************************************)
(* With the policy of declared public effects, the default, a program      *)
(* without complaints charges every caller with all that the bodies a run  *)
(* of the callee may enter perform, the effects of transparent verbs apart *)
(* (verify.rs: verify_declarations, verify_trait_impl_effects;             *)
(* inference.rs: callee_effects), where the declarations on the way are    *)
(* verified ones and the functions handed on go to declared polymorphic    *)
(* callees.                                                                *)
(***************************************************************************)
THEOREM EffectsAreTracked ==
  ASSUME PublicEffects = "declared"
  PROVE  InferenceSpec => []EffectsTracked
<1>1. ASSUME InferenceInv PROVE EffectsTracked
  <2> SUFFICES ASSUME phase = "verified", errors = {},
                      NEW u \in Units, Entered(u) \cap Unaccounted = {}
               PROVE  Opaque(Performs(u)) \subseteq CalleeEffects(u, inferred)
    BY DEF EffectsTracked
  <2>1. /\ Verified /\ InferenceTyped /\ Solving /\ Sound /\ Kept /\ work = <<>>
    BY <1>1 DEF InferenceInv, Verified, InferenceTyped
  <2>2. IsSolution(Least, {}) /\ AtMost(Least, inferred)
    BY <2>1, LeastSolves
  <2>3. IsGraph(Runs) /\ DOMAIN Runs = Units
    <3>1. /\ program.calls \in [Units -> SUBSET Units]
          /\ \A w \in Units : \A h \in program.handed[w] : h[2] \in Units
      BY <2>1, ProgramFacts DEF InferenceTyped
    <3>2. \A t : Impls(t) \subseteq Units
      BY DEF Impls, ImplsIn, OfSort, Units
    <3>3. \A w \in Units : Handed(w) \subseteq Units
      BY <3>1 DEF Handed
    <3> QED
      BY <3>1, <3>2, <3>3 DEF Runs, IsGraph
  <2>4. u \notin Unaccounted /\ Reachable(u, Runs) \cap Unaccounted = {}
    BY DEF Entered
  <2> DEFINE Charge(v) == Opaque(CalleeEffects(v, Least))
             S == {v \in Reachable(u, Runs) : Charge(v) \subseteq CalleeEffects(u, Least)}
  <2>5. /\ Reachable(u, Runs) \subseteq Units /\ Runs[u] \subseteq Reachable(u, Runs)
        /\ \A m \in Reachable(u, Runs) : Runs[m] \subseteq Reachable(u, Runs)
    BY <2>3, ReachableClosed DEF Closed
  <2>6. Runs[u] \subseteq S
    BY <2>1, <2>2, <2>4, <2>5, StepCharged
  <2>7. ASSUME NEW m \in S, NEW n \in Runs[m] PROVE n \in S
    <3>1. m \in Units \ Unaccounted /\ n \in Reachable(u, Runs) /\ n \notin Unaccounted
      BY <2>4, <2>5, <2>7
    <3>2. Charge(n) \subseteq CalleeEffects(m, Least)
      BY <2>1, <2>2, <2>7, <3>1, StepCharged
    <3>3. Charge(n) \subseteq Charge(m)
      BY <3>2 DEF Opaque
    <3> QED
      BY <3>1, <3>3
  <2>8. Reachable(u, Runs) \subseteq S
    <3>1. S \in SUBSET DOMAIN Runs /\ Closed(S, Runs)
      BY <2>3, <2>5, <2>7 DEF Closed
    <3> HIDE DEF S
    <3> QED
      BY <2>6, <3>1, ReachableLeast
  <2>9. ASSUME NEW v \in Entered(u)
        PROVE  Opaque(program.own[v]) \subseteq CalleeEffects(u, Least)
    <3>1. v \in Units \ Unaccounted /\ Charge(v) \subseteq CalleeEffects(u, Least)
      BY <2>4, <2>5, <2>8 DEF Entered, Opaque
    <3>2. program.own[v] \subseteq Least[v]
      BY <2>2, <3>1, SolutionHas DEF Needs
    <3>3. Opaque(Least[v]) \subseteq CalleeEffects(v, Least)
      BY <2>1, <2>2, <3>1, CallersCharged DEF AtMost
    <3> QED
      BY <3>1, <3>2, <3>3 DEF Opaque
  <2>10. CalleeEffects(u, Least) \subseteq CalleeEffects(u, inferred)
    <3>1. decl[u].kind \in Kinds /\ Least[u] \subseteq inferred[u]
      BY <2>1, <2>2 DEF InferenceTyped, AtMost
    <3> QED
      BY <3>1, ChargeAt
  <2> QED
    BY <2>9, <2>10 DEF Performs, Opaque
<1> QED
  BY <1>1, InferenceInvariant, PTL
=============================================================================
