------------------------------ MODULE Digraphs ------------------------------
(***************************************************************************)
(* Directed graphs of numbers, as the compiler's analyses see them: a      *)
(* graph maps each node to the set of its successors.                      *)
(***************************************************************************)
EXTENDS Integers, Sequences, FiniteSets

\* The strongly connected components of a graph, in an order in which none
\* comes before one it leads to (tarjan_scc of module.rs, and its recursive
\* form in effectchecker.rs).  What the analyses rely on is IsComponents.
CONSTANT Components(_)

Closed(S, succ) == \A m \in S : succ[m] \subseteq S

\* The nodes a path of at least one edge leads to from v.
Reachable(v, succ) ==
  {n \in DOMAIN succ :
     \A S \in SUBSET DOMAIN succ : succ[v] \subseteq S /\ Closed(S, succ) => n \in S}

Mutual(m, n, succ) == m \in Reachable(n, succ) /\ n \in Reachable(m, succ)

\* found lists the components of the graph succ, each after those it leads to.
IsComponents(found, succ) ==
  /\ found \in Seq(SUBSET DOMAIN succ)
  /\ \A v \in DOMAIN succ : \E i \in DOMAIN found : v \in found[i]
  /\ \A i \in DOMAIN found : found[i] # {}
  /\ \A i, j \in DOMAIN found : \A m \in found[i], n \in found[j] :
       /\ i = j <=> (m = n \/ Mutual(m, n, succ))
       /\ n \in succ[m] => j <= i

\* The numbers of S, in ascending order.
Ascending(S) ==
  CHOOSE q \in [1 .. Cardinality(S) -> S] : \A i, j \in DOMAIN q : i < j => q[i] < q[j]
=============================================================================
