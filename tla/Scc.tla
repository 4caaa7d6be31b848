-------------------------------- MODULE Scc --------------------------------
(***************************************************************************)
(* Tarjan's algorithm as the compiler runs it twice: over the call graph   *)
(* (effectchecker.rs) and, with the recursion unrolled, over the module    *)
(* graph (module.rs).  Nodes are numbers; roots and successors are taken   *)
(* in ascending order (the call graph's successors come in the order of    *)
(* the calls, which may swap components that do not lead to each other).   *)
(***************************************************************************)
EXTENDS Integers, SequencesExt, FiniteSetsExt

LOCAL Sorted(S) == SetToSortSeq(S, <)

RECURSIVE StrongConnect(_, _, _)
\* s.index: the place of each visited node, 0 for the others; s.low: its low
\* link; s.found: the components, in the order they are completed.
StrongConnect(v, succ, s) ==
  LET n == s.count + 1
      entered == [s EXCEPT !.count = n, !.index[v] = n, !.low[v] = n,
                           !.stack = Append(@, v)]
      edge(t, w) ==
        CASE t.index[w] = 0 ->
               LET u == StrongConnect(w, succ, t)
               IN [u EXCEPT !.low[v] = Min({@, u.low[w]})]
          [] t.index[w] # 0 /\ Contains(t.stack, w) ->
               [t EXCEPT !.low[v] = Min({@, t.index[w]})]
          [] OTHER -> t
      done == FoldLeft(edge, entered, Sorted(succ[v]))
      at == SelectInSeq(done.stack, LAMBDA w : w = v)
  IN IF done.low[v] # n THEN done
     ELSE [done EXCEPT !.stack = SubSeq(@, 1, at - 1),
             !.found = Append(@, {done.stack[i] : i \in at..Len(done.stack)})]

\* The components of the graph succ, each after those it leads to.
TarjanComponents(succ) ==
  LET nodes == DOMAIN succ
      visit(s, v) == IF s.index[v] = 0 THEN StrongConnect(v, succ, s) ELSE s
      zero == [v \in nodes |-> 0]
  IN FoldLeft(visit,
              [count |-> 0, index |-> zero, low |-> zero, stack |-> <<>>, found |-> <<>>],
              Sorted(nodes)).found
=============================================================================
