----------------------------- MODULE Reexports -----------------------------
(***************************************************************************)
(* The module a name comes from that others re-export (module.rs).         *)
(***************************************************************************)
EXTENDS ModuleGraph, SequencesExt

CONSTANT ReexportMaxDepth

\* Where the item `name` of module m is defined: here, or where the first
\* public import that binds it leads; {} for an unknown name.
RECURSIVE Origin(_, _, _)
Origin(m, name, depth) ==
  LET from(imp) ==
        IF imp.path = NoModule THEN {} ELSE Origin(imp.path, imp.name, depth + 1)
      found == SelectSeq(tree.modules[m].imports,
                 LAMBDA imp : /\ imp.pub /\ imp.as = name
                              /\ SubModule(tree, imp.path, imp.name) = NoModule
                              /\ from(imp) # {})
  IN CASE depth > ReexportMaxDepth -> {}
       [] depth <= ReexportMaxDepth /\ name \in tree.modules[m].defines -> {<<m, name>>}
       [] OTHER -> IF found = <<>> THEN {} ELSE from(Head(found))
-----------------------------------------------------------------------------
(* Properties. *)

\* The names a module offers: those it defines and, through however many
\* public imports, those others do.
Offered ==
  LET RECURSIVE Grow(_)
      Grow(known) ==
        LET more == known \cup
              {<<m, imp.as>> : <<m, imp>> \in
                 {mi \in Modules \X UNION {ImportsOf(tree, n) : n \in Modules} :
                    /\ mi[2] \in ImportsOf(tree, mi[1]) /\ mi[2].pub
                    /\ SubModule(tree, mi[2].path, mi[2].name) = NoModule
                    /\ <<mi[2].path, mi[2].name>> \in known}}
        IN IF more = known THEN known ELSE Grow(more)
  IN Grow(UNION {{m} \X tree.modules[m].defines : m \in Modules})

\* In an accepted project a name is found iff it is offered, in a module that
\* defines it, and that module was emitted before the one that asks.
OriginEmittedFirst ==
  LET at(m) == SelectInSeq(emitted, LAMBDA n : n = m)
  IN build = "emitted" =>
       \A m \in Modules, name \in {"x", "y"} :
         /\ Origin(m, name, 0) # {} <=> <<m, name>> \in Offered
         /\ \A o \in Origin(m, name, 0) :
              /\ o[2] \in tree.modules[o[1]].defines
              /\ o[1] \in tree.synthetic \/ m \in tree.synthetic \/ at(o[1]) <= at(m)
=============================================================================
