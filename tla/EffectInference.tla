-------------------------- MODULE EffectInference --------------------------
(***************************************************************************)
(* How the compiler learns the effects of functions and methods            *)
(* (effectchecker/inference.rs) and checks them against what is declared   *)
(* (effectchecker/verify.rs).                                              *)
(*                                                                         *)
(* A program has units, numbered in the order of their names.  A unit is a *)
(*   "fn"      function                                                    *)
(*   "method"  method of a type                                            *)
(*   "impl"    method of a type, for the trait method unit.of              *)
(*   "trait"   method of a trait, with or without a default body           *)
(* A "method" may have the name of the trait method unit.of.  A call of a  *)
(* trait method is one through a type parameter's bound.                   *)
(*                                                                         *)
(* A declaration is the `with` clause, public or not:                      *)
(*   "none"     there is none                                              *)
(*   "explicit" exactly these effects                                      *)
(*   "poly"     `with _` and these effects, if any                         *)
(*   "named"    `with E` and these effects, if any                         *)
(* A unit's own effects are those of its calls of builtins, whose names no *)
(* trait method has.                                                       *)
(***************************************************************************)
EXTENDS Integers, Sequences, FiniteSets, Digraphs

CONSTANTS
  CheckedPrograms, \* [unit : sort, pub, of, body; decl : kind, effects; calls;
                   \*  handed; bounds; own]: <<c, a>> in handed[u] if u calls c
                   \*  with the function a as an argument, bounds[u] the trait
                   \*  methods of the bounds on u's type parameters
  Transparent,     \* the effects of transparent verbs
  PublicEffects    \* "declared" or "inferred", the project's policy

WithBody(p) == {u \in DOMAIN p.unit : p.unit[u].body}
OfSort(p, sort) == {u \in DOMAIN p.unit : p.unit[u].sort = sort}
ImplsIn(p, t) == {u \in OfSort(p, "impl") : p.unit[u].of = t}

\* Private traits nobody implements: what they will do is not known.
Unimpled(p) == {t \in OfSort(p, "trait") : ~ p.unit[t].pub /\ ImplsIn(p, t) = {}}

\* is_polymorphic_callee.
Polymorphic(p) ==
  {u \in DOMAIN p.unit : u \in Unimpled(p) \/ p.decl[u].kind \in {"poly", "named"}}

\* The calls collect_calls finds in the body of u when the units of marks are
\* those marked: a function handed to a callee is called if the callee is
\* declared polymorphic, or marked by then.
CallsSeen(p, u, marks) ==
  p.calls[u] \cup {h[2] : h \in {g \in p.handed[u] : g[1] \in Polymorphic(p) \cup marks}}

\* The calls among units with bodies, as seen before any unit is marked.
CallGraph(p) == [u \in WithBody(p) |-> CallsSeen(p, u, {}) \cap WithBody(p)]

\* A unit without a body neither calls nor performs, and an implementation is
\* one of a trait method.  Functions are handed to callees.
ASSUME ProgramsAssumption ==
  /\ \A p \in CheckedPrograms :
       LET units == DOMAIN p.unit
       IN /\ Len(p.unit) \in Nat /\ units = 1 .. Len(p.unit)
          /\ DOMAIN p.decl = units /\ DOMAIN p.own = units
          /\ p.calls \in [units -> SUBSET units]
          /\ p.handed \in [units -> SUBSET (units \X units)]
          /\ p.bounds \in [units -> SUBSET OfSort(p, "trait")]
          /\ \A u \in units :
               /\ p.unit[u].sort \in {"fn", "method", "impl", "trait"}
               /\ p.decl[u].kind \in {"none", "explicit", "poly", "named"}
               /\ u \notin WithBody(p) => p.calls[u] = {} /\ p.own[u] = {}
               /\ \A h \in p.handed[u] : h[1] \in p.calls[u] /\ h[2] \in OfSort(p, "fn")
               /\ p.unit[u].sort = "fn" => p.unit[u].body
               /\ p.unit[u].sort = "impl" =>
                    p.unit[u].of \in units /\ p.unit[p.unit[u].of].sort = "trait"
  /\ \A graph \in {CallGraph(p) : p \in CheckedPrograms} :
       IsComponents(Components(graph), graph)

VARIABLES
  program,
  decl,      \* declared_effects
  inferred,  \* inferred_effects
  marked,    \* calls_polymorphic
  work,      \* the components still to be solved, callees first
  rest,      \* the units of the first of them not walked in this pass
  grown,     \* has this pass added an effect?
  passes,    \* the passes over it that are done
  phase,     \* "inferring", "ceilings" or "verified"
  errors     \* what verification reports, as <<kind, unit>>

effectsVars ==
  <<program, decl, inferred, marked, work, rest, grown, passes, phase, errors>>

Units == DOMAIN program.unit
Of(sort) == OfSort(program, sort)
Impls(t) == ImplsIn(program, t)

\* fn_uses_with_underscore: the units whose declaration has a `_`.
UsesUnderscore == {u \in Units : decl[u].kind = "poly"}

\* What a caller is charged with for calling u.
CalleeEffects(u, effects) ==
  IF ~ program.unit[u].pub THEN effects[u]
  ELSE CASE decl[u].kind = "explicit" -> decl[u].effects
         [] decl[u].kind = "none" -> {}
         [] decl[u].kind \in {"poly", "named"} -> decl[u].effects \cup effects[u]

\* What the body of u adds to its effects.
Needs(u, effects, marks) ==
  program.own[u] \cup UNION {CalleeEffects(v, effects) : v \in CallsSeen(program, u, marks)}

FirstOf(components) == IF components = <<>> THEN {} ELSE Head(components)
-----------------------------------------------------------------------------
\* Declared effects are trusted, except those of default bodies.
Seed ==
  [u \in Units |->
     IF program.unit[u].sort # "trait" /\ decl[u].kind = "explicit" THEN decl[u].effects
     ELSE {}]

InferenceInit ==
  /\ program \in CheckedPrograms
  /\ decl = [u \in Units |-> IF u \in Unimpled(program) THEN [kind |-> "poly", effects |-> {}]
                             ELSE program.decl[u]]
  /\ inferred = Seed
  /\ marked = {}
  /\ work = Components(CallGraph(program))
  /\ rest = FirstOf(work)
  /\ grown = FALSE
  /\ passes = 0
  /\ phase = "inferring"
  /\ errors = {}

\* The body of u is walked.  A pass walks those of a component in the order
\* in which Tarjan's algorithm pops them; here, in any.
Walk(u) ==
  /\ phase = "inferring" /\ u \in rest
  /\ inferred' = [inferred EXCEPT ![u] = @ \cup Needs(u, inferred, marked)]
  /\ grown' = (grown \/ inferred' # inferred)
  /\ marked' = IF CallsSeen(program, u, marked) \cap (UsesUnderscore \cup marked) = {}
               THEN marked ELSE marked \cup {u}
  /\ rest' = rest \ {u}
  /\ UNCHANGED <<program, decl, work, passes, phase, errors>>

\* Mutant: a cycle of calls is walked once, like a function alone.
EndPassOnce ==
  /\ phase = "inferring" /\ work # <<>> /\ rest = {}
  /\ work' = Tail(work)
  /\ passes' = 0
  /\ rest' = FirstOf(work')
  /\ grown' = FALSE
  /\ UNCHANGED <<program, decl, inferred, marked, phase, errors>>

\* A unit that is not in a cycle with others has one pass; a cycle has passes
\* until one adds no effect, but no more than its size and one.
EndPass ==
  /\ phase = "inferring" /\ work # <<>> /\ rest = {}
  /\ LET size == Cardinality(Head(work))
         solved == size = 1 \/ ~ grown \/ passes = size
     IN /\ work' = IF solved THEN Tail(work) ELSE work
        /\ passes' = IF solved THEN 0 ELSE passes + 1
  /\ rest' = FirstOf(work')
  /\ grown' = FALSE
  /\ UNCHANGED <<program, decl, inferred, marked, phase, errors>>

\* The ceiling of a private trait method without a declaration is what its
\* implementations do, if they do anything.
InferCeilings ==
  /\ phase = "inferring" /\ work = <<>>
  /\ LET ceiling == [t \in Of("trait") |-> UNION {inferred[u] : u \in Impls(t)}]
     IN decl' = [u \in Units |->
                   IF /\ u \in Of("trait") /\ ~ program.unit[u].pub
                      /\ decl[u].kind = "none" /\ ceiling[u] # {}
                   THEN [kind |-> "explicit", effects |-> ceiling[u]]
                   ELSE decl[u]]
  /\ phase' = "ceilings"
  /\ UNCHANGED <<program, inferred, marked, work, rest, grown, passes, errors>>

\* effect_came_via_polymorphic_callee: the methods through which f may come
\* by an effect of its polymorphic parameter E, by their names.
Conduits(f) ==
  {v \in Units \ Of("fn") :
     \E t \in program.bounds[f] : decl[t].kind \in {"poly", "named"} /\ t \in {v, program.unit[v].of}}

\* How f comes by e: calls, or builtins (0).  The code keeps the first that
\* brought e, and any of them may be.
Origins(f, e) ==
  {v \in CallsSeen(program, f, marked) : e \in CalleeEffects(v, inferred)}
  \cup (IF e \in program.own[f] THEN {0} ELSE {})

\* What verification compares.
Opaque(effects) == effects \ Transparent
Unlicensed(f) == Opaque(inferred[f]) \ decl[f].effects

\* The public functions `with E` that leak, for sure or depending on the order
\* of the calls in their bodies.
MustLeak(f) == \E e \in Unlicensed(f) : Origins(f, e) \cap Conduits(f) = {}
MayLeak(f) == \E e \in Unlicensed(f) : ~ Origins(f, e) \subseteq Conduits(f)

\* Mutant: a public function without a declaration is not looked at.
ComplaintsDeclaredOnly(f, leaky) ==
  IF decl[f].kind = "explicit" /\ Unlicensed(f) # {} THEN {"missing"} ELSE {}

\* The complaints about public function f, by the arms of verify_declarations.
Complaints(f, leaky) ==
  LET exceeds ==
        \/ decl[f].kind = "explicit" /\ Unlicensed(f) # {}
        \/ decl[f].kind = "named" /\ f \in leaky
        \/ decl[f].kind = "none" /\ PublicEffects = "declared" /\ Opaque(inferred[f]) # {}
      idle == decl[f].kind = "explicit" /\ ~ Opaque(decl[f].effects) \subseteq inferred[f]
      hidden == decl[f].kind \in {"explicit", "none"} /\ f \in marked
  IN {k \in {"missing", "over", "viral"} :
        CASE k = "missing" -> exceeds [] k = "over" -> idle [] k = "viral" -> hidden}

\* Body u does more than trait method t allows.
ExceedsCeiling(u, t) ==
  decl[t].kind = "explicit" /\ ~ Opaque(inferred[u]) \subseteq decl[t].effects

ImplComplaints ==
  {<<"impl", u>> : u \in {i \in Of("impl") : ExceedsCeiling(i, program.unit[i].of)}}

DefaultComplaints ==
  {<<"default", t>> : t \in {d \in Of("trait") \cap WithBody(program) : ExceedsCeiling(d, d)}}

Verify ==
  /\ phase = "ceilings"
  /\ LET public == {f \in Of("fn") : program.unit[f].pub}
     IN \E leaky \in SUBSET {f \in public : MayLeak(f)} :
          /\ {f \in public : MustLeak(f)} \subseteq leaky
          /\ errors' = ImplComplaints \cup DefaultComplaints
                         \cup UNION {{<<k, f>> : k \in Complaints(f, leaky)} : f \in public}
  /\ phase' = "verified"
  /\ UNCHANGED <<program, decl, inferred, marked, work, rest, grown, passes>>

InferenceNext == (\E u \in rest : Walk(u)) \/ EndPass \/ InferCeilings \/ Verify

InferenceSpec == InferenceInit /\ [][InferenceNext]_effectsVars
-----------------------------------------------------------------------------
(* Properties. *)

\* Whose bodies a run of u may enter: a call of a trait method ends in one of
\* its implementations or in its default body, and a callee calls the functions
\* handed to it.
Handed(u) == {h[2] : h \in program.handed[u]}
Runs == [u \in Units |-> program.calls[u] \cup Handed(u) \cup Impls(u)]
Entered(u) == {u} \cup Reachable(u, Runs)
Performs(u) == UNION {program.own[v] : v \in Entered(u)}

\* Units whose callers are charged by a declaration nobody verifies, or by
\* none: public methods of types, and traits but the public ones with a list.
\* And units that hand a function to a callee whose declaration does not say
\* that it calls it.  The README says what the language promises of them.
Unaccounted ==
  {u \in Of("method") \cup Of("impl") : program.unit[u].pub}
  \cup {t \in Of("trait") : ~ program.unit[t].pub \/ decl[t].kind # "explicit"}
  \cup {u \in Units : \E h \in program.handed[u] : h[1] \notin Polymorphic(program)}

\* A program without complaints charges every caller with all its callees may
\* do, the effects of transparent verbs apart.  The concurrency analysis rests
\* on this.
EffectsTracked ==
  phase = "verified" /\ errors = {} =>
    \A u \in Units : Entered(u) \cap Unaccounted = {} =>
                       Opaque(Performs(u)) \subseteq CalleeEffects(u, inferred)

\* The effects a program names.
EffectsNamed == UNION {program.own[u] \cup decl[u].effects : u \in Units}

\* The equations of inference, for the calls seen with these marks: a unit has
\* its trusted effects, its own and those each call is charged with.
IsSolution(x, marks) == \A u \in Units : Seed[u] \cup Needs(u, x, marks) \subseteq x[u]
AtMost(x, y) == \A u \in Units : x[u] \subseteq y[u]

\* Inference ends no lower than a solution for the calls the call graph has,
\* and no higher than any for the calls seen in the end.  The two are one where
\* functions are handed only to callees declared polymorphic: then it ends with
\* the least solution, whatever the order of the walks and the limit on the
\* passes.  (Where not, a body may be walked before a function that its callee,
\* marked since, calls: the README says what is lost.)  The marked units are
\* among those that can reach a `with _` unit, and are all of them when no
\* cycle is on the way (in a cycle they may not be).
InferenceExact ==
  LET early == [u \in Units |-> CallsSeen(program, u, {})]
      ever == [u \in Units |-> CallsSeen(program, u, Units)]
      reaches(calls) == {u \in Units : Reachable(u, calls) \cap UsesUnderscore # {}}
      cyclic == {u \in Units : u \in Reachable(u, early)}
      solutions == [Units -> SUBSET EffectsNamed]
  IN phase = "ceilings" =>
       /\ \E x \in solutions : IsSolution(x, {}) /\ AtMost(x, inferred)
       /\ \A x \in solutions : IsSolution(x, marked) => AtMost(inferred, x)
       /\ marked \subseteq reaches(ever)
       /\ \A u \in reaches(early) :
            ({u} \cup Reachable(u, early)) \cap cyclic = {} => u \in marked
=============================================================================
