----------------------------- MODULE Exhaustive -----------------------------
(***************************************************************************)
(* The check of a match (exhaustive.rs): arms that no value reaches, and   *)
(* values that no arm takes, by Maranget's usefulness.                     *)
(*                                                                         *)
(* Types: <<"bool">>, <<"int">>, <<"never">>, <<"tuple", types>> (structs  *)
(* are alike), <<"array", type, n>>, <<"slice", type>> (Vec, too), and     *)
(* <<"enum", name>>.                                                       *)
(*                                                                         *)
(* Patterns of the source, over a type:                                    *)
(*   <<"_">>                <<"name", n>>, a binding or a unit variant     *)
(*   <<"lit", v>>           <<"range", lo, hi>>, bounds included           *)
(*   <<"variant", n, ps>>   <<"tuple", ps>>   <<"or", ps>>                 *)
(*   <<"slice", prefix, rest, suffix>>, rest TRUE when there is a `..`     *)
(* The matrices hold lowered ones: <<"wild">>, <<"or", ps>> and            *)
(* <<"ctor", constructor, args>>.                                          *)
(***************************************************************************)
EXTENDS Integers, SequencesExt, FiniteSetsExt

CONSTANTS
  Variants,    \* of each enum, in order: sequences of <<name, payload types>>
  Scrutinees,  \* the types matched on
  PatternsOf,  \* for each of them, the patterns to draw arms from
  MaxArms,
  Integer,     \* the integers of the reference
  MaxLength    \* of its slices

VARIABLES
  type, arms,
  covering,     \* the rows of the unguarded arms
  unreachable,  \* indices of arms no value reaches
  witness       \* once decided: {} or a missed pattern

vars == <<type, arms, covering, unreachable, witness>>

Undecided == {<<>>}  \* a witness has one column
Wild == <<"wild">>
Wilds(n) == [i \in 1..n |-> Wild]

IsVariant(n, t) ==
  t[1] = "enum" /\ \E i \in DOMAIN Variants[t[2]] : Variants[t[2]][i][1] = n

Payload(n, t) ==
  LET vs == Variants[t[2]] IN (CHOOSE v \in ToSet(vs) : v[1] = n)[2]

\* The types of a constructor's arguments.
FieldTypes(c, t) ==
  CASE c[1] = "variant" -> Payload(c[2], t)
    [] c[1] = "tuple" -> t[2]
    [] c[1] \in {"array", "slice"} -> [i \in 1..c[2] |-> t[2]]
    [] OTHER -> <<>>

RECURSIVE Lower(_, _)
Lower(p, t) ==
  LET each(ps, ts) == [i \in DOMAIN ps |-> Lower(ps[i], ts[i])]
      items(ps) == [i \in DOMAIN ps |-> Lower(ps[i], t[2])]
  IN CASE p[1] \in {"_", "range"} -> Wild
       [] p[1] = "name" ->
            IF IsVariant(p[2], t) THEN <<"ctor", <<"variant", p[2]>>, <<>> >> ELSE Wild
       [] p[1] = "lit" -> <<"ctor", <<"lit", p[2]>>, <<>> >>
       [] p[1] = "variant" ->
            <<"ctor", <<"variant", p[2]>>, each(p[3], Payload(p[2], t))>>
       [] p[1] = "tuple" -> <<"ctor", <<"tuple">>, each(p[2], t[2])>>
       [] p[1] = "or" -> <<"or", [i \in DOMAIN p[2] |-> Lower(p[2][i], t)]>>
       [] p[1] = "slice" /\ t[1] = "array" ->
            LET gap == t[3] - Len(p[2]) - Len(p[4])
            IN IF gap < 0 \/ (gap > 0 /\ ~p[3]) THEN Wild
               ELSE <<"ctor", <<"array", t[3]>>,
                      items(p[2]) \o Wilds(gap) \o items(p[4])>>
       [] p[1] = "slice" /\ t[1] = "slice" ->
            <<"ctor", <<"slice", Len(p[2]) + Len(p[4]), p[3]>>, items(p[2] \o p[4])>>

\* The alternatives of a pattern.
RECURSIVE Alternatives(_)
Alternatives(p) ==
  IF p[1] = "or" THEN UNION {Alternatives(a) : a \in ToSet(p[2])} ELSE {p}

\* Mutant: alternatives are looked at for the first one only.
SpecializeFirst(rows, c, n) ==
  {(IF Head(r) = Wild THEN Wilds(n) ELSE Head(r)[3]) \o Tail(r) :
     r \in {s \in rows : Head(s) = Wild \/ (Head(s)[1] = "ctor" /\ Head(s)[2] = c)}}

\* Rows that begin with c or a wildcard, their head replaced by arguments.
Specialize(rows, c, n) ==
  UNION {{(IF h = Wild THEN Wilds(n) ELSE h[3]) \o Tail(r) :
            h \in {a \in Alternatives(Head(r)) : a = Wild \/ a[2] = c}} : r \in rows}

\* Rows that begin with a wildcard, without it.
Default(rows) == {Tail(r) : r \in {s \in rows : Wild \in Alternatives(Head(s))}}

\* Types with finitely many constructors, and these.
Closed(t) == t[1] \notin {"int", "slice"}

Ctors(t) ==
  CASE t[1] = "bool" -> << <<"lit", TRUE>>, <<"lit", FALSE>> >>
    [] t[1] = "tuple" -> << <<"tuple">> >>
    [] t[1] = "array" -> << <<"array", t[3]>> >>
    [] t[1] = "never" -> <<>>
    [] t[1] = "enum" -> [i \in DOMAIN Variants[t[2]] |-> <<"variant", Variants[t[2]][i][1]>>]

\* The first n of w become the arguments of c.
Repackage(c, n, w) == << <<"ctor", c, SubSeq(w, 1, n)>> >> \o SubSeq(w, n + 1, Len(w))

FirstOf(results) ==
  LET found == SelectSeq(results, LAMBDA r : r # {})
  IN IF found = <<>> THEN {} ELSE Head(found)

\* U(rows, q): {} when the rows take every value q takes, else a vector of
\* patterns that describes one they miss.  ts: the types of the columns.
RECURSIVE Usefulness(_, _, _)
Usefulness(rows, q, ts) ==
  LET into(c, args, types) ==
        {Repackage(c, Len(args), w) :
           w \in Usefulness(Specialize(rows, c, Len(args)),
                            args \o Tail(q), types \o Tail(ts))}
      skip == {<<Wild>> \o w : w \in Usefulness(Default(rows), Tail(q), Tail(ts))}
      head == Head(q)
      t == Head(ts)
      cs == Ctors(t)
  IN CASE q = <<>> -> IF rows = {} THEN {<<>>} ELSE {}
       [] q # <<>> /\ head[1] = "or" ->
            FirstOf([i \in DOMAIN head[2] |-> Usefulness(rows, <<head[2][i]>> \o Tail(q), ts)])
       [] q # <<>> /\ head[1] = "ctor" -> into(head[2], head[3], FieldTypes(head[2], t))
       [] q # <<>> /\ head = Wild ->
            IF (rows # {} /\ \A r \in rows : Head(r) = Wild) \/ ~Closed(t) THEN skip
            ELSE FirstOf([i \in DOMAIN cs |->
                   LET types == FieldTypes(cs[i], t) IN into(cs[i], Wilds(Len(types)), types)])
-----------------------------------------------------------------------------
Init ==
  /\ type \in Scrutinees
  /\ arms = <<>>
  /\ covering = {}
  /\ unreachable = {}
  /\ witness = Undecided

\* Mutant: a guarded arm covers what it matches.
NextArmGuardsCover ==
  /\ witness = Undecided /\ Len(arms) < MaxArms
  /\ \E p \in PatternsOf[type], guarded \in BOOLEAN :
       LET row == <<Lower(p, type)>>
       IN /\ arms' = Append(arms, [pat |-> p, guarded |-> guarded])
          /\ unreachable' = IF Usefulness(covering, row, <<type>>) = {}
                            THEN unreachable \cup {Len(arms')} ELSE unreachable
          /\ covering' = covering \cup {row}
  /\ UNCHANGED <<type, witness>>

\* One iteration of unreachable_arms.
NextArm ==
  /\ witness = Undecided /\ Len(arms) < MaxArms
  /\ \E p \in PatternsOf[type], guarded \in BOOLEAN :
       LET row == <<Lower(p, type)>>
       IN /\ arms' = Append(arms, [pat |-> p, guarded |-> guarded])
          /\ unreachable' = IF Usefulness(covering, row, <<type>>) = {}
                            THEN unreachable \cup {Len(arms')} ELSE unreachable
          /\ covering' = IF guarded THEN covering ELSE covering \cup {row}
  /\ UNCHANGED <<type, witness>>

\* check_match_exhaustive, whose matrix has the same rows.
Decide ==
  /\ witness = Undecided
  /\ witness' = Usefulness(covering, <<Wild>>, <<type>>)
  /\ UNCHANGED <<type, arms, covering, unreachable>>

Next == NextArm \/ Decide

Spec == Init /\ [][Next]_vars
-----------------------------------------------------------------------------
(* The reference: the values of a type, and those a pattern takes. *)

RECURSIVE Values(_)
Values(t) ==
  LET vectors(types) ==
        FoldLeft(LAMBDA acc, u : {Append(s, v) : s \in acc, v \in Values(u)}, {<<>>}, types)
  IN CASE t[1] = "bool" -> BOOLEAN
       [] t[1] = "int" -> Integer
       [] t[1] = "never" -> {}
       [] t[1] = "tuple" -> vectors(t[2])
       [] t[1] = "array" -> vectors([i \in 1..t[3] |-> t[2]])
       [] t[1] = "slice" -> UNION {vectors([i \in 1..n |-> t[2]]) : n \in 0..MaxLength}
       [] t[1] = "enum" ->
            UNION {{<<v[1], s>> : s \in vectors(v[2])} : v \in ToSet(Variants[t[2]])}

RECURSIVE Takes(_, _, _)
Takes(p, v, t) ==
  CASE p[1] = "_" -> TRUE
    [] p[1] = "lit" -> v = p[2]
    [] p[1] = "range" -> v \in p[2]..p[3]
    [] p[1] = "name" -> IsVariant(p[2], t) => v[1] = p[2]
    [] p[1] = "variant" ->
         v[1] = p[2] /\ \A i \in DOMAIN p[3] : Takes(p[3][i], v[2][i], Payload(p[2], t)[i])
    [] p[1] = "tuple" -> \A i \in DOMAIN p[2] : Takes(p[2][i], v[i], t[2][i])
    [] p[1] = "or" -> \E i \in DOMAIN p[2] : Takes(p[2][i], v, t)
    [] p[1] = "slice" ->
         LET a == Len(p[2])
             z == Len(p[4])
         IN /\ IF p[3] THEN Len(v) >= a + z ELSE Len(v) = a + z
            /\ \A i \in 1..a : Takes(p[2][i], v[i], t[2])
            /\ \A i \in 1..z : Takes(p[4][i], v[Len(v) - z + i], t[2])

\* The values a witness describes.
RECURSIVE Describes(_, _)
Describes(w, v) ==
  CASE w = Wild -> TRUE
    [] w # Wild /\ w[2][1] = "lit" -> v = w[2][2]
    [] w # Wild /\ w[2][1] = "variant" ->
         v[1] = w[2][2] /\ \A i \in DOMAIN w[3] : Describes(w[3][i], v[2][i])
    [] OTHER -> \A i \in DOMAIN w[3] : Describes(w[3][i], v[i])

Earlier(i, v) == \E j \in 1..(i - 1) : ~arms[j].guarded /\ Takes(arms[j].pat, v, type)
-----------------------------------------------------------------------------
(* Properties. *)

\* A match that is let through has an arm for every value.
ExhaustiveSound ==
  witness = {} => \A v \in Values(type) : Earlier(Len(arms) + 1, v)

\* A match that is not is told of a value it misses.  (A slice needs a
\* wildcard, whatever its other arms take.)
WitnessMissed ==
  witness \notin {{}, Undecided} /\ type[1] # "slice" =>
    \E v \in Values(type), w \in witness :
      Describes(w[1], v) /\ ~Earlier(Len(arms) + 1, v)

\* An arm is called unreachable iff each value it takes is taken by an
\* unguarded arm before it.  (Of slices, only if.)
UnreachableExact ==
  \A i \in DOMAIN arms :
    LET dead == \A v \in Values(type) : Takes(arms[i].pat, v, type) => Earlier(i, v)
    IN /\ i \in unreachable => dead
       /\ dead /\ type[1] # "slice" => i \in unreachable
=============================================================================
