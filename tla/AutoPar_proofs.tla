--------------------------- MODULE AutoPar_proofs ---------------------------
(***************************************************************************)
(* Theorems about AutoPar for bodies of any length over any statements:    *)
(* the dispatch of groups keeps the statements in order, the effects they  *)
(* meet are those of the sequential program and, where the analysis sees   *)
(* what a statement does to local variables, so are the values (and the    *)
(* effects, where no index in an assigned place has one).                  *)
(***************************************************************************)
EXTENDS AutoPar, FiniteSetTheorems, NaturalsInduction, WellFoundedInduction, TLAPS

LEMMA HasLeast ==
  ASSUME NEW S \in SUBSET Nat, S # {}
  PROVE  \E m \in S : \A y \in S : m <= y
<1> DEFINE Less == {ss \in Nat \X Nat : ss[1] < ss[2]}
<1>1. IsWellFoundedOn(Less, Nat)
  BY NatLessThanWellFounded, Zenon DEF OpToRel
<1>2. PICK m \in S : \A y \in S : ~ (<<y, m>> \in Less)
  <2> HIDE DEF Less
  <2> QED
    BY <1>1, WFMin
<1>3. ASSUME NEW y \in S PROVE m <= y
  <2>1. y \in Nat /\ m \in Nat /\ ~ (y < m)
    BY <1>2
  <2> QED
    BY <2>1
<1> QED
  BY <1>3

\* A group is a run of consecutive statements that are independent.
LEMMA GroupInterval ==
  ASSUME N \in Nat, NEW i \in Stmt, Group(i) # {}
  PROVE  \E m \in i .. N : /\ Group(i) = i .. m
                           /\ Cardinality(Group(i)) = (m - i) + 1
                           /\ Independent(i .. m)
<1>1. ASSUME NEW k \in Group(i), NEW j \in i .. k PROVE j \in Group(i)
  <2>1. k \in i .. N /\ Independent(i .. k) /\ j \in i .. N
    BY <1>1 DEF Group, Stmt
  <2>2. (i .. j) \subseteq (i .. k)
    BY <2>1 DEF Stmt
  <2>3. Independent(i .. j)
    BY <2>1, <2>2 DEF Independent
  <2> QED
    BY <2>1, <2>3 DEF Group
<1>2. i \in Nat /\ \A k \in Group(i) : k \in i .. N
  BY DEF Group, Stmt
<1> DEFINE Out == {n \in Nat : i + n \notin Group(i)}
<1>3. Out # {}
  <2>1. (N + 1) \in Nat /\ i + (N + 1) \notin Group(i)
    BY <1>2
  <2> QED
    BY <2>1
<1>4. PICK n \in Out : \A k \in Out : n <= k
  BY <1>3, HasLeast
<1>5. n \in Nat \ {0}
  <2>1. PICK k \in Group(i) : TRUE
    OBVIOUS
  <2>2. i \in i .. k
    BY <1>2, <2>1
  <2>3. i + 0 \in Group(i)
    BY <1>1, <1>2, <2>2
  <2> QED
    BY <1>4, <2>3
<1>6. PICK m \in Nat : i + n = m + 1 /\ i <= m
  <2>1. i + (n - 1) \in Nat /\ i + n = (i + (n - 1)) + 1 /\ i <= i + (n - 1)
    BY <1>2, <1>5
  <2> QED
    BY <2>1
<1>7. ASSUME NEW k \in i .. m PROVE k \in Group(i)
  <2>1. k - i \in Nat /\ ~ (n <= k - i) /\ i + (k - i) = k
    BY <1>2, <1>5, <1>6
  <2>2. k - i \notin Out
    BY <1>4, <2>1
  <2> QED
    BY <2>1, <2>2
<1>8. ASSUME NEW k \in Group(i) PROVE k \in i .. m
  <2>1. k \in i .. N /\ m + 1 \notin Group(i)
    BY <1>2, <1>4, <1>6
  <2>2. SUFFICES ASSUME ~ (k <= m) PROVE FALSE
    BY <1>2, <1>6, <2>1
  <2>3. m + 1 \in i .. k
    BY <1>2, <1>6, <2>1, <2>2
  <2> QED
    BY <1>1, <2>1, <2>3
<1>9. Group(i) = i .. m
  BY <1>7, <1>8
<1>10. m \in Group(i) /\ m \in i .. N /\ Independent(i .. m)
  <2>1. m \in Group(i)
    BY <1>2, <1>6, <1>7
  <2> QED
    BY <1>2, <2>1 DEF Group
<1>11. Cardinality(i .. m) = (m - i) + 1
  BY <1>2, <1>6, FS_Interval
<1> QED
  BY <1>9, <1>10, <1>11

(***************************************************************************)
(* The body does not change while it runs, nor what the analysis says.     *)
(***************************************************************************)
LEMMA LeaderKept ==
  ASSUME prog' = prog
  PROVE  Leader' = Leader
BY DEF Leader, Group, Independent, Conflict, Defines, LetIntroduced, Target,
       Reads, Visible

LEMMA GroupKept ==
  ASSUME prog' = prog, NEW i
  PROVE  Group(i)' = Group(i)
BY DEF Group, Independent, Conflict, Defines, LetIntroduced, Target, Reads, Visible

LEMMA DispatchedKept ==
  ASSUME prog' = prog, final' = final, NEW i
  PROVE  Dispatched(i)' <=> Dispatched(i)
<1>1. PICK g : g = Group(i)
  OBVIOUS
<1>2. g = Group(i)' /\ Leader' = Leader
  BY <1>1, GroupKept, LeaderKept
<1>3. Trivial(g)' <=> Trivial(g)
  BY DEF Trivial, Visible
<1>4. CapturedMutations(g)' = CapturedMutations(g)
  BY DEF CapturedMutations, Defines, LetIntroduced, Target
<1>5. RefsOutside(g)' = RefsOutside(g)
  BY DEF RefsOutside, Refs, Reads, Target
<1>6. \A k, x : IsSlot(g, k, x)' <=> IsSlot(g, k, x)
  BY <1>5 DEF IsSlot
<1>7. Dispatched(i) <=>
        /\ Leader[i] = i /\ Cardinality(g) > 1 /\ ~ Trivial(g)
        /\ \A k \in g : prog[k].kind # "par"
        /\ CapturedMutations(g) \cap RefsOutside(g) = {}
        /\ \A k \in g : (\E x \in Names : IsSlot(g, k, x)) => prog[k].typed
  BY <1>1 DEF Dispatched
<1>8. Dispatched(i)' <=>
        /\ Leader'[i] = i /\ Cardinality(g) > 1 /\ ~ Trivial(g)'
        /\ \A k \in g : prog'[k].kind # "par"
        /\ CapturedMutations(g)' \cap RefsOutside(g)' = {}
        /\ \A k \in g : (\E x \in Names : IsSlot(g, k, x)') => prog'[k].typed
  BY <1>2 DEF Dispatched
<1> QED
  BY <1>2, <1>3, <1>4, <1>5, <1>6, <1>7, <1>8

(***************************************************************************)
(* Order.                                                                  *)
(***************************************************************************)

\* What is about to run, or runs: one statement, or the group of a par block.
Section == IF Dispatched(pc) THEN Group(pc) ELSE {pc}

Bodies ==
  /\ prog \in [Stmt -> Statements]
  /\ pending \in [Stmt -> SUBSET Effects]
  /\ returned \in BOOLEAN

\* The function runs nothing or the section at pc; what lies before has
\* started and ended.
Progress ==
  /\ pc \in 1 .. N + 1
  /\ pc = N + 1 => running = {}
  /\ running # {} => running = Section
  /\ returned => pc = N + 1
  /\ ~ returned => started = (1 .. pc - 1) \cup running

Ended ==
  /\ started \subseteq Stmt
  /\ running \subseteq started
  /\ \A i \in started \ running : pending[i] = {}

Order == Bodies /\ Progress /\ Ended

LEMMA OrderInit ==
  ASSUME Init
  PROVE  Order
<1>1. N \in Nat
  BY AutoParAssumption
<1>2. pc = 1 /\ running = {} /\ started = {} /\ returned = FALSE
  BY DEF Init
<1>3. Bodies
  BY <1>2 DEF Init, Bodies
<1>4. Progress
  <2>1. 1 .. pc - 1 = {} /\ pc \in 1 .. N + 1
    BY <1>1, <1>2
  <2> QED
    BY <1>2, <2>1 DEF Progress
<1>5. Ended
  BY <1>2 DEF Ended
<1> QED
  BY <1>3, <1>4, <1>5 DEF Order

\* What a dispatched group looks like.
LEMMA DispatchedFacts ==
  ASSUME NEW i \in Stmt, Dispatched(i)
  PROVE  \E m \in i .. N : /\ Group(i) = i .. m
                           /\ Cardinality(Group(i)) = (m - i) + 1
                           /\ Independent(Group(i))
<1>1. Cardinality(Group(i)) > 1 /\ N \in Nat
  BY AutoParAssumption DEF Dispatched
<1>2. Group(i) # {}
  <2>1. Cardinality({}) = 0
    BY FS_EmptySet
  <2> QED
    BY <1>1, <2>1
<1>3. PICK m \in i .. N : /\ Group(i) = i .. m
                          /\ Cardinality(Group(i)) = (m - i) + 1
                          /\ Independent(i .. m)
  BY <1>1, <1>2, GroupInterval
<1> QED
  BY <1>3

LEMMA SectionFacts ==
  ASSUME pc \in 1 .. N
  PROVE  \E m \in pc .. N :
           /\ Section = pc .. m
           /\ Dispatched(pc) => Cardinality(Section) = (m - pc) + 1 /\ Independent(Section)
           /\ ~ Dispatched(pc) => m = pc
<1>1. pc \in Stmt /\ N \in Nat
  BY AutoParAssumption DEF Stmt
<1>2. CASE Dispatched(pc)
  <2>1. PICK m \in pc .. N : /\ Group(pc) = pc .. m
                             /\ Cardinality(Group(pc)) = (m - pc) + 1
                             /\ Independent(Group(pc))
    BY <1>1, <1>2, DispatchedFacts
  <2> QED
    BY <1>2, <2>1 DEF Section
<1>3. CASE ~ Dispatched(pc)
  <2>1. Section = pc .. pc /\ pc \in pc .. N
    BY <1>1, <1>3 DEF Section
  <2> QED
    BY <1>3, <2>1
<1> QED
  BY <1>2, <1>3

LEMMA SectionKept ==
  ASSUME prog' = prog, final' = final, pc' = pc
  PROVE  Section' = Section
<1>1. \A i : (Dispatched(i)' <=> Dispatched(i)) /\ Group(i)' = Group(i)
  BY DispatchedKept, GroupKept
<1>2. PICK c : c = pc
  OBVIOUS
<1>3. Section = IF Dispatched(c) THEN Group(c) ELSE {c}
  BY <1>2 DEF Section
<1>4. Section' = (IF Dispatched(c)' THEN Group(c)' ELSE {c})
  BY <1>2 DEF Section
<1> QED
  BY <1>1, <1>3, <1>4

\* Statements that run to their end leave the section; the pc moves past it.
LEMMA LeaveSection ==
  ASSUME Order, AllDone, NEW m \in pc .. N, Section = pc .. m,
         prog' = prog, pending' = pending, returned' = returned, started' = started,
         running' = {}, pc' = m + 1
  PROVE  Order'
<1>1. N \in Nat /\ pc \in 1 .. N /\ running = pc .. m
  <2>1. running # {} /\ N \in Nat /\ Progress
    BY AutoParAssumption DEF AllDone, Order
  <2> QED
    BY <2>1 DEF Progress
<1>2. Bodies'
  BY DEF Order, Bodies
<1>3. Progress'
  <2>1. pc' \in 1 .. N + 1
    BY <1>1
  <2>2. ~ returned /\ started = (1 .. pc - 1) \cup (pc .. m)
    BY <1>1 DEF Order, Progress, Bodies
  <2>3. (1 .. pc - 1) \cup (pc .. m) = 1 .. (m + 1) - 1
    BY <1>1
  <2> QED
    BY <2>1, <2>2, <2>3 DEF Progress
<1>4. Ended'
  BY DEF Order, Ended, AllDone
<1> QED
  BY <1>2, <1>3, <1>4 DEF Order

LEMMA StartSection ==
  ASSUME Order, pc \in 1 .. N, NEW locals, Start(Section, locals)
  PROVE  Order'
<1>1. PICK m \in pc .. N : Section = pc .. m
  BY SectionFacts
<1>2. N \in Nat /\ Section \subseteq Stmt
  BY <1>1, AutoParAssumption DEF Stmt
<1>3. Section' = Section
  BY SectionKept DEF Start
<1>4. ~ returned /\ pc \in Nat
  BY <1>2 DEF Order, Progress, Bodies
<1> HIDE DEF Section
<1>5. Bodies'
  <2>1. prog \in [Stmt -> StatementType]
    BY AutoParAssumption DEF Order, Bodies
  <2>2. ASSUME NEW i \in Stmt PROVE prog[i].effects \subseteq Effects
    <3>1. prog[i] \in StatementType
      BY <2>1
    <3> QED
      BY <3>1 DEF StatementType
  <2>3. pending' = [i \in Stmt |-> IF i \in Section THEN prog[i].effects ELSE pending[i]]
    BY DEF Start
  <2>4. pending \in [Stmt -> SUBSET Effects]
    BY DEF Order, Bodies
  <2>5. pending' \in [Stmt -> SUBSET Effects]
    BY <2>2, <2>3, <2>4
  <2> QED
    BY <2>5 DEF Start, Order, Bodies
<1>6. Progress'
  <2>1. started' = started \cup running' /\ started = (1 .. pc - 1) \cup running /\ running = {}
    BY <1>4 DEF Order, Progress, Start
  <2>2. pc' = pc /\ returned' = returned /\ running' = Section
    BY DEF Start
  <2>3. pc # N + 1 /\ pc \in 1 .. N + 1
    BY <1>2
  <2> QED
    BY <1>3, <1>4, <2>1, <2>2, <2>3 DEF Progress
<1>7. Ended'
  <2>1. started' = started \cup Section /\ running' = Section /\ running = {}
    BY DEF Start
  <2>2. \A i \in Stmt : i \notin Section => pending'[i] = pending[i]
    BY DEF Start
  <2> QED
    BY <1>2, <2>1, <2>2 DEF Order, Ended
<1> QED
  BY <1>5, <1>6, <1>7 DEF Order

LEMMA OrderNext ==
  ASSUME Order, [Next]_vars
  PROVE  Order'
<1>0. N \in Nat /\ pc \in Nat /\ pc \in 1 .. N + 1
  BY AutoParAssumption DEF Order, Progress
<1>1. CASE UNCHANGED vars
  <2>1. Section' = Section
    BY <1>1, SectionKept DEF vars
  <2> HIDE DEF Section
  <2> QED
    BY <1>1, <2>1 DEF Order, Bodies, Progress, Ended, vars
<1>2. CASE Run
  <2>1. Section = {pc} /\ pc \in 1 .. N
    BY <1>0, <1>2 DEF Run, Section
  <2>2. Start(Section, env)
    BY <1>2, <2>1 DEF Run
  <2> QED
    BY <2>1, <2>2, StartSection
<1>3. CASE Fork
  <2>1. Section = Group(pc) /\ pc \in 1 .. N
    BY <1>0, <1>3 DEF Fork, Section
  <2>2. \E locals : Start(Section, locals)
    BY <1>3, <2>1 DEF Fork
  <2> QED
    BY <2>1, <2>2, StartSection
<1>4. ASSUME NEW i \in Stmt, NEW e \in Effects, Perform(i, e) PROVE Order'
  <2>1. Section' = Section
    BY <1>4, SectionKept DEF Perform
  <2>2. pending' = [pending EXCEPT ![i] = @ \ {e}]
    BY <1>4 DEF Perform
  <2>3. Bodies'
    BY <1>4, <2>2 DEF Perform, Order, Bodies
  <2>4. Progress'
    <3> HIDE DEF Section
    <3> QED
      BY <1>4, <2>1 DEF Perform, Order, Progress
  <2>5. Ended'
    BY <1>4, <2>2 DEF Perform, Order, Ended, Bodies
  <2> QED
    BY <2>3, <2>4, <2>5 DEF Order
<1>5. CASE End \/ Join
  <2>1. AllDone /\ running = Section /\ pc \in 1 .. N
    BY <1>0, <1>5 DEF End, Join, AllDone, Order, Progress
  <2>2. PICK m \in pc .. N : /\ Section = pc .. m
                             /\ Dispatched(pc) => Cardinality(Section) = (m - pc) + 1
                             /\ ~ Dispatched(pc) => m = pc
    BY <2>1, SectionFacts
  <2>3. pc' = m + 1
    <3>1. CASE End
      BY <1>0, <2>2, <3>1 DEF End
    <3>2. CASE Join
      BY <1>0, <2>1, <2>2, <3>2 DEF Join
    <3> QED
      BY <1>5, <3>1, <3>2
  <2>4. /\ prog' = prog /\ pending' = pending /\ returned' = returned
        /\ started' = started /\ running' = {}
    BY <1>5 DEF End, Join
  <2> QED
    BY <2>1, <2>2, <2>3, <2>4, LeaveSection
<1>6. CASE Exit
  <2>1. Bodies'
    BY <1>6 DEF Exit, Order, Bodies
  <2>2. Progress'
    BY <1>0, <1>6 DEF Exit, Progress
  <2>3. Ended'
    BY <1>6 DEF Exit, AllDone, Order, Ended
  <2> QED
    BY <2>1, <2>2, <2>3 DEF Order
<1> QED
  BY <1>1, <1>2, <1>3, <1>4, <1>5, <1>6 DEF Next

\* No statement of a body of any length is skipped, runs early or twice,
\* wherever the code changes between statements and par blocks
\* (compile_function_body, emit_par_run).
THEOREM NothingSkipped ==
  Spec => []StatementsInOrder
<1>1. Init => Order
  BY OrderInit
<1>2. Order /\ [Next]_vars => Order'
  BY OrderNext
<1>3. Order => StatementsInOrder
  BY DEF Order, Progress, StatementsInOrder
<1> QED
  BY <1>1, <1>2, <1>3, PTL DEF Spec
(***************************************************************************)
(* Effects.                                                                *)
(***************************************************************************)

\* The effect whose last performer e meets.
Met(e) == IF e[1] = "reads" THEN <<"writes", e[2]>> ELSE e

Performed(i) == prog[i].effects \ pending[i]

\* The last performer of an effect is one that performed it; for an effect that
\* excludes its like, none of those that performed it comes later in the source.
Latest ==
  /\ latest \in [Effects -> 0 .. N]
  /\ met \in [Stmt -> [Effects -> 0 .. N]]
  /\ \A i \in Stmt : pending[i] \subseteq prog[i].effects
  /\ \A e \in Effects : latest[e] # Before => latest[e] \in started /\ e \in Performed(latest[e])
  /\ \A e \in Effects : \A k \in started :
       e[1] # "reads" /\ e \in Performed(k) => k <= latest[e]

LEMMA EffectFacts ==
  ASSUME NEW e \in Effects
  PROVE  /\ Met(e) \in Effects /\ Met(e)[1] # "reads"
         /\ e[1] # "reads" => Met(e) = e
         /\ EffectConflict(e, Met(e)) /\ (e[1] # "reads" => EffectConflict(e, e))
<1>1. PICK v \in Verbs, r \in Resources : e = <<v, r>>
  BY DEF Effects
<1>2. CASE v = "reads"
  <2>1. Met(e) = <<"writes", r>>
    BY <1>1, <1>2 DEF Met
  <2> QED
    BY <1>1, <1>2, <2>1 DEF EffectConflict, Effects, Verbs
<1>3. CASE v # "reads"
  <2>1. Met(e) = e
    BY <1>1, <1>3 DEF Met
  <2> QED
    BY <1>1, <1>3, <2>1 DEF EffectConflict, Effects
<1> QED
  BY <1>2, <1>3

LEMMA TypedStatements ==
  ASSUME Bodies
  PROVE  \A i \in Stmt : prog[i] \in Statements /\ prog[i] \in StatementType
BY AutoParAssumption DEF Bodies

\* No two branches of a par block perform effects that conflict.
LEMMA BranchesExclude ==
  ASSUME Heard, Bodies, NEW S \in SUBSET Stmt, Independent(S), NEW i \in S, NEW k \in S, i # k,
         NEW e \in prog[i].effects, NEW f \in prog[k].effects, EffectConflict(e, f)
  PROVE  FALSE
<1>1. ~ Conflict(i, k)
  BY DEF Independent
<1>2. prog[i].poly => Visible(i) = {}
  BY DEF Visible
<1>5. prog[i].quiet = {} /\ prog[k].quiet = {}
  BY TypedStatements DEF Heard
<1>3. ~ prog[i].poly => e \in Visible(i)
  BY <1>5 DEF Visible
<1>4. ~ prog[k].poly => f \in Visible(k)
  BY <1>5 DEF Visible
<1> QED
  BY <1>1, <1>2, <1>3, <1>4 DEF Conflict

\* What has started before a statement that runs: all before it in the source,
\* and those that may still run beside it have nothing in conflict with it.
LEMMA BesideRunning ==
  ASSUME Heard, Order, NEW i \in running
  PROVE  /\ i \in Stmt /\ i \in started
         /\ \A k \in 1 .. i - 1 : k \in started
         /\ \A k \in started : \A e \in prog[i].effects, f \in prog[k].effects :
              EffectConflict(e, f) => k <= i /\ (k # i => pending[k] = {})
<1>1. pc \in 1 .. N /\ running = Section /\ N \in Nat /\ ~ returned
  BY AutoParAssumption DEF Order, Progress
<1>2. PICK m \in pc .. N :
         /\ Section = pc .. m
         /\ Dispatched(pc) => Independent(Section)
         /\ ~ Dispatched(pc) => m = pc
  BY <1>1, SectionFacts
<1>3. started = (1 .. pc - 1) \cup (pc .. m) /\ i \in pc .. m /\ running = pc .. m
  BY <1>1, <1>2 DEF Order, Progress
<1>4. \A k \in 1 .. pc - 1 : k \in started /\ k \notin running /\ k <= i
  BY <1>1, <1>2, <1>3
<1>5. ASSUME NEW k \in running, NEW e \in prog[i].effects, NEW f \in prog[k].effects,
             EffectConflict(e, f)
      PROVE  k = i
  <2>1. CASE Dispatched(pc)
    <3>1. Bodies /\ Section \in SUBSET Stmt /\ i \in Section /\ k \in Section
      BY <1>1, <1>2, <1>5 DEF Order, Stmt
    <3> QED
      BY <1>2, <1>5, <2>1, <3>1, BranchesExclude
  <2>2. CASE ~ Dispatched(pc)
    BY <1>1, <1>2, <1>3, <1>5, <2>2
  <2> QED
    BY <2>1, <2>2
<1>6. \A k \in started : k \in 1 .. pc - 1 \/ k \in running
  BY <1>3
<1>7. \A k \in 1 .. i - 1 : k \in started
  BY <1>1, <1>2, <1>3
<1>8. i \in Stmt /\ i \in started /\ i <= i
  BY <1>1, <1>2, <1>3 DEF Stmt
<1>9. \A k \in 1 .. pc - 1 : pending[k] = {}
  BY <1>4 DEF Order, Ended
<1> QED
  BY <1>4, <1>5, <1>6, <1>7, <1>8, <1>9

LEMMA EffectsInit ==
  ASSUME Init
  PROVE  Latest /\ SequentialEffects
<1>1. 0 \in 0 .. N
  BY AutoParAssumption
<1>2. /\ latest = [e \in Effects |-> 0] /\ met = [i \in Stmt |-> [e \in Effects |-> 0]]
      /\ pending = [i \in Stmt |-> {}] /\ started = {}
  BY DEF Init, Before
<1>3. Latest
  BY <1>1, <1>2 DEF Latest, Before
<1> QED
  BY <1>2, <1>3 DEF SequentialEffects

\* The body does not change, nor which statement is the last performer.
LEMMA RightMet ==
  ASSUME prog' = prog,
         NEW T, T = started', NEW P, P = pending', NEW m, m = met',
         \A i \in T : \A e \in prog[i].effects \ P[i] :
           m[i][e] = i \/ LastPerformer(m[i][e], Met(e), i)
  PROVE  SequentialEffects'
<1> SUFFICES ASSUME NEW i \in T, NEW e \in prog[i].effects \ P[i]
             PROVE  (LET f == IF e[1] = "reads" THEN <<"writes", e[2]>> ELSE e
                     IN met[i][e] = i \/ LastPerformer(met[i][e], f, i))'
  BY DEF SequentialEffects
<1>1. m[i][e] = i \/ LastPerformer(m[i][e], Met(e), i)
  OBVIOUS
<1> QED
  BY <1>1 DEF LastPerformer, Met

LEMMA EffectsStart ==
  ASSUME Order, Latest, SequentialEffects, pc \in 1 .. N,
         NEW locals, Start(Section, locals)
  PROVE  Latest' /\ SequentialEffects'
<1>1. PICK m \in pc .. N : Section = pc .. m
  BY SectionFacts
<1>2. /\ Section \subseteq Stmt /\ started = 1 .. pc - 1 /\ started \subseteq Stmt
      /\ \A i \in started : i \notin Section
  <2>1. N \in Nat /\ ~ returned /\ running = {}
    BY AutoParAssumption DEF Order, Progress, Start
  <2>2. started = 1 .. pc - 1
    BY <2>1 DEF Order, Progress
  <2> QED
    BY <1>1, <2>1, <2>2 DEF Stmt
<1>3. PICK S : S = Section
  OBVIOUS
<1>4. /\ started' = started \cup S /\ prog' = prog /\ latest' = latest /\ met' = met
      /\ \A i \in Stmt : pending'[i] = IF i \in S THEN prog[i].effects ELSE pending[i]
  BY <1>3 DEF Start
<1>5. /\ \A i \in started : Performed(i)' = Performed(i)
      /\ \A i \in S : Performed(i)' = {}
  BY <1>2, <1>3, <1>4 DEF Performed
<1>6. Latest'
  <2>1. /\ latest' \in [Effects -> 0 .. N] /\ met' \in [Stmt -> [Effects -> 0 .. N]]
        /\ \A i \in Stmt : pending'[i] \subseteq prog'[i].effects
    BY <1>4 DEF Latest
  <2>2. ASSUME NEW e \in Effects, latest'[e] # Before
        PROVE  latest'[e] \in started' /\ e \in prog'[latest'[e]].effects \ pending'[latest'[e]]
    <3>1. latest[e] \in started /\ e \in Performed(latest[e])
      BY <1>4, <2>2 DEF Latest
    <3> QED
      BY <1>2, <1>3, <1>4, <3>1 DEF Performed
  <2>3. ASSUME NEW e \in Effects, NEW k \in started', e[1] # "reads",
               e \in prog'[k].effects \ pending'[k]
        PROVE  k <= latest'[e]
    <3>1. k \in started /\ e \in Performed(k)
      BY <1>2, <1>3, <1>4, <2>3 DEF Performed
    <3> QED
      BY <1>4, <2>3, <3>1 DEF Latest
  <2> QED
    BY <2>1, <2>2, <2>3 DEF Latest, Performed
<1>7. SequentialEffects'
  <2>1. SUFFICES ASSUME NEW i \in started', NEW e \in prog'[i].effects \ pending'[i]
                 PROVE  met'[i][e] = i \/ LastPerformer(met'[i][e], Met(e), i)
    BY <1>4, RightMet
  <2>2. i \in started /\ e \in prog[i].effects \ pending[i]
    BY <1>2, <1>3, <1>4, <2>1
  <2> QED
    BY <1>4, <2>2 DEF SequentialEffects, Met
<1> QED
  BY <1>6, <1>7

LEMMA EffectsPerform ==
  ASSUME Heard, Order, Latest, SequentialEffects,
         NEW i \in Stmt, NEW e \in Effects, Perform(i, e)
  PROVE  Latest' /\ SequentialEffects'
<1>1. /\ i \in running /\ e \in pending[i] /\ started' = started /\ prog' = prog
      /\ pending' = [pending EXCEPT ![i] = @ \ {e}]
      /\ latest' = [latest EXCEPT ![e] = i]
      /\ met' = [met EXCEPT ![i][e] = latest[Met(e)]]
  BY DEF Perform, Met
<1>2. /\ latest \in [Effects -> 0 .. N] /\ met \in [Stmt -> [Effects -> 0 .. N]]
      /\ pending \in [Stmt -> SUBSET Effects] /\ e \in prog[i].effects
      /\ \A k \in Stmt : pending[k] \subseteq prog[k].effects
      /\ N \in Nat /\ started \subseteq Stmt /\ i \in 0 .. N
  BY <1>1, AutoParAssumption DEF Latest, Order, Bodies, Ended, Stmt
<1>3. /\ i \in started /\ \A k \in 1 .. i - 1 : k \in started
      /\ \A k \in started : \A f \in prog[k].effects :
           EffectConflict(e, f) => k <= i /\ (k # i => pending[k] = {})
  BY <1>1, <1>2, BesideRunning
<1>4. /\ Met(e) \in Effects /\ Met(e)[1] # "reads" /\ EffectConflict(e, Met(e))
      /\ e[1] # "reads" => EffectConflict(e, e)
  BY EffectFacts
<1>5. \A k \in Stmt : pending'[k] = IF k = i THEN pending[i] \ {e} ELSE pending[k]
  BY <1>1, <1>2
<1>6. Latest'
  <2>1. latest' \in [Effects -> 0 .. N] /\ met' \in [Stmt -> [Effects -> 0 .. N]]
    <3>1. latest[Met(e)] \in 0 .. N
      BY <1>2, <1>4
    <3> QED
      BY <1>1, <1>2, <3>1
  <2>2. \A k \in Stmt : pending'[k] \subseteq prog'[k].effects
    BY <1>1, <1>2, <1>5
  <2>3. ASSUME NEW f \in Effects, latest'[f] # Before
        PROVE  latest'[f] \in started' /\ f \in prog'[latest'[f]].effects \ pending'[latest'[f]]
    <3>1. CASE f = e
      BY <1>1, <1>2, <1>3, <1>5, <3>1
    <3>2. CASE f # e
      <4>1. latest'[f] = latest[f]
        BY <1>1, <1>2, <3>2
      <4>2. latest[f] \in started /\ f \in prog[latest[f]].effects \ pending[latest[f]]
        BY <2>3, <4>1 DEF Latest, Performed
      <4> QED
        BY <1>1, <1>2, <1>5, <4>1, <4>2
    <3> QED
      BY <3>1, <3>2
  <2>4. ASSUME NEW f \in Effects, NEW k \in started, f[1] # "reads",
               f \in prog[k].effects \ pending'[k]
        PROVE  k <= latest'[f]
    <3>1. CASE f = e
      <4>1. k <= i
        BY <1>3, <1>4, <2>4, <3>1
      <4> QED
        BY <1>1, <1>2, <3>1, <4>1
    <3>2. CASE f # e
      <4>1. f \in prog[k].effects \ pending[k]
        BY <1>2, <1>5, <2>4, <3>2
      <4>2. latest'[f] = latest[f]
        BY <1>1, <1>2, <3>2
      <4> QED
        BY <2>4, <4>1, <4>2 DEF Latest, Performed
    <3> QED
      BY <3>1, <3>2
  <2> QED
    BY <1>1, <2>1, <2>2, <2>3, <2>4 DEF Latest, Performed
<1>7. ASSUME latest[Met(e)] # i
      PROVE  LastPerformer(latest[Met(e)], Met(e), i)
  <2> DEFINE f == Met(e)
             j == latest[f]
  <2>1. j \in 0 .. N /\ f \in Effects /\ f[1] # "reads" /\ i \in Nat
    BY <1>2, <1>4
  <2>2. j # Before => j \in started /\ f \in prog[j].effects
    BY <2>1 DEF Latest, Performed
  <2>3. j # Before => j \in 1 .. i - 1
    <3>1. SUFFICES ASSUME j # 0 PROVE j \in 1 .. i - 1
      BY DEF Before
    <3>2. j <= i
      BY <1>3, <1>4, <2>2, <3>1 DEF Before
    <3> HIDE DEF j
    <3> QED
      BY <1>7, <2>1, <3>1, <3>2 DEF j
  <2>4. ASSUME NEW k \in j + 1 .. i - 1 PROVE f \notin prog[k].effects
    <3>1. k \in 1 .. i - 1 /\ k # i /\ ~ (k <= j)
      <4> HIDE DEF j
      <4> QED
        BY <2>1, <2>4
    <3>2. SUFFICES ASSUME f \in prog[k].effects PROVE FALSE
      OBVIOUS
    <3>3. k \in started /\ pending[k] = {}
      BY <1>3, <1>4, <3>1, <3>2
    <3>4. k <= j
      BY <2>1, <3>2, <3>3 DEF Latest, Performed
    <3> QED
      BY <3>1, <3>4
  <2> QED
    BY <2>2, <2>3, <2>4 DEF LastPerformer
<1>8. SequentialEffects'
  <2>1. SUFFICES ASSUME NEW k \in started, NEW f \in prog[k].effects \ pending'[k]
                 PROVE  met'[k][f] = k \/ LastPerformer(met'[k][f], Met(f), k)
    BY <1>1, RightMet
  <2>2. CASE k = i /\ f = e
    <3>1. met'[k][f] = latest[Met(e)]
      BY <1>1, <1>2, <2>2
    <3> QED
      BY <1>7, <2>2, <3>1
  <2>3. CASE ~ (k = i /\ f = e)
    <3>1. f \in prog[k].effects \ pending[k] /\ k \in Stmt
      BY <1>2, <1>5, <2>1, <2>3
    <3>2. met'[k][f] = met[k][f]
      BY <1>1, <1>2, <2>3
    <3> QED
      BY <3>1, <3>2 DEF SequentialEffects, Met
  <2> QED
    BY <2>2, <2>3
<1> QED
  BY <1>6, <1>8

LEMMA EffectsNext ==
  ASSUME Heard, Order, Latest, SequentialEffects, [Next]_vars
  PROVE  Latest' /\ SequentialEffects'
<1>0. N \in Nat /\ pc \in Nat /\ pc \in 1 .. N + 1
  BY AutoParAssumption DEF Order, Progress
<1>1. CASE /\ prog' = prog /\ started' = started /\ pending' = pending
           /\ latest' = latest /\ met' = met
  BY <1>1 DEF Latest, Performed, SequentialEffects, LastPerformer
<1>2. CASE Run
  <2>1. Section = {pc} /\ pc \in 1 .. N
    BY <1>0, <1>2 DEF Run, Section
  <2>2. Start(Section, env)
    BY <1>2, <2>1 DEF Run
  <2> QED
    BY <2>1, <2>2, EffectsStart
<1>3. CASE Fork
  <2>1. Section = Group(pc) /\ pc \in 1 .. N
    BY <1>0, <1>3 DEF Fork, Section
  <2>2. \E locals : Start(Section, locals)
    BY <1>3, <2>1 DEF Fork
  <2> QED
    BY <2>1, <2>2, EffectsStart
<1>4. ASSUME NEW i \in Stmt, NEW e \in Effects, Perform(i, e)
      PROVE  Latest' /\ SequentialEffects'
  BY <1>4, EffectsPerform
<1>5. CASE UNCHANGED vars \/ End \/ Join \/ Exit
  BY <1>1, <1>5 DEF vars, End, Join, Exit
<1> QED
  BY <1>2, <1>3, <1>4, <1>5 DEF Next

\* Whatever the order in which the branches of par blocks perform their effects,
\* a read of a resource comes after the write that precedes it in the source,
\* and effects that exclude each other follow in source order, where no index in
\* an assigned place has an effect (groups of
\* analyze_function in concurrency.rs, dispatched by compile_function_body).
THEOREM EffectsSequential ==
  ASSUME Heard
  PROVE  Spec => []SequentialEffects
<1>1. Init => Order /\ Latest /\ SequentialEffects
  BY OrderInit, EffectsInit
<1>2. Order /\ Latest /\ SequentialEffects /\ [Next]_vars
        => Order' /\ Latest' /\ SequentialEffects'
  BY OrderNext, EffectsNext
<1> QED
  BY <1>1, <1>2, PTL DEF Spec
(***************************************************************************)
(* Values.                                                                 *)
(***************************************************************************)

Uses(i) == Reads(i) \cup Target(i)

\* Each statement that has started works on the right values, and so will those
\* to come: what they use has its last writer in env.
ValuesRead == \A i \in started : \A x \in Uses(i) : Reaches(view[i][x], x, i)

ValuesKept ==
  ~ returned =>
    \A x \in final \cup UNION {Uses(i) : i \in pc .. N} : Reaches(env[x], x, pc)

Values ==
  /\ final \subseteq Names
  /\ env \in [Names -> Nat]
  /\ view \in [Stmt -> [Names -> Nat]]
  /\ ValuesRead
  /\ ValuesKept

\* What a statement writes is among what the analysis says it defines.
LEMMA StatementFacts ==
  ASSUME Seen, Bodies, NEW i \in Stmt
  PROVE  /\ Uses(i) \subseteq Names /\ Refs(i) = Uses(i)
         /\ Writes(i) = Defines(i)
         /\ LetIntroduced(i) \cap Uses(i) = {}
         /\ \A x : x \in LetIntroduced(i) => prog[i].kind = "let" /\ x = prog[i].name
         /\ \A k \in Stmt : prog[k].inner \cap Uses(i) = {}
<1>1. /\ prog[i] \in Statements /\ prog[i] \in StatementType
      /\ \A k \in Stmt : prog[k] \in Statements
  BY TypedStatements
<1>2. /\ prog[i].reads \subseteq Names /\ prog[i].writes \subseteq Names
      /\ prog[i].kind \in Kinds
  BY <1>1 DEF StatementType
<1>3. /\ prog[i].kind # "pattern"
      /\ prog[i].kind \in {"let", "assign", "update"} => prog[i].name \in Names /\ prog[i].writes = {}
      /\ prog[i].kind = "let" => prog[i].name \notin prog[i].reads
      /\ prog[i].unwalked = {} /\ prog[i].unseen = {}
      /\ \A k \in Stmt :
           prog[k].inner \cap (prog[i].reads \cup prog[i].writes \cup {prog[i].name}) = {}
  BY <1>1 DEF Seen
<1>4. Uses(i) \subseteq prog[i].reads \cup prog[i].writes \cup {prog[i].name}
  BY DEF Uses, Reads, Target
<1>5. Uses(i) \subseteq Names /\ Refs(i) = Uses(i)
  BY <1>2, <1>3 DEF Uses, Reads, Target, Refs
<1>6. Writes(i) = Defines(i)
  BY <1>2, <1>3 DEF Writes, Defines, Kinds, Target, LetIntroduced
<1>7. LetIntroduced(i) \cap Uses(i) = {}
  BY <1>3 DEF LetIntroduced, Uses, Reads, Target
<1>8. \A x : x \in LetIntroduced(i) => prog[i].kind = "let" /\ x = prog[i].name
  BY <1>3 DEF LetIntroduced
<1>9. \A k \in Stmt : prog[k].inner \cap Uses(i) = {}
  BY <1>3, <1>4
<1> QED
  BY <1>5, <1>6, <1>7, <1>8, <1>9

\* No branch writes what another uses or writes, and the environment of the
\* branches holds all they use.
LEMMA BranchFacts ==
  ASSUME Seen, Bodies, NEW S \in SUBSET Stmt, Independent(S), NEW i \in S
  PROVE  /\ \A k \in S \ {i} : Writes(k) \cap (Uses(i) \cup Writes(i)) = {}
         /\ Uses(i) \subseteq Captures(S)
<1>1. /\ Refs(i) = Uses(i) /\ LetIntroduced(i) \cap Uses(i) = {}
      /\ \A k \in S : Writes(k) = Defines(k) /\ prog[k].inner \cap Uses(i) = {}
  BY StatementFacts
<1>2. \A k \in S \ {i} : Writes(k) \cap (Uses(i) \cup Writes(i)) = {}
  <2> SUFFICES ASSUME NEW k \in S \ {i}
               PROVE  Writes(k) \cap (Uses(i) \cup Writes(i)) = {}
    OBVIOUS
  <2>1. ~ Conflict(i, k)
    BY DEF Independent
  <2>2. Defines(k) \cap Reads(i) = {} /\ Defines(k) \cap Defines(i) = {}
    BY <2>1 DEF Conflict
  <2>3. Target(i) \subseteq Defines(i)
    BY DEF Defines
  <2> QED
    BY <1>1, <2>2, <2>3 DEF Uses
<1>3. \A k \in S : LetIntroduced(k) \cap Uses(i) = {}
  BY <1>1, <1>2 DEF Writes
<1>4. Uses(i) \subseteq UNION {Refs(k) : k \in S}
  BY <1>1
<1>5. \A x \in Uses(i) :
        /\ x \in UNION {Refs(k) : k \in S}
        /\ \A k \in S : x \notin LetIntroduced(k) \cup prog[k].inner
  BY <1>1, <1>3, <1>4
<1>6. Uses(i) \subseteq Captures(S)
  BY <1>5 DEF Captures
<1> QED
  BY <1>2, <1>6, Zenon

LEMMA ReachesKept ==
  ASSUME prog' = prog, NEW j, NEW x, NEW i
  PROVE  Reaches(j, x, i)' <=> Reaches(j, x, i)
BY DEF Reaches, Writes, LetIntroduced, Target

LEMMA UsesKept ==
  ASSUME prog' = prog, NEW i
  PROVE  Uses(i)' = Uses(i)
BY DEF Uses, Reads, Target

LEMMA RightValues ==
  ASSUME prog' = prog,
         NEW T, T = started', NEW V, V = view',
         \A i \in T : \A x \in Uses(i) : Reaches(V[i][x], x, i)
  PROVE  ValuesRead'
BY UsesKept DEF ValuesRead, Reaches, Writes, LetIntroduced, Target

LEMMA RightEnv ==
  ASSUME prog' = prog, final' = final,
         NEW c, c = pc', NEW E, E = env',
         returned' = FALSE =>
           \A x \in final \cup UNION {Uses(i) : i \in c .. N} : Reaches(E[x], x, c)
  PROVE  returned' \in BOOLEAN => ValuesKept'
BY UsesKept DEF ValuesKept, Reaches, Writes, LetIntroduced, Target

LEMMA ValuesInit ==
  ASSUME Seen, Init
  PROVE  Values
<1>1. N \in Nat /\ Names = DOMAIN env /\ pc = 1 /\ started = {}
  BY AutoParAssumption DEF Init
<1>2. /\ final \subseteq Names /\ env \in [Names -> Nat] /\ view \in [Stmt -> [Names -> Nat]]
      /\ \A x \in Names : env[x] = Before
  BY <1>1 DEF Init, Seen, Before, Unbound
<1>3. \A i \in Stmt : Uses(i) \subseteq Names
  <2>1. Bodies
    BY OrderInit DEF Order
  <2> QED
    BY <2>1, StatementFacts
<1>4. final \cup UNION {Uses(i) : i \in pc .. N} \subseteq Names
  BY <1>1, <1>2, <1>3 DEF Stmt
<1>5. \A x \in Names : Reaches(env[x], x, pc)
  <2>1. (Before + 1) .. pc - 1 = {}
    BY <1>1 DEF Before
  <2> QED
    BY <1>2, <2>1 DEF Reaches
<1>6. ValuesKept
  BY <1>4, <1>5 DEF ValuesKept
<1>7. ValuesRead
  BY <1>1 DEF ValuesRead
<1> QED
  BY <1>2, <1>6, <1>7 DEF Values

\* A writer that reaches the first statement of a section reaches each of its
\* statements that no other statement of the section writes for.
LEMMA ReachesOn ==
  ASSUME NEW c \in Nat \ {0}, NEW i \in Nat, c <= i, NEW j, NEW x, Reaches(j, x, c),
         \A k \in c .. i - 1 : x \notin Writes(k)
  PROVE  Reaches(j, x, i)
<1>1. j \in Nat /\ (j = Before \/ (j \in 1 .. i - 1 /\ x \in Writes(j)))
  BY DEF Reaches, Before
<1>2. ASSUME NEW k \in j + 1 .. i - 1 PROVE x \notin Writes(k)
  <2>1. k \in j + 1 .. c - 1 \/ k \in c .. i - 1
    BY <1>1
  <2> QED
    BY <2>1 DEF Reaches
<1> QED
  BY <1>1, <1>2 DEF Reaches

\* The statements that start work on the values that reach the section.
LEMMA ValuesStart ==
  ASSUME Seen, Order, Values, pc \in 1 .. N, NEW locals,
         locals \in [Names -> Nat], Start(Section, locals),
         \A i \in Section : \A x \in Uses(i) : x \in Names /\ locals[x] = env[x],
         \A i \in Section : \A k \in Section \ {i} : Writes(k) \cap Uses(i) = {}
  PROVE  Values'
<1>1. PICK m \in pc .. N : Section = pc .. m
  BY SectionFacts
<1>2. N \in Nat /\ ~ returned /\ running = {} /\ pc \in Nat \ {0}
  BY AutoParAssumption DEF Order, Progress, Start
<1>3. PICK S : S = Section
  OBVIOUS
<1>4. /\ prog' = prog /\ final' = final /\ pc' = pc /\ env' = env /\ returned' = returned
      /\ started' = started \cup S
      /\ \A i \in Stmt : view'[i] = IF i \in S THEN locals ELSE view[i]
      /\ view' = [i \in Stmt |-> IF i \in S THEN locals ELSE view[i]]
  BY <1>3 DEF Start
<1>5. /\ S \subseteq Stmt /\ started \subseteq Stmt
      /\ \A i \in started : i \notin S
  <2>1. started = 1 .. pc - 1
    BY <1>2 DEF Order, Progress
  <2> QED
    BY <1>1, <1>2, <1>3, <2>1 DEF Stmt
<1>6. view' \in [Stmt -> [Names -> Nat]]
  BY <1>4 DEF Values
<1>7. ASSUME NEW i \in S, NEW x \in Uses(i) PROVE Reaches(locals[x], x, i)
  <2>1. i \in pc .. N /\ i \in Nat /\ pc <= i
    BY <1>1, <1>2, <1>3
  <2>2. Reaches(env[x], x, pc) /\ locals[x] = env[x]
    BY <1>2, <1>3, <2>1 DEF Values, ValuesKept
  <2>3. \A k \in pc .. i - 1 : k \in S \ {i}
    BY <1>1, <1>2, <1>3, <2>1
  <2>4. \A k \in pc .. i - 1 : x \notin Writes(k)
    BY <1>3, <2>3
  <2> QED
    BY <1>2, <2>1, <2>2, <2>4, ReachesOn
<1>8. ValuesRead'
  <2>1. SUFFICES ASSUME NEW i \in started', NEW x \in Uses(i)
                 PROVE  Reaches(view'[i][x], x, i)
    BY <1>4, RightValues
  <2>2. CASE i \in S
    BY <1>4, <1>5, <1>7, <2>2
  <2>3. CASE i \notin S
    BY <1>4, <1>5, <2>1, <2>3 DEF Values, ValuesRead
  <2> QED
    BY <2>2, <2>3
<1>9. ValuesKept'
  <2>1. \A x \in final \cup UNION {Uses(i) : i \in pc .. N} : Reaches(env[x], x, pc)
    BY <1>2 DEF Values, ValuesKept
  <2>2. returned' \in BOOLEAN
    BY <1>4 DEF Order, Bodies
  <2> QED
    BY <1>4, <2>1, <2>2, RightEnv
<1> QED
  BY <1>4, <1>6, <1>8, <1>9 DEF Values
\* After a section its last writers are in env: the slots of a par block, or what
\* the one statement wrote.
LEMMA ValuesLeave ==
  ASSUME Seen, Order, Values, AllDone, NEW m \in pc .. N,
         prog' = prog, final' = final, returned' = returned, started' = started,
         view' = view, pc' = m + 1, env' \in [Names -> Nat],
         \A x \in Names :
           x \in final \cup UNION {Uses(i) : i \in m + 1 .. N} =>
             \/ env'[x] = env[x] /\ \A k \in pc .. m : x \notin Writes(k)
             \/ /\ env'[x] \in pc .. m /\ x \in Writes(env'[x])
                /\ \A k \in (pc .. m) \ {env'[x]} : x \notin Writes(k)
  PROVE  Values'
<1>1. N \in Nat /\ pc \in 1 .. N /\ ~ returned
  <2>1. running # {} /\ N \in Nat /\ Progress /\ returned \in BOOLEAN
    BY AutoParAssumption DEF AllDone, Order, Bodies
  <2> QED
    BY <2>1 DEF Progress
<1>2. /\ final \subseteq Names /\ view \in [Stmt -> [Names -> Nat]]
      /\ \A i \in Stmt : Uses(i) \subseteq Names
  <2>1. Bodies
    BY DEF Order
  <2> QED
    BY <2>1, StatementFacts DEF Values
<1>3. ValuesRead'
  <2>1. \A i \in started : \A x \in Uses(i) : Reaches(view[i][x], x, i)
    BY DEF Values, ValuesRead
  <2> QED
    BY <2>1, RightValues
<1>4. ASSUME NEW x \in final \cup UNION {Uses(i) : i \in m + 1 .. N}
      PROVE  Reaches(env'[x], x, m + 1)
  <2>1. x \in Names
    BY <1>1, <1>2 DEF Stmt
  <2>2. x \in final \cup UNION {Uses(i) : i \in pc .. N}
    BY <1>1, <1>4
  <2>3. Reaches(env[x], x, pc) /\ pc \in Nat \ {0} /\ m + 1 \in Nat /\ pc <= m + 1
    BY <1>1, <2>2 DEF Values, ValuesKept
  <2>4. CASE env'[x] = env[x] /\ \A k \in pc .. m : x \notin Writes(k)
    <3>1. \A k \in pc .. (m + 1) - 1 : x \notin Writes(k)
      BY <1>1, <2>4
    <3> QED
      BY <2>3, <2>4, <3>1, ReachesOn
  <2>5. CASE /\ env'[x] \in pc .. m /\ x \in Writes(env'[x])
             /\ \A k \in (pc .. m) \ {env'[x]} : x \notin Writes(k)
    <3>1. PICK j \in pc .. m : j = env'[x]
      BY <2>5
    <3>2. j \in 1 .. (m + 1) - 1
      BY <1>1, <3>1
    <3>3. \A k \in j + 1 .. (m + 1) - 1 : k \in (pc .. m) \ {j}
      BY <1>1, <3>1
    <3> QED
      BY <2>5, <3>1, <3>2, <3>3 DEF Reaches
  <2> QED
    BY <1>4, <2>1, <2>4, <2>5
<1>5. ValuesKept'
  <2>1. returned' \in BOOLEAN
    BY DEF Order, Bodies
  <2>2. m + 1 = pc'
    OBVIOUS
  <2> QED
    BY <1>4, <2>1, <2>2, RightEnv
<1> QED
  BY <1>2, <1>3, <1>5 DEF Values

LEMMA ValuesEnd ==
  ASSUME Seen, Order, Values, End
  PROVE  Values'
<1>1. N \in Nat /\ pc \in 1 .. N
  <2>1. running # {} /\ N \in Nat /\ Progress
    BY AutoParAssumption DEF End, AllDone, Order
  <2> QED
    BY <2>1 DEF Progress
<1>2. /\ prog' = prog /\ final' = final /\ returned' = returned /\ started' = started
      /\ view' = view /\ pc' = pc + 1 /\ AllDone
      /\ env' = [x \in Names |-> IF x \in Writes(pc) THEN pc ELSE env[x]]
  BY DEF End, Writes
<1>3. env' \in [Names -> Nat]
  BY <1>1, <1>2 DEF Values
<1>4. pc \in pc .. N /\ \A k \in pc .. pc : k = pc
  BY <1>1
<1>5. ASSUME NEW x \in Names
      PROVE  \/ env'[x] = env[x] /\ \A k \in pc .. pc : x \notin Writes(k)
             \/ /\ env'[x] \in pc .. pc /\ x \in Writes(env'[x])
                /\ \A k \in (pc .. pc) \ {env'[x]} : x \notin Writes(k)
  <2>1. env'[x] = IF x \in Writes(pc) THEN pc ELSE env[x]
    BY <1>2
  <2>2. pc \in pc .. pc
    BY <1>1
  <2> QED
    BY <1>4, <2>1, <2>2
<1> QED
  BY <1>2, <1>3, <1>4, <1>5, ValuesLeave

LEMMA ValuesJoin ==
  ASSUME Seen, Order, Values, Join
  PROVE  Values'
<1>1. N \in Nat /\ pc \in 1 .. N /\ running = Section /\ Dispatched(pc)
  <2>1. running # {} /\ N \in Nat /\ Progress /\ Dispatched(pc)
    BY AutoParAssumption DEF Join, AllDone, Order
  <2> QED
    BY <2>1 DEF Progress
<1>2. PICK m \in pc .. N : /\ Section = pc .. m
                           /\ Cardinality(Section) = (m - pc) + 1
                           /\ Independent(Section)
  BY <1>1, SectionFacts
<1>3. PICK S : S = pc .. m
  OBVIOUS
<1>4. /\ S = running /\ S = Group(pc) /\ S \subseteq Stmt /\ Independent(S)
      /\ \A i \in S : i \in Nat
  BY <1>1, <1>2, <1>3 DEF Section, Stmt
<1>5. /\ prog' = prog /\ final' = final /\ returned' = returned /\ started' = started
      /\ view' = view /\ AllDone
      /\ env' = [x \in Names |-> IF \E i \in S : IsSlot(S, i, x)
                                 THEN CHOOSE i \in S : IsSlot(S, i, x)
                                 ELSE env[x]]
  BY <1>4 DEF Join
<1>6. pc' = m + 1
  <2>1. pc' = pc + Cardinality(Section)
    BY <1>1 DEF Join
  <2> QED
    BY <1>1, <1>2, <2>1
<1>7. env' \in [Names -> Nat]
  <2>1. ASSUME NEW x \in Names PROVE env'[x] \in Nat
    <3>1. CASE \E i \in S : IsSlot(S, i, x)
      <4>1. (CHOOSE i \in S : IsSlot(S, i, x)) \in S
        BY <3>1
      <4> QED
        BY <1>4, <1>5, <3>1, <4>1
    <3>2. CASE ~ \E i \in S : IsSlot(S, i, x)
      BY <1>5, <3>2 DEF Values
    <3> QED
      BY <3>1, <3>2
  <2> QED
    BY <1>5, <2>1
<1>8. /\ CapturedMutations(S) \cap RefsOutside(S) = {}
      /\ Bodies
  BY <1>1, <1>4 DEF Dispatched, Order
<1>9. \A i \in S : /\ Writes(i) = Defines(i) /\ LetIntroduced(i) \subseteq Writes(i)
                   /\ \A x : x \in LetIntroduced(i) => prog[i].kind = "let" /\ x = prog[i].name
                   /\ \A k \in S \ {i} : Writes(k) \cap Writes(i) = {}
  BY <1>4, <1>8, StatementFacts, BranchFacts DEF Writes
<1>10. \A i \in S : \A x : IsSlot(S, i, x) => x \in Writes(i)
  BY <1>9 DEF IsSlot, Writes, LetIntroduced
<1>11. ASSUME NEW x \in Names, x \in final \cup UNION {Uses(i) : i \in m + 1 .. N}
       PROVE  \/ env'[x] = env[x] /\ \A k \in S : x \notin Writes(k)
              \/ /\ env'[x] \in S /\ x \in Writes(env'[x])
                 /\ \A k \in S \ {env'[x]} : x \notin Writes(k)
  <2>1. x \in RefsOutside(S)
    <3>1. \A i \in m + 1 .. N : i \in Stmt \ S
      BY <1>1, <1>3 DEF Stmt
    <3>2. \A i \in m + 1 .. N : Refs(i) = Uses(i)
      BY <1>8, <3>1, StatementFacts
    <3> QED
      BY <1>11, <3>1, <3>2 DEF RefsOutside
  <2>2. ASSUME NEW k \in S, x \in Writes(k) PROVE IsSlot(S, k, x)
    <3>1. x \notin Defines(k) \ LetIntroduced(k)
      BY <1>8, <2>1 DEF CapturedMutations
    <3> QED
      BY <1>9, <2>1, <2>2, <3>1 DEF IsSlot
  <2>3. CASE \E i \in S : IsSlot(S, i, x)
    <3>1. env'[x] = CHOOSE i \in S : IsSlot(S, i, x)
      BY <1>5, <2>3
    <3>2. env'[x] \in S /\ IsSlot(S, env'[x], x)
      BY <2>3, <3>1
    <3>3. PICK j \in S : j = env'[x] /\ x \in Writes(j)
      BY <1>10, <3>2
    <3>4. \A k \in S \ {j} : x \notin Writes(k)
      BY <1>9, <3>3
    <3> QED
      BY <3>3, <3>4
  <2>4. CASE ~ \E i \in S : IsSlot(S, i, x)
    BY <1>5, <2>2, <2>4
  <2> QED
    BY <2>3, <2>4
<1> QED
  BY <1>3, <1>5, <1>6, <1>7, <1>11, ValuesLeave

LEMMA ValuesNext ==
  ASSUME Seen, Order, Values, [Next]_vars
  PROVE  Values'
<1>0. N \in Nat /\ pc \in 1 .. N + 1 /\ Bodies
  BY AutoParAssumption DEF Order, Progress
<1>1. CASE UNCHANGED vars \/ \E i \in Stmt, e \in Effects : Perform(i, e)
  <2>1. /\ prog' = prog /\ final' = final /\ returned' = returned /\ started' = started
        /\ view' = view /\ env' = env /\ pc' = pc
    BY <1>1 DEF vars, Perform
  <2> QED
    BY <2>1 DEF Values, ValuesRead, ValuesKept, Uses, Reads, Target, Reaches, Writes, LetIntroduced
<1>2. CASE Run
  <2>1. Section = {pc} /\ pc \in 1 .. N /\ pc \in Stmt
    BY <1>0, <1>2 DEF Run, Section, Stmt
  <2>2. Start(Section, env) /\ env \in [Names -> Nat]
    BY <1>2, <2>1 DEF Run, Values
  <2>3. /\ \A i \in Section : \A x \in Uses(i) : x \in Names /\ env[x] = env[x]
        /\ \A i \in Section : \A k \in Section \ {i} : Writes(k) \cap Uses(i) = {}
    BY <1>0, <2>1, StatementFacts
  <2> QED
    BY <2>1, <2>2, <2>3, ValuesStart
<1>3. CASE Fork
  <2> DEFINE locals ==
        [x \in Names |-> IF x \in Captures(Group(pc)) THEN env[x] ELSE Unbound]
  <2>1. Section = Group(pc) /\ pc \in 1 .. N /\ Dispatched(pc)
    BY <1>0, <1>3 DEF Fork, Section
  <2>2. PICK m \in pc .. N : Section = pc .. m /\ Independent(Section)
    BY <2>1, SectionFacts
  <2>3. Section \subseteq Stmt
    BY <1>0, <2>2 DEF Stmt
  <2>4. Start(Section, locals)
    BY <1>3, <2>1 DEF Fork
  <2>5. locals \in [Names -> Nat]
    BY <1>0 DEF Values, Unbound
  <2>6. \A i \in Section : \A x \in Uses(i) : x \in Names /\ locals[x] = env[x]
    <3>1. \A i \in Section : Uses(i) \subseteq Names /\ Uses(i) \subseteq Captures(Section)
      BY <1>0, <2>2, <2>3, StatementFacts, BranchFacts
    <3> QED
      BY <2>1, <3>1
  <2>7. \A i \in Section : \A k \in Section \ {i} : Writes(k) \cap Uses(i) = {}
    BY <1>0, <2>2, <2>3, BranchFacts
  <2> HIDE DEF locals
  <2> QED
    BY <2>1, <2>4, <2>5, <2>6, <2>7, ValuesStart
<1>4. CASE End
  BY <1>4, ValuesEnd
<1>5. CASE Join
  BY <1>5, ValuesJoin
<1>6. CASE Exit
  <2>1. /\ prog' = prog /\ final' = final /\ started' = started /\ view' = view
        /\ env' = env /\ returned'
    BY <1>6 DEF Exit
  <2>2. \A i \in started : \A x \in Uses(i) : Reaches(view[i][x], x, i)
    BY DEF Values, ValuesRead
  <2>3. ValuesRead'
    BY <2>1, <2>2, RightValues
  <2> QED
    BY <2>1, <2>3 DEF Values, ValuesKept
<1> QED
  BY <1>1, <1>2, <1>3, <1>4, <1>5, <1>6 DEF Next

\* A compiled body of any length computes what the source says, wherever it
\* changes between statements and par blocks: each statement, and the final
\* expression, works on the values that the statements before it have left
\* (analyze_function, compile_function_body, emit_par_run).
THEOREM ValuesSequential ==
  ASSUME Seen
  PROVE  Spec => []SequentialValues
<1>1. Init => Order /\ Values
  BY OrderInit, ValuesInit
<1>2. Order /\ Values /\ [Next]_vars => Order' /\ Values'
  BY OrderNext, ValuesNext
<1>3. Order /\ Values => SequentialValues
  <2> SUFFICES ASSUME Order, Values PROVE SequentialValues
    OBVIOUS
  <2>1. \A i \in started : \A x \in Reads(i) \cup Target(i) : Reaches(view[i][x], x, i)
    BY DEF Values, ValuesRead, Uses
  <2>2. pc = N + 1 /\ ~ returned => \A x \in final : Reaches(env[x], x, N + 1)
    BY DEF Values, ValuesKept
  <2> QED
    BY <2>1, <2>2 DEF SequentialValues
<1> QED
  BY <1>1, <1>2, <1>3, PTL DEF Spec
=============================================================================
