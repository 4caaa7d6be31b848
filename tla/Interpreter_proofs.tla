------------------------- MODULE Interpreter_proofs -------------------------
(***************************************************************************)
(* Theorem about Interpreter, for all programs: a branch that was cut      *)
(* short by the failure of another passes for one that ended well only if  *)
(* a branch of the same par block handled an error inside itself.          *)
(***************************************************************************)
EXTENDS Interpreter, Digraphs_proofs, SequenceTheorems

(***************************************************************************)
(* The type invariant.                                                     *)
(***************************************************************************)
Blocks == MainBlocks \cup {[body |-> <<s>>, tail |-> <<>>] : s \in MainStatements}
Exits == {"running", "ok", "return", "err", "none", "break", "continue", "panic", "cancelled"}
Defers == {s \in MainStatements : s[1] = "defer"}
Errdefers == {s \in MainStatements : s[1] = "errdefer"}
Actions == {<<"drop", s[2]>> : s \in {l \in MainStatements : l[1] = "let"}} \cup Defers

FrameSet ==
  [kind : {"block", "call", "call?", "loop", "cleanup", "branch"}, block : Blocks,
   at : Nat \ {0}, checked : BOOLEAN, cleanup : Seq(Actions), errdefers : Seq(Errdefers),
   exit : Exits, rounds : Int]

\* What a branch has printed is any value.
IsThread(r) ==
  /\ r = [stack |-> r.stack, out |-> r.out, result |-> r.result, cancel |-> r.cancel]
  /\ r.stack \in Seq(FrameSet)
  /\ r.result \in Exits \cup {"new", "skipped"}
  /\ r.cancel \in BOOLEAN
  /\ r.result = "running" => r.stack # <<>>

Path == Seq(Nat \ {0})

Typed ==
  /\ main \in MainBodies
  /\ DOMAIN threads \in SUBSET Path /\ <<>> \in DOMAIN threads
  /\ \A p \in DOMAIN threads : IsThread(threads[p])
  /\ threads[<<>>].result # "new"

(***************************************************************************)
(* A thread that has branches waits at the par block they are those of.    *)
(***************************************************************************)
Waits(t) ==
  /\ Live(t) /\ ~ AtEnd(Top(t)) /\ AtWork(Top(t))[1] = "par"
  /\ Branches(t) = {t \o <<i>> : i \in DOMAIN AtWork(Top(t))[2]}

Family ==
  /\ \A p \in DOMAIN threads : p = <<>> \/ Front(p) \in DOMAIN threads
  /\ \A t \in DOMAIN threads : Branches(t) # {} => Waits(t)

(***************************************************************************)
(* Below a frame that runs statements of its caller, the caller is not     *)
(* being left.                                                             *)
(***************************************************************************)
Nested(s) == \A k \in 1 .. Len(s) - 1 : s[k + 1].kind # "cleanup" => s[k].exit = "running"
NestedAll == \A p \in DOMAIN threads : Nested(threads[p].stack)

(***************************************************************************)
(* A branch is cut short only while the flag is up; while it is, there is  *)
(* a branch that has failed by itself, or that is being left because of a  *)
(* failure which nothing has handled, or that has handled a failure.       *)
(***************************************************************************)
Real == {"err", "none", "panic"}
Has(s, exits) == \E k \in 1 .. Len(s) : s[k].exit \in exits

Cut(r) ==
  \/ r.result \in {"cancelled", "skipped"}
  \/ r.result = "running" /\ Has(r.stack, {"cancelled"})
Failed(r) ==
  \/ r.result \notin {"new", "running", "ok", "cancelled", "skipped"}
  \/ r.result = "running" /\ Has(r.stack, Real)

CutsFlagged == \A p \in DOMAIN threads \ {<<>>} : Cut(threads[p]) => threads[Front(p)].cancel
FlagsFounded ==
  \A t \in DOMAIN threads :
    threads[t].cancel /\ Branches(t) # {} =>
      \E p \in Branches(t) : Failed(threads[p]) \/ p \in handled

InterpreterInv == Typed /\ Family /\ NestedAll /\ CutsFlagged /\ FlagsFounded
-----------------------------------------------------------------------------
(***************************************************************************)
(* Sequences and paths.                                                    *)
(***************************************************************************)
IsPushed(r, s, x) == Len(r) = Len(s) + 1 /\ r[Len(r)] = x /\ \A i \in 1 .. Len(s) : r[i] = s[i]
IsPopped(r, s) == Len(r) = Len(s) - 1 /\ \A i \in 1 .. Len(s) - 1 : r[i] = s[i]
IsReplaced(r, s, x) ==
  Len(r) = Len(s) /\ r[Len(s)] = x /\ \A i \in 1 .. Len(s) - 1 : r[i] = s[i]

LEMMA PushFacts ==
  ASSUME NEW X, NEW s \in Seq(X), NEW x \in X
  PROVE  Append(s, x) \in Seq(X) /\ Append(s, x) # <<>> /\ IsPushed(Append(s, x), s, x)
<1>1. Len(s) \in Nat
  OBVIOUS
<1>2. /\ Append(s, x) \in Seq(X) /\ Len(Append(s, x)) = Len(s) + 1
      /\ \A i \in 1 .. Len(s) : Append(s, x)[i] = s[i]
      /\ Append(s, x)[Len(s) + 1] = x
  BY AppendProperties
<1>3. Append(s, x) # <<>>
  <2>1. Len(<<>>) = 0
    OBVIOUS
  <2> QED
    BY <1>1, <1>2, <2>1
<1> QED
  BY <1>2, <1>3 DEF IsPushed

LEMMA PopFacts ==
  ASSUME NEW X, NEW s \in Seq(X), s # <<>>
  PROVE  /\ Front(s) \in Seq(X) /\ IsPopped(Front(s), s)
         /\ Len(s) \in Nat \ {0} /\ DOMAIN s = 1 .. Len(s)
         /\ Last(s) = s[Len(s)] /\ Last(s) \in X
<1>1. Len(s) \in Nat \ {0} /\ DOMAIN s = 1 .. Len(s)
  OBVIOUS
<1>2. Front(s) \in Seq(X) /\ Len(Front(s)) = Len(s) - 1
  BY <1>1 DEF Front
<1>3. \A i \in 1 .. Len(s) - 1 : Front(s)[i] = s[i]
  BY <1>1 DEF Front
<1>4. Last(s) = s[Len(s)] /\ Last(s) \in X
  BY <1>1 DEF Last
<1> QED
  BY <1>1, <1>2, <1>3, <1>4 DEF IsPopped

LEMMA ReplaceFacts ==
  ASSUME NEW X, NEW s \in Seq(X), s # <<>>, NEW x \in X
  PROVE  /\ Append(Front(s), x) \in Seq(X) /\ Append(Front(s), x) # <<>>
         /\ IsReplaced(Append(Front(s), x), s, x)
<1> DEFINE f == Front(s)
<1>1. f \in Seq(X) /\ IsPopped(f, s) /\ Len(s) \in Nat \ {0}
  BY PopFacts
<1> HIDE DEF f
<1>2. Append(f, x) \in Seq(X) /\ Append(f, x) # <<>> /\ IsPushed(Append(f, x), f, x)
  BY <1>1, PushFacts, Zenon
<1>3. Len(f) + 1 = Len(s) /\ Len(Append(f, x)) = Len(s)
  BY <1>1, <1>2 DEF IsPopped, IsPushed
<1>4. IsReplaced(Append(f, x), s, x)
  BY <1>1, <1>2, <1>3 DEF IsPopped, IsPushed, IsReplaced
<1> QED
  BY <1>2, <1>4 DEF f

LEMMA PathFacts ==
  ASSUME NEW t \in Path, NEW i \in Nat \ {0}
  PROVE  /\ t \o <<i>> \in Path /\ t \o <<i>> # <<>> /\ Len(t \o <<i>>) = Len(t) + 1
         /\ Front(t \o <<i>>) = t /\ Last(t \o <<i>>) = i
<1> DEFINE X == Nat \ {0}
           p == t \o <<i>>
<1>1. t \in Seq(X) /\ <<i>> \in Seq(X) /\ Len(<<i>>) = 1 /\ <<i>>[1] = i /\ Len(t) \in Nat
  BY DEF Path
<1>2. /\ p \in Seq(X) /\ Len(p) = Len(t) + Len(<<i>>)
      /\ \A j \in 1 .. Len(t) + Len(<<i>>) :
           p[j] = IF j <= Len(t) THEN t[j] ELSE <<i>>[j - Len(t)]
  <2> HIDE DEF X
  <2> QED
    BY <1>1, ConcatProperties, Zenon DEF p
<1> HIDE DEF p
<1>3. Len(p) = Len(t) + 1 /\ p # <<>>
  <2>1. Len(<<>>) = 0
    OBVIOUS
  <2> QED
    BY <1>1, <1>2, <2>1
<1>4. Last(p) = i
  <2>1. p[Len(t) + 1] = <<i>>[(Len(t) + 1) - Len(t)]
    BY <1>1, <1>2
  <2> QED
    BY <1>1, <1>3, <2>1 DEF Last
<1>5. Front(p) = t
  <2>1. Front(p) \in Seq(X) /\ IsPopped(Front(p), p)
    BY <1>2, <1>3, PopFacts, Zenon
  <2>2. Len(Front(p)) = Len(t) /\ \A j \in 1 .. Len(t) : Front(p)[j] = t[j]
    BY <1>1, <1>2, <1>3, <2>1 DEF IsPopped
  <2> HIDE DEF X
  <2> QED
    BY <1>1, <2>1, <2>2, SeqEqual
<1> QED
  BY <1>2, <1>3, <1>4, <1>5 DEF p, Path

LEMMA PathParts ==
  ASSUME NEW p \in Path, p # <<>>
  PROVE  /\ Front(p) \in Path /\ Last(p) \in Nat \ {0}
         /\ Len(p) = Len(Front(p)) + 1 /\ p = Front(p) \o <<Last(p)>>
<1> DEFINE X == Nat \ {0}
           t == Front(p)
           i == Last(p)
<1>1. t \in Seq(X) /\ IsPopped(t, p) /\ Len(p) \in Nat \ {0} /\ i = p[Len(p)] /\ i \in X
  BY PopFacts DEF Path
<1> HIDE DEF t, i
<1>2. Len(t) = Len(p) - 1 /\ \A j \in 1 .. Len(t) : t[j] = p[j]
  BY <1>1 DEF IsPopped
<1>3. <<i>> \in Seq(X) /\ Len(<<i>>) = 1 /\ <<i>>[1] = i
  BY <1>1
<1>4. /\ t \o <<i>> \in Seq(X) /\ Len(t \o <<i>>) = Len(t) + Len(<<i>>)
      /\ \A j \in 1 .. Len(t) + Len(<<i>>) :
           (t \o <<i>>)[j] = IF j <= Len(t) THEN t[j] ELSE <<i>>[j - Len(t)]
  <2> HIDE DEF X
  <2> QED
    BY <1>1, <1>3, ConcatProperties, Zenon
<1>5. \A j \in 1 .. Len(p) : (t \o <<i>>)[j] = p[j]
  <2> SUFFICES ASSUME NEW j \in 1 .. Len(p) PROVE (t \o <<i>>)[j] = p[j]
    OBVIOUS
  <2>1. CASE j <= Len(t)
    BY <1>1, <1>2, <1>3, <1>4, <2>1
  <2>2. CASE j = Len(p)
    BY <1>1, <1>2, <1>3, <1>4, <2>2
  <2> QED
    BY <1>1, <1>2, <2>1, <2>2
<1>6. t \o <<i>> = p
  <2>1. p \in Seq(X) /\ Len(t \o <<i>>) = Len(p)
    BY <1>1, <1>2, <1>3, <1>4 DEF Path
  <2> HIDE DEF X
  <2> QED
    BY <1>4, <1>5, <2>1, SeqEqual
<1>7. t \in Path /\ i \in Nat \ {0} /\ Len(p) = Len(t) + 1
  BY <1>1, <1>2 DEF Path
<1> QED
  BY <1>6, <1>7 DEF t, i

(***************************************************************************)
(* The statements of the program.                                          *)
(***************************************************************************)
IsCode(c) ==
  /\ Len(c) \in Nat /\ DOMAIN c = 1 .. Len(c)
  /\ \A i \in 1 .. Len(c) : c[i] \in MainStatements

LEMMA ConcatCode ==
  ASSUME NEW c, NEW d, c \in Seq(ToSet(c)), d \in Seq(ToSet(d)),
         ToSet(c \o d) \subseteq MainStatements
  PROVE  IsCode(c \o d) /\ Len(c \o d) = Len(c) + Len(d) /\ Len(c) \in Nat /\ Len(d) \in Nat
<1> DEFINE X == ToSet(c) \cup ToSet(d)
<1>1. /\ Len(c) \in Nat /\ DOMAIN c = 1 .. Len(c) /\ \A i \in 1 .. Len(c) : c[i] \in ToSet(c)
      /\ Len(d) \in Nat /\ DOMAIN d = 1 .. Len(d) /\ \A i \in 1 .. Len(d) : d[i] \in ToSet(d)
  OBVIOUS
<1>2. c \in Seq(X) /\ d \in Seq(X)
  BY <1>1, IsASeq
<1> HIDE DEF X
<1>3. c \o d \in Seq(X) /\ Len(c \o d) = Len(c) + Len(d)
  BY <1>2, ConcatProperties, Zenon
<1>4. Len(c \o d) \in Nat /\ DOMAIN (c \o d) = 1 .. Len(c \o d)
  BY <1>3
<1>5. \A i \in 1 .. Len(c \o d) : (c \o d)[i] \in ToSet(c \o d)
  BY <1>4, Zenon DEF ToSet
<1> QED
  BY <1>1, <1>3, <1>4, <1>5 DEF IsCode

LEMMA BlockCode ==
  ASSUME NEW B \in Blocks
  PROVE  IsCode(Code(B)) /\ Len(B.body) \in Nat /\ Len(B.body) <= Len(Code(B))
<1>1. CASE B \in MainBlocks
  <2>1. B.body \in Seq(ToSet(B.body)) /\ B.tail \in Seq(ToSet(B.tail))
    BY <1>1, StatementsAssumption
  <2>2. ToSet(B.body \o B.tail) \subseteq MainStatements
    BY <1>1 DEF MainStatements, Code
  <2>3. /\ IsCode(B.body \o B.tail) /\ Len(B.body \o B.tail) = Len(B.body) + Len(B.tail)
        /\ Len(B.body) \in Nat /\ Len(B.tail) \in Nat
    BY <2>1, <2>2, ConcatCode, Zenon
  <2> DEFINE c == B.body \o B.tail
  <2>4. Code(B) = c
    BY DEF Code
  <2>5. IsCode(c) /\ Len(c) = Len(B.body) + Len(B.tail)
    BY <2>3
  <2> HIDE DEF c
  <2>6. Len(B.body) \in Nat /\ Len(B.tail) \in Nat
    BY <2>3, Zenon
  <2>7. Len(B.body) <= Len(c)
    <3>1. \A m, n \in Nat : m <= m + n
      OBVIOUS
    <3> QED
      BY <2>5, <2>6, <3>1, Zenon
  <2> QED
    BY <2>4, <2>5, <2>6, <2>7
<1>2. ASSUME NEW s \in MainStatements, B = [body |-> <<s>>, tail |-> <<>>]
      PROVE  IsCode(Code(B)) /\ Len(B.body) \in Nat /\ Len(B.body) <= Len(Code(B))
  <2>1. B.body = <<s>> /\ B.tail = <<>> /\ Len(<<s>>) = 1 /\ <<s>> \in Seq(MainStatements)
    BY <1>2
  <2>2. Code(B) = <<s>>
    BY <2>1 DEF Code
  <2>3. IsCode(<<s>>)
    BY <2>1 DEF IsCode
  <2> QED
    BY <2>1, <2>2, <2>3
<1> QED
  BY <1>1, <1>2 DEF Blocks

Raisable == {"return", "err", "none", "break", "continue", "panic"}

LEMMA StatementFacts ==
  ASSUME NEW s \in MainStatements
  PROVE  /\ s[1] \in {"block", "defer"} => s[2] \in Blocks
         /\ s[1] \in {"call", "loop", "errdefer"} => s[3] \in Blocks
         /\ s[1] = "par" => [body |-> s[2], tail |-> <<>>] \in Blocks
         /\ s[1] = "par" => IsCode(s[2])
         /\ s[1] = "raise" => s[2] \in Raisable
         /\ s[1] = "loop" => s[2] \in Nat
<1>1. BlocksIn(s) \subseteq MainBlocks
  BY StatementsAssumption
<1>2. /\ s[1] = "raise" => s[2] \in Raisable
      /\ s[1] = "loop" => s[2] \in Nat
  BY StatementsAssumption DEF Raisable
<1>3. /\ s[1] \in {"block", "defer"} => s[2] \in MainBlocks
      /\ s[1] \in {"call", "loop", "errdefer"} => s[3] \in MainBlocks
      /\ s[1] = "par" => [body |-> s[2], tail |-> <<>>] \in MainBlocks
  BY <1>1 DEF BlocksIn
<1>4. ASSUME s[1] = "par"
      PROVE  IsCode(s[2])
  <2> DEFINE B == [body |-> s[2], tail |-> <<>>]
  <2>1. B \in MainBlocks /\ B.body = s[2] /\ B.tail = <<>>
    BY <1>3, <1>4
  <2>2. s[2] \in Seq(ToSet(s[2]))
    BY <2>1, StatementsAssumption
  <2>3. ToSet(s[2] \o <<>>) \subseteq MainStatements
    BY <2>1 DEF MainStatements, Code
  <2>4. s[2] \o <<>> = s[2]
    BY <2>2, ConcatEmptySeq, Zenon
  <2>5. <<>> \in Seq(ToSet(<<>>))
    OBVIOUS
  <2>6. IsCode(s[2] \o <<>>)
    BY <2>2, <2>3, <2>5, ConcatCode, Zenon
  <2> QED
    BY <2>4, <2>6
<1> QED
  BY <1>2, <1>3, <1>4 DEF Blocks

(***************************************************************************)
(* Frames.                                                                 *)
(***************************************************************************)
Kinds == {"block", "call", "call?", "loop", "cleanup", "branch"}

LEMMA FrameFields ==
  ASSUME NEW f \in FrameSet
  PROVE  /\ f.kind \in Kinds /\ f.block \in Blocks /\ f.at \in Nat \ {0} /\ f.checked \in BOOLEAN
         /\ f.cleanup \in Seq(Actions) /\ f.errdefers \in Seq(Errdefers)
         /\ f.exit \in Exits /\ f.rounds \in Int
  BY DEF FrameSet, Kinds

LEMMA FrameTyped ==
  ASSUME NEW kind \in Kinds, NEW B \in Blocks, NEW rounds \in Int
  PROVE  /\ Frame(kind, B, rounds) \in FrameSet
         /\ Frame(kind, B, rounds).kind = kind /\ Frame(kind, B, rounds).exit = "running"
<1>1. <<>> \in Seq(Actions) /\ <<>> \in Seq(Errdefers)
  BY EmptySeq
<1> QED
  BY <1>1 DEF Frame, FrameSet, Kinds, Exits

LEMMA WorkTyped ==
  ASSUME NEW f \in FrameSet, ~ AtEnd(f)
  PROVE  AtWork(f) \in MainStatements
<1>1. IsCode(Code(f.block)) /\ f.at \in Nat \ {0}
  BY FrameFields, BlockCode
<1> QED
  BY <1>1 DEF AtEnd, AtWork, IsCode

LEMMA DeferTyped ==
  ASSUME NEW q \in Seq(Actions), q # <<>>
  PROVE  /\ Last(q) \in Actions /\ Front(q) \in Seq(Actions)
         /\ Last(q)[1] # "drop" => Last(q)[2] \in Blocks
<1> DEFINE X == Actions
<1>1. Last(q) \in X /\ Front(q) \in Seq(X)
  <2>1. q \in Seq(X)
    OBVIOUS
  <2> HIDE DEF X
  <2> QED
    BY <2>1, PopFacts, Zenon
<1>2. Last(q)[1] # "drop" => Last(q) \in Defers
  BY <1>1 DEF Actions
<1>3. ASSUME Last(q) \in Defers
      PROVE  Last(q)[2] \in Blocks
  BY <1>3, StatementFacts DEF Defers
<1> QED
  BY <1>1, <1>2, <1>3

LEMMA ErrdeferTyped ==
  ASSUME NEW q \in Seq(Errdefers), q # <<>>
  PROVE  Last(q) \in Errdefers /\ Front(q) \in Seq(Errdefers) /\ Last(q)[3] \in Blocks
<1> DEFINE X == Errdefers
<1>1. Last(q) \in X /\ Front(q) \in Seq(X)
  <2>1. q \in Seq(X)
    OBVIOUS
  <2> HIDE DEF X
  <2> QED
    BY <2>1, PopFacts, Zenon
<1>2. Last(q)[3] \in Blocks
  BY <1>1, StatementFacts DEF Errdefers
<1> QED
  BY <1>1, <1>2

LEMMA DropsTyped ==
  ASSUME NEW B, NEW i, NEW q \in Seq(Actions)
  PROVE  FireDueDrops(B, i, q) \in Seq(Actions)
<1> DEFINE X == Actions
           kept == {k \in DOMAIN q : ~ (q[k][1] = "drop" /\ LastUse(B, q[k][2]) = i)}
           e(k) == q[Ascending(kept)[k]]
           n == Cardinality(kept)
<1>1. kept \subseteq 1 .. Len(q) /\ Len(q) \in Nat /\ \A k \in kept : q[k] \in X
  OBVIOUS
<1> HIDE DEF kept, X
<1>2. IsFiniteSet(kept) /\ kept \in SUBSET Nat
  <2>1. IsFiniteSet(1 .. Len(q))
    BY <1>1, FS_Interval
  <2>2. IsFiniteSet(kept)
    BY <1>1, <2>1, FS_Subset
  <2>3. kept \in SUBSET Nat
    BY <1>1
  <2> QED
    BY <2>2, <2>3
<1>3. n \in Nat /\ Ascending(kept) \in [1 .. n -> kept]
  <2>1. /\ Ascending(kept) \in Seq(kept) /\ Cardinality(kept) \in Nat
        /\ DOMAIN Ascending(kept) = 1 .. Cardinality(kept)
    BY <1>2, AscendingFacts, Zenon
  <2> QED
    BY <2>1
<1> HIDE DEF n
<1>4. \A k \in 1 .. n : e(k) \in X
  BY <1>1, <1>3
<1> HIDE DEF e
<1>5. [k \in 1 .. n |-> e(k)] \in Seq(X)
  BY <1>3, <1>4, IsASeq
<1>6. FireDueDrops(B, i, q) = [k \in 1 .. n |-> e(k)]
  BY DEF FireDueDrops, e, n, kept
<1> QED
  BY <1>5, <1>6 DEF X

\* f with another place, exit and clean-up.
LEMMA ChangedTyped ==
  ASSUME NEW f \in FrameSet, NEW at \in Nat \ {0}, NEW checked \in BOOLEAN,
         NEW cleanup \in Seq(Actions), NEW errdefers \in Seq(Errdefers), NEW exit \in Exits
  PROVE  /\ [f EXCEPT !.at = at, !.checked = checked, !.cleanup = cleanup] \in FrameSet
         /\ [f EXCEPT !.at = at, !.cleanup = cleanup] \in FrameSet
         /\ [f EXCEPT !.at = at, !.errdefers = errdefers] \in FrameSet
         /\ [f EXCEPT !.at = at] \in FrameSet
         /\ [f EXCEPT !.checked = checked] \in FrameSet
         /\ [f EXCEPT !.cleanup = cleanup] \in FrameSet
         /\ [f EXCEPT !.errdefers = errdefers] \in FrameSet
         /\ [f EXCEPT !.exit = exit] \in FrameSet
         /\ [f EXCEPT !.exit = exit].exit = exit
         /\ [f EXCEPT !.exit = exit].kind = f.kind
<1> DEFINE K == {"block", "call", "call?", "loop", "cleanup", "branch"}
           A == Seq(Actions)
           E == Seq(Errdefers)
           B == Blocks
           Frames == [kind : K, block : B, at : Nat \ {0}, checked : BOOLEAN, cleanup : A,
                      errdefers : E, exit : Exits, rounds : Int]
<1>1. FrameSet = Frames
  BY DEF FrameSet
<1>2. f \in Frames /\ cleanup \in A /\ errdefers \in E
  BY <1>1
<1> HIDE DEF K, A, E, B
<1> QED
  BY <1>1, <1>2

LEMMA AdvancedTyped ==
  ASSUME NEW f \in FrameSet
  PROVE  /\ Advanced(f) \in FrameSet
         /\ Advanced(f).kind = f.kind /\ Advanced(f).exit = f.exit
<1> DEFINE idle == f.kind = "branch" \/ f.at > Len(f.block.body)
           pushed == PushDrops(AtWork(f), f.cleanup)
           fired == FireDueDrops(f.block, f.at, pushed)
           cleanup == IF idle THEN f.cleanup ELSE fired
           g == [f EXCEPT !.at = f.at + 1, !.checked = FALSE, !.cleanup = cleanup]
<1>1. f.at \in Nat \ {0} /\ f.cleanup \in Seq(Actions) /\ f.block \in Blocks
  BY FrameFields
<1>2. ASSUME ~ idle
      PROVE  fired \in Seq(Actions)
  <2>1. Len(f.block.body) \in Nat /\ Len(f.block.body) <= Len(Code(f.block))
        /\ Len(Code(f.block)) \in Nat
    BY <1>1, BlockCode DEF IsCode
  <2>2. ~ AtEnd(f)
    BY <1>1, <1>2, <2>1 DEF AtEnd
  <2>3. AtWork(f) \in MainStatements
    BY <2>2, WorkTyped
  <2>4. AtWork(f)[1] = "let" => <<"drop", AtWork(f)[2]>> \in Actions
    BY <2>3 DEF Actions
  <2>5. AtWork(f)[1] = "let" => Append(f.cleanup, <<"drop", AtWork(f)[2]>>) \in Seq(Actions)
    BY <1>1, <2>4, PushFacts, Zenon
  <2>6. pushed \in Seq(Actions)
    BY <1>1, <2>5 DEF PushDrops
  <2> HIDE DEF pushed
  <2> QED
    BY <2>6, DropsTyped, Zenon
<1>3. cleanup \in Seq(Actions)
  BY <1>1, <1>2, Zenon
<1>4. Advanced(f) = g
  BY DEF Advanced
<1>5. /\ f.at + 1 \in Nat \ {0} /\ FALSE \in BOOLEAN
      /\ f.errdefers \in Seq(Errdefers) /\ f.exit \in Exits
  BY <1>1, FrameFields
<1> HIDE DEF cleanup
<1>6. g \in FrameSet
  BY <1>3, <1>5, ChangedTyped, Zenon
<1>7. g.kind = f.kind /\ g.exit = f.exit
  BY DEF FrameSet
<1> QED
  BY <1>4, <1>6, <1>7

\* The frame of a statement that ended with cf.
After(f, cf) == IF cf = "ok" THEN Advanced(f) ELSE [f EXCEPT !.exit = cf]

LEMMA AfterTyped ==
  ASSUME NEW f \in FrameSet, NEW cf \in Exits, f.exit = "running"
  PROVE  /\ After(f, cf) \in FrameSet /\ After(f, cf).kind = f.kind
         /\ After(f, cf).exit = IF cf = "ok" THEN "running" ELSE cf
<1>1. CASE cf = "ok"
  BY <1>1, AdvancedTyped DEF After
<1>2. CASE cf # "ok"
  <2> DEFINE g == [f EXCEPT !.exit = cf]
  <2>1. g \in FrameSet /\ g.kind = f.kind /\ g.exit = cf
    BY DEF FrameSet
  <2> QED
    BY <1>2, <2>1 DEF After
<1> QED
  BY <1>1, <1>2

(***************************************************************************)
(* What happens to the top of a stack.                                     *)
(***************************************************************************)
LEMMA ReplacedStack ==
  ASSUME NEW s \in Seq(FrameSet), s # <<>>, Nested(s), NEW g \in FrameSet, g.kind = Last(s).kind
  PROVE  LET st == Append(Front(s), g)
         IN /\ st \in Seq(FrameSet) /\ st # <<>> /\ Nested(st)
            /\ \A E : Has(s, E) /\ (Last(s).exit \in E => g.exit \in E) => Has(st, E)
            /\ \A E : Has(st, E) => Has(s, E) \/ g.exit \in E
            /\ \A E : g.exit \in E => Has(st, E)
<1> DEFINE st == Append(Front(s), g)
<1>1. st \in Seq(FrameSet) /\ st # <<>> /\ IsReplaced(st, s, g)
  BY ReplaceFacts, Zenon
<1>2. Len(s) \in Nat \ {0} /\ Last(s) = s[Len(s)]
  BY PopFacts
<1> HIDE DEF st
<1>3. Len(st) = Len(s) /\ st[Len(s)] = g /\ \A i \in 1 .. Len(s) - 1 : st[i] = s[i]
  BY <1>1 DEF IsReplaced
<1>4. Nested(st)
  BY <1>2, <1>3 DEF Nested
<1>5. ASSUME NEW E, Has(s, E), Last(s).exit \in E => g.exit \in E
      PROVE  Has(st, E)
  BY <1>2, <1>3, <1>5 DEF Has
<1>6. ASSUME NEW E, Has(st, E)
      PROVE  Has(s, E) \/ g.exit \in E
  BY <1>2, <1>3, <1>6 DEF Has
<1>7. ASSUME NEW E, g.exit \in E
      PROVE  Has(st, E)
  BY <1>2, <1>3, <1>7 DEF Has
<1> QED
  BY <1>1, <1>4, <1>5, <1>6, <1>7 DEF st

LEMMA PushedStack ==
  ASSUME NEW s \in Seq(FrameSet), s # <<>>, Nested(s), NEW g \in FrameSet, g.exit = "running",
         g.kind # "cleanup" => Last(s).exit = "running"
  PROVE  LET st == Append(s, g)
         IN /\ st \in Seq(FrameSet) /\ st # <<>> /\ Nested(st)
            /\ \A E : Has(s, E) => Has(st, E)
            /\ \A E : "running" \notin E /\ Has(st, E) => Has(s, E)
<1> DEFINE st == Append(s, g)
<1>1. st \in Seq(FrameSet) /\ st # <<>> /\ IsPushed(st, s, g)
  BY PushFacts, Zenon
<1>2. Len(s) \in Nat \ {0} /\ Last(s) = s[Len(s)]
  BY PopFacts
<1> HIDE DEF st
<1>3. Len(st) = Len(s) + 1 /\ st[Len(s) + 1] = g /\ \A i \in 1 .. Len(s) : st[i] = s[i]
  BY <1>1 DEF IsPushed
<1>4. Nested(st)
  BY <1>2, <1>3 DEF Nested
<1>5. ASSUME NEW E, Has(s, E)
      PROVE  Has(st, E)
  BY <1>2, <1>3, <1>5 DEF Has
<1>6. ASSUME NEW E, "running" \notin E, Has(st, E)
      PROVE  Has(s, E)
  BY <1>2, <1>3, <1>6 DEF Has
<1> QED
  BY <1>1, <1>4, <1>5, <1>6 DEF st

LEMMA PoppedStack ==
  ASSUME NEW s \in Seq(FrameSet), Len(s) > 1, Nested(s)
  PROVE  LET st == Front(s)
         IN /\ st \in Seq(FrameSet) /\ st # <<>> /\ Nested(st)
            /\ \A E : Has(s, E) => Has(st, E) \/ Last(s).exit \in E
            /\ \A E : Has(st, E) => Has(s, E)
            /\ Last(s).kind # "cleanup" => Last(st).exit = "running"
<1> DEFINE st == Front(s)
<1>1. s # <<>>
  BY EmptySeq
<1>2. /\ st \in Seq(FrameSet) /\ IsPopped(st, s)
      /\ Len(s) \in Nat \ {0} /\ Last(s) = s[Len(s)]
  BY <1>1, PopFacts, Zenon
<1> HIDE DEF st
<1>3. Len(st) = Len(s) - 1 /\ \A i \in 1 .. Len(s) - 1 : st[i] = s[i]
  BY <1>2 DEF IsPopped
<1>4. st # <<>>
  BY <1>2, <1>3, EmptySeq
<1>5. Last(st) = s[Len(s) - 1]
  BY <1>2, <1>3 DEF Last
<1>6. Nested(st)
  BY <1>2, <1>3 DEF Nested
<1>7. Last(s).kind # "cleanup" => Last(st).exit = "running"
  <2>1. Len(s) - 1 \in 1 .. Len(s) - 1
    BY <1>2
  <2>2. s[(Len(s) - 1) + 1].kind # "cleanup" => s[Len(s) - 1].exit = "running"
    BY <2>1 DEF Nested
  <2> QED
    BY <1>2, <1>5, <2>2
<1>8. ASSUME NEW E, Has(s, E)
      PROVE  Has(st, E) \/ Last(s).exit \in E
  BY <1>2, <1>3, <1>8 DEF Has
<1>9. ASSUME NEW E, Has(st, E)
      PROVE  Has(s, E)
  BY <1>2, <1>3, <1>9 DEF Has
<1> QED
  BY <1>2, <1>4, <1>6, <1>7, <1>8, <1>9 DEF st

(***************************************************************************)
(* The tree of threads.                                                    *)
(***************************************************************************)
LEMMA ParentFacts ==
  ASSUME Typed, Family, NEW t \in DOMAIN threads, t # <<>>
  PROVE  /\ Front(t) \in DOMAIN threads /\ Front(t) # t /\ t \in Branches(Front(t))
         /\ Len(t) = Len(Front(t)) + 1 /\ Len(Front(t)) \in Nat
<1>1. t \in Path /\ Front(t) \in DOMAIN threads
  BY DEF Typed, Family
<1>2. Front(t) \in Path /\ Len(t) = Len(Front(t)) + 1
  BY <1>1, PathParts
<1>3. Len(Front(t)) \in Nat
  BY <1>2 DEF Path
<1>4. Front(t) # t
  BY <1>2, <1>3
<1> QED
  BY <1>1, <1>2, <1>3, <1>4 DEF Branches

LEMMA BranchFacts ==
  ASSUME Typed, Family, NEW t \in DOMAIN threads, NEW p \in Branches(t)
  PROVE  /\ p \in DOMAIN threads /\ Front(p) = t /\ p # <<>> /\ p # t /\ Waits(t)
         /\ t # <<>> => Front(t) # p
<1>1. p \in DOMAIN threads /\ Front(p) = t /\ Len(p) = Len(t) + 1 /\ t \in Path /\ Waits(t)
  BY DEF Branches, Typed, Family
<1>2. Len(t) \in Nat /\ Len(<<>>) = 0
  BY <1>1 DEF Path
<1>3. t # <<>> => Len(t) = Len(Front(t)) + 1 /\ Len(Front(t)) \in Nat
  BY ParentFacts
<1>4. p # <<>> /\ p # t /\ (t # <<>> => Front(t) # p)
  BY <1>1, <1>2, <1>3
<1> QED
  BY <1>1, <1>4

(***************************************************************************)
(* A step of thread t that makes it r, ends its branches, if it has any,   *)
(* and may raise the flag over it.                                         *)
(***************************************************************************)
Moves(t, r, flag) ==
  /\ DOMAIN threads' = DOMAIN threads \ Branches(t)
  /\ threads'[t] = r
  /\ \A p \in DOMAIN threads' \ {t} :
       threads'[p] = IF flag /\ t # <<>> /\ p = Front(t) THEN [threads[p] EXCEPT !.cancel = TRUE]
                     ELSE threads[p]
  /\ main' = main /\ handled \subseteq handled'

MayBecome(t, r, flag) ==
  /\ IsThread(r) /\ Nested(r.stack) /\ r.cancel = threads[t].cancel /\ r.result # "new"
  /\ t # <<>> =>
       /\ Cut(r) => flag \/ threads[Front(t)].cancel
       /\ flag => Failed(r) \/ threads[Front(t)].cancel
       /\ Failed(threads[t]) => Failed(r) \/ t \in handled'

AllEnded(t) == \A p \in Branches(t) : threads[p].result \notin {"new", "running"}

\* The others keep their stack and their result.
LEMMA OthersStay ==
  ASSUME Typed, Family, NEW t \in DOMAIN threads, NEW r, NEW flag, Moves(t, r, flag),
         NEW p \in DOMAIN threads', p # t
  PROVE  /\ p \in DOMAIN threads /\ IsThread(threads'[p])
         /\ threads'[p].stack = threads[p].stack /\ threads'[p].result = threads[p].result
         /\ threads'[p].cancel = (threads[p].cancel \/ (flag /\ t # <<>> /\ p = Front(t)))
<1>1. p \in DOMAIN threads /\ IsThread(threads[p])
  BY DEF Moves, Typed
<1>2. threads'[p] = IF flag /\ t # <<>> /\ p = Front(t) THEN [threads[p] EXCEPT !.cancel = TRUE]
                    ELSE threads[p]
  BY DEF Moves
<1>3. threads[p].cancel \in BOOLEAN
  BY <1>1 DEF IsThread
<1>4. CASE flag /\ t # <<>> /\ p = Front(t)
  <2> DEFINE q == threads[p]
  <2>1. threads'[p] = [q EXCEPT !.cancel = TRUE]
    BY <1>2, <1>4
  <2>2. q = [stack |-> q.stack, out |-> q.out, result |-> q.result, cancel |-> q.cancel]
    BY <1>1 DEF IsThread
  <2>3. threads'[p] = [stack |-> q.stack, out |-> q.out, result |-> q.result, cancel |-> TRUE]
    BY <2>1, <2>2
  <2>4. /\ threads'[p].stack = q.stack /\ threads'[p].result = q.result
        /\ threads'[p].cancel = TRUE /\ threads'[p].out = q.out
    BY <2>3
  <2>5. IsThread(threads'[p])
    BY <1>1, <2>3, <2>4 DEF IsThread
  <2>6. threads'[p].cancel = (threads[p].cancel \/ (flag /\ t # <<>> /\ p = Front(t)))
    BY <1>4, <2>4
  <2> QED
    BY <1>1, <2>4, <2>5, <2>6
<1>5. CASE ~ (flag /\ t # <<>> /\ p = Front(t))
  BY <1>1, <1>2, <1>3, <1>5
<1> QED
  BY <1>1, <1>4, <1>5

LEMMA TreeAfterMove ==
  ASSUME Typed, Family, NEW t \in DOMAIN threads, NEW r, NEW flag, Moves(t, r, flag), AllEnded(t)
  PROVE  /\ t \in DOMAIN threads' /\ <<>> \in DOMAIN threads'
         /\ \A p \in DOMAIN threads' \ {<<>>} : Front(p) \in DOMAIN threads'
         /\ Branches(t)' = {}
         /\ \A u \in DOMAIN threads' \ {t} : Branches(u)' = Branches(u)
<1>1. DOMAIN threads' = DOMAIN threads \ Branches(t)
  BY DEF Moves
<1>2. t \in DOMAIN threads' /\ <<>> \in DOMAIN threads'
  BY <1>1, BranchFacts DEF Typed
<1>3. ASSUME NEW p \in DOMAIN threads', p # <<>>
      PROVE  Front(p) \in DOMAIN threads'
  <2>1. p \in DOMAIN threads /\ Front(p) \in DOMAIN threads /\ p \in Branches(Front(p))
    BY <1>1, <1>3, ParentFacts
  <2>2. Live(Front(p))
    BY <2>1, BranchFacts DEF Waits
  <2>3. Front(p) \notin Branches(t)
    BY <2>2 DEF Live, AllEnded
  <2> QED
    BY <1>1, <2>1, <2>3
<1>4. Branches(t)' = {}
  BY <1>1 DEF Branches
<1>5. ASSUME NEW u \in DOMAIN threads', u # t
      PROVE  Branches(u)' = Branches(u)
  BY <1>1, <1>5 DEF Branches
<1> QED
  BY <1>2, <1>3, <1>4, <1>5

LEMMA MoveKeepsTypes ==
  ASSUME Typed, Family, NEW t \in DOMAIN threads, NEW r, NEW flag, Moves(t, r, flag), AllEnded(t),
         MayBecome(t, r, flag)
  PROVE  Typed'
<1>1. /\ DOMAIN threads' \subseteq DOMAIN threads /\ threads'[t] = r /\ main' = main
      /\ t \in DOMAIN threads' /\ <<>> \in DOMAIN threads'
  BY TreeAfterMove DEF Moves
<1>2. \A p \in DOMAIN threads' : IsThread(threads'[p])
  BY <1>1, OthersStay DEF MayBecome
<1>3. threads'[<<>>].result # "new"
  <2>1. CASE t = <<>>
    BY <1>1, <2>1 DEF MayBecome
  <2>2. CASE t # <<>>
    <3>1. threads'[<<>>].result = threads[<<>>].result
      BY <1>1, <2>2, OthersStay, Zenon
    <3> QED
      BY <3>1 DEF Typed
  <2> QED
    BY <2>1, <2>2
<1> QED
  BY <1>1, <1>2, <1>3 DEF Typed

LEMMA MoveKeepsFamily ==
  ASSUME Typed, Family, NEW t \in DOMAIN threads, NEW r, NEW flag, Moves(t, r, flag), AllEnded(t)
  PROVE  Family'
<1>1. ASSUME NEW u \in DOMAIN threads', Branches(u)' # {}
      PROVE  Waits(u)'
  <2>1. u # t /\ Branches(u)' = Branches(u)
    BY <1>1, TreeAfterMove
  <2>2. u \in DOMAIN threads /\ threads'[u].stack = threads[u].stack
        /\ threads'[u].result = threads[u].result
    BY <1>1, <2>1, OthersStay
  <2>3. Waits(u)
    BY <1>1, <2>1, <2>2 DEF Family
  <2> QED
    BY <2>1, <2>2, <2>3 DEF Waits, Live, Top
<1> QED
  BY <1>1, TreeAfterMove DEF Family

LEMMA MoveKeepsCuts ==
  ASSUME Typed, Family, CutsFlagged, NEW t \in DOMAIN threads, NEW r, NEW flag,
         Moves(t, r, flag), AllEnded(t), MayBecome(t, r, flag)
  PROVE  CutsFlagged'
<1> SUFFICES ASSUME NEW p \in DOMAIN threads' \ {<<>>}, Cut(threads'[p])
             PROVE  threads'[Front(p)].cancel
  BY DEF CutsFlagged
<1>1. p \in DOMAIN threads /\ Front(p) \in DOMAIN threads' /\ Front(p) # p
  BY TreeAfterMove, ParentFacts DEF Moves
<1>2. CASE p = t
  <2>1. Cut(r)
    BY <1>2 DEF Moves
  <2>2. flag \/ threads[Front(t)].cancel
    BY <1>2, <2>1 DEF MayBecome
  <2>3. threads'[Front(t)].cancel = (threads[Front(t)].cancel \/ (flag /\ t # <<>> /\ Front(t) = Front(t)))
    BY <1>1, <1>2, OthersStay
  <2> QED
    BY <1>2, <2>2, <2>3
<1>3. CASE p # t
  <2>1. threads'[p].stack = threads[p].stack /\ threads'[p].result = threads[p].result
    BY <1>3, OthersStay
  <2>2. Cut(threads[p])
    BY <2>1 DEF Cut
  <2>3. threads[Front(p)].cancel
    BY <1>1, <2>2 DEF CutsFlagged
  <2>4. Front(p) # t
    <3>1. p \in Branches(Front(p))'
      BY <1>1, ParentFacts DEF Branches
    <3> QED
      BY <3>1, TreeAfterMove
  <2>5. threads'[Front(p)].cancel = (threads[Front(p)].cancel \/ (flag /\ t # <<>> /\ Front(p) = Front(t)))
    BY <1>1, <2>4, OthersStay
  <2> QED
    BY <2>3, <2>5
<1> QED
  BY <1>2, <1>3

LEMMA MoveKeepsFlags ==
  ASSUME Typed, Family, FlagsFounded, NEW t \in DOMAIN threads, NEW r, NEW flag,
         Moves(t, r, flag), AllEnded(t), MayBecome(t, r, flag)
  PROVE  FlagsFounded'
<1> SUFFICES ASSUME NEW u \in DOMAIN threads', threads'[u].cancel, Branches(u)' # {}
             PROVE  \E p \in Branches(u)' : Failed(threads'[p]) \/ p \in handled' \/ p \in handled'
  BY DEF FlagsFounded
<1>1. \A p \in handled : p \in handled'
  BY DEF Moves
<1>2. u # t /\ u \in DOMAIN threads /\ Branches(u)' = Branches(u)
  BY TreeAfterMove DEF Moves
<1>3. threads'[u].cancel = (threads[u].cancel \/ (flag /\ t # <<>> /\ u = Front(t)))
  BY <1>2, OthersStay
<1>4. Branches(u)' \subseteq DOMAIN threads'
  BY DEF Branches
<1>5. ASSUME threads[u].cancel
      PROVE  \E p \in Branches(u)' : Failed(threads'[p]) \/ p \in handled'
  <2>1. PICK p \in Branches(u) : Failed(threads[p]) \/ p \in handled
    BY <1>2, <1>5 DEF FlagsFounded
  <2>2. p \in DOMAIN threads'
    BY <1>2, <1>4
  <2>3. CASE p = t
    <3>1. p # <<>>
      BY <1>2, BranchFacts
    <3>2. Failed(r) \/ t \in handled'
      BY <1>1, <2>1, <2>3, <3>1 DEF MayBecome
    <3> QED
      BY <1>2, <2>3, <3>2 DEF Moves
  <2>4. CASE p # t
    <3>1. threads'[p].stack = threads[p].stack /\ threads'[p].result = threads[p].result
      BY <2>2, <2>4, OthersStay
    <3>2. Failed(threads'[p]) \/ p \in handled'
      BY <1>1, <2>1, <3>1 DEF Failed
    <3> QED
      BY <1>2, <3>2
  <2> QED
    BY <2>3, <2>4
<1>6. ASSUME flag, t # <<>>, u = Front(t), ~ threads[u].cancel
      PROVE  \E p \in Branches(u)' : Failed(threads'[p]) \/ p \in handled'
  <2>1. t \in Branches(u)'
    BY <1>2, <1>6, ParentFacts
  <2>2. Failed(threads'[t])
    BY <1>6 DEF MayBecome, Moves
  <2> QED
    BY <2>1, <2>2
<1> QED
  BY <1>3, <1>5, <1>6

LEMMA MoveKeepsInv ==
  ASSUME InterpreterInv, NEW t \in DOMAIN threads, NEW r, NEW flag,
         Moves(t, r, flag), AllEnded(t), MayBecome(t, r, flag)
  PROVE  InterpreterInv'
<1>1. Typed /\ Family /\ NestedAll /\ CutsFlagged /\ FlagsFounded
  BY DEF InterpreterInv
<1>2. Typed' /\ Family' /\ CutsFlagged' /\ FlagsFounded'
  BY <1>1, MoveKeepsTypes, MoveKeepsFamily, MoveKeepsCuts, MoveKeepsFlags, Zenon
<1>3. NestedAll'
  <2> SUFFICES ASSUME NEW p \in DOMAIN threads'
               PROVE  Nested(threads'[p].stack)
    BY DEF NestedAll
  <2>1. CASE p = t
    BY <2>1 DEF Moves, MayBecome
  <2>2. CASE p # t
    BY <1>1, <2>2, OthersStay DEF NestedAll
  <2> QED
    BY <2>1, <2>2
<1> QED
  BY <1>2, <1>3 DEF InterpreterInv

(***************************************************************************)
(* Steps of a thread that runs.                                            *)
(***************************************************************************)
LEMMA TopFacts ==
  ASSUME InterpreterInv, NEW t \in DOMAIN threads, threads[t].result = "running"
  PROVE  /\ threads[t].stack \in Seq(FrameSet) /\ threads[t].stack # <<>>
         /\ Nested(threads[t].stack) /\ IsThread(threads[t])
         /\ Top(t) = Last(threads[t].stack) /\ Top(t) \in FrameSet
<1>1. IsThread(threads[t]) /\ Nested(threads[t].stack)
  BY DEF InterpreterInv, Typed, NestedAll
<1>2. threads[t].stack \in Seq(FrameSet) /\ threads[t].stack # <<>>
  BY <1>1 DEF IsThread
<1>3. Last(threads[t].stack) \in FrameSet
  BY <1>2, PopFacts, Zenon
<1> QED
  BY <1>1, <1>2, <1>3 DEF Top

LEMMA CutFlagged ==
  ASSUME InterpreterInv, NEW t \in DOMAIN threads, t # <<>>, threads[t].result = "running",
         Has(threads[t].stack, {"cancelled"})
  PROVE  threads[Front(t)].cancel
  BY DEF InterpreterInv, CutsFlagged, Cut

LEMMA WithStack ==
  ASSUME NEW r, IsThread(r), NEW st \in Seq(FrameSet), st # <<>>
  PROVE  LET q == [r EXCEPT !.stack = st]
         IN IsThread(q) /\ q.stack = st /\ q.result = r.result /\ q.cancel = r.cancel
<1> DEFINE q == [r EXCEPT !.stack = st]
<1>1. r = [stack |-> r.stack, out |-> r.out, result |-> r.result, cancel |-> r.cancel]
  BY DEF IsThread
<1>2. q = [stack |-> st, out |-> r.out, result |-> r.result, cancel |-> r.cancel]
  BY <1>1
<1> HIDE DEF q
<1>3. q.stack = st /\ q.out = r.out /\ q.result = r.result /\ q.cancel = r.cancel
  BY <1>2
<1>4. IsThread(q)
  BY <1>2, <1>3 DEF IsThread
<1> QED
  BY <1>3, <1>4 DEF q

\* A step that raises no flag.
LEMMA QuietStep ==
  ASSUME InterpreterInv, NEW t \in DOMAIN threads, threads[t].result = "running",
         Branches(t) = {}, NEW r, IsThread(r), r.result = "running",
         r.cancel = threads[t].cancel, Nested(r.stack),
         Has(r.stack, {"cancelled"}) =>
           Has(threads[t].stack, {"cancelled"}) \/ threads[Front(t)].cancel,
         t # <<>> /\ Has(threads[t].stack, Real) =>
           Has(r.stack, Real) \/ t \in handled',
         threads' = [threads EXCEPT ![t] = r],
         main' = main, handled \subseteq handled'
  PROVE  InterpreterInv'
<1>1. AllEnded(t)
  BY DEF AllEnded
<1>2. Moves(t, r, FALSE)
  BY DEF Moves
<1>3. MayBecome(t, r, FALSE)
  <2>1. ASSUME t # <<>>, Cut(r)
        PROVE  threads[Front(t)].cancel
    BY <2>1, CutFlagged DEF Cut
  <2>2. ASSUME t # <<>>, Failed(threads[t])
        PROVE  Failed(r) \/ t \in handled'
    BY <2>2 DEF Failed
  <2> QED
    BY <2>1, <2>2 DEF MayBecome
<1> QED
  BY <1>1, <1>2, <1>3, MoveKeepsInv, Zenon

LEMMA QuietStack ==
  ASSUME InterpreterInv, NEW t \in DOMAIN threads, threads[t].result = "running",
         Branches(t) = {}, NEW st \in Seq(FrameSet), st # <<>>, Nested(st),
         Has(st, {"cancelled"}) =>
           Has(threads[t].stack, {"cancelled"}) \/ threads[Front(t)].cancel,
         t # <<>> /\ Has(threads[t].stack, Real) =>
           Has(st, Real) \/ t \in handled',
         threads' = [threads EXCEPT ![t].stack = st],
         main' = main, handled \subseteq handled'
  PROVE  InterpreterInv'
<1> DEFINE r == [threads[t] EXCEPT !.stack = st]
<1>1. IsThread(threads[t])
  BY TopFacts
<1>2. IsThread(r) /\ r.stack = st /\ r.result = "running" /\ r.cancel = threads[t].cancel
  BY <1>1, WithStack
<1>3. threads' = [threads EXCEPT ![t] = r]
  OBVIOUS
<1> HIDE DEF r
<1> QED
  BY <1>2, <1>3, QuietStep, Zenon

\* The threads ts after t went on with g as the top of its stack.
WentOn(next, ts, t, g, flag) ==
  /\ DOMAIN next = DOMAIN ts
  /\ next[t] = [ts[t] EXCEPT !.stack = Append(Front(ts[t].stack), g)]
  /\ \A p \in DOMAIN ts \ {t} :
       next[p] = IF flag /\ t # <<>> /\ p = Front(t) THEN [ts[p] EXCEPT !.cancel = TRUE] ELSE ts[p]

LEMMA ContinuesFacts ==
  ASSUME NEW ts, NEW t \in DOMAIN ts, NEW f, NEW cf,
         t # <<>> => Front(t) \in DOMAIN ts /\ Front(t) # t
  PROVE  WentOn(Continues(ts, t, f, cf), ts, t, After(f, cf), cf \in Failures /\ f.kind # "branch")
<1> DEFINE flag == cf \in Failures /\ f.kind # "branch"
           st == Append(Front(ts[t].stack), After(f, cf))
           left == [ts EXCEPT ![t] = [ts[t] EXCEPT !.stack = st]]
           next == Continues(ts, t, f, cf)
<1>1. /\ DOMAIN left = DOMAIN ts /\ left[t] = [ts[t] EXCEPT !.stack = st]
      /\ \A p \in DOMAIN ts \ {t} : left[p] = ts[p]
  OBVIOUS
<1>2. CASE cf = "ok"
  <2>1. next = left
    BY <1>2 DEF Continues, After
  <2>2. ~ flag
    BY <1>2 DEF Failures
  <2> HIDE DEF next, left, flag, st
  <2> QED
    BY <1>1, <2>1, <2>2 DEF next, flag, st, WentOn
<1>3. CASE cf # "ok"
  <2>1. left = [ts EXCEPT ![t].stack = Append(Front(@), [f EXCEPT !.exit = cf])]
    BY <1>3 DEF After
  <2>2. next = IF t # <<>> /\ f.kind # "branch" /\ cf \in Failures
               THEN [left EXCEPT ![Front(t)].cancel = TRUE] ELSE left
    BY <1>3, <2>1 DEF Continues, Raised
  <2> HIDE DEF next, left, st
  <2>3. CASE t # <<>> /\ f.kind # "branch" /\ cf \in Failures
    <3>1. next = [left EXCEPT ![Front(t)] = [left[Front(t)] EXCEPT !.cancel = TRUE]]
      BY <2>2, <2>3
    <3>2. Front(t) \in DOMAIN left /\ Front(t) # t
      BY <1>1, <2>3
    <3>3. DOMAIN next = DOMAIN left /\ next[Front(t)] = [left[Front(t)] EXCEPT !.cancel = TRUE]
          /\ \A p \in DOMAIN left \ {Front(t)} : next[p] = left[p]
      BY <3>1, <3>2
    <3> QED
      BY <1>1, <2>3, <3>2, <3>3 DEF next, st, flag, WentOn
  <2>4. CASE ~ (t # <<>> /\ f.kind # "branch" /\ cf \in Failures)
    BY <1>1, <2>2, <2>4 DEF next, st, flag, WentOn
  <2> QED
    BY <2>3, <2>4
<1> QED
  BY <1>2, <1>3

\* A step in which t, become ts[t] and without branches, goes on after the
\* statement at work has ended with cf.
LEMMA ContinuedStep ==
  ASSUME InterpreterInv, NEW t \in DOMAIN threads, threads[t].result = "running", AllEnded(t),
         NEW ts, DOMAIN ts = DOMAIN threads \ Branches(t),
         \A p \in DOMAIN ts \ {t} : ts[p] = threads[p],
         IsThread(ts[t]), ts[t].result = "running", ts[t].cancel = threads[t].cancel,
         Nested(ts[t].stack), Last(ts[t].stack).exit = "running",
         Has(ts[t].stack, {"cancelled"}) => Has(threads[t].stack, {"cancelled"}),
         NEW cf \in Exits \ {"running"},
         cf = "cancelled" => Has(threads[t].stack, {"cancelled"}),
         t # <<>> /\ Has(threads[t].stack, Real) =>
           Has(ts[t].stack, Real) \/ cf \in Real \/ t \in handled',
         threads' = Continues(ts, t, Last(ts[t].stack), cf),
         main' = main, handled \subseteq handled'
  PROVE  InterpreterInv'
<1> DEFINE s == ts[t].stack
           f == Last(s)
           st == Append(Front(s), After(f, cf))
           r == [ts[t] EXCEPT !.stack = st]
           flag == cf \in Failures /\ f.kind # "branch"
<1>1. s \in Seq(FrameSet) /\ s # <<>> /\ f \in FrameSet
  <2>1. s \in Seq(FrameSet) /\ s # <<>>
    BY DEF IsThread
  <2> QED
    BY <2>1, PopFacts, Zenon
<1>2. /\ After(f, cf) \in FrameSet /\ After(f, cf).kind = f.kind
      /\ After(f, cf).exit = IF cf = "ok" THEN "running" ELSE cf
  BY <1>1, AfterTyped
<1>3. /\ st \in Seq(FrameSet) /\ st # <<>> /\ Nested(st)
      /\ \A E : Has(s, E) /\ (f.exit \in E => After(f, cf).exit \in E) => Has(st, E)
      /\ \A E : Has(st, E) => Has(s, E) \/ After(f, cf).exit \in E
      /\ \A E : After(f, cf).exit \in E => Has(st, E)
  BY <1>1, <1>2, ReplacedStack
<1>4. IsThread(r) /\ r.stack = st /\ r.result = "running" /\ r.cancel = threads[t].cancel
  <2> HIDE DEF st
  <2> QED
    BY <1>3, WithStack
<1>5. t \in DOMAIN ts /\ (t # <<>> => Front(t) \in DOMAIN ts /\ Front(t) # t)
  <2>1. Typed /\ Family
    BY DEF InterpreterInv
  <2>2. t \notin Branches(t)
    BY <2>1, BranchFacts
  <2>3. ASSUME t # <<>>
        PROVE  Front(t) \in DOMAIN threads /\ Front(t) # t /\ Front(t) \notin Branches(t)
    BY <2>1, <2>3, ParentFacts, BranchFacts
  <2> QED
    BY <2>2, <2>3
<1>6. Moves(t, r, flag)
  <2> DEFINE next == Continues(ts, t, f, cf)
  <2>1. WentOn(next, ts, t, After(f, cf), flag)
    BY <1>5, ContinuesFacts, Zenon
  <2>2. threads' = next
    OBVIOUS
  <2> HIDE DEF next, flag
  <2> QED
    BY <2>1, <2>2 DEF Moves, WentOn
<1> HIDE DEF r, st
<1>7. Cut(threads[t]) => t = <<>> \/ threads[Front(t)].cancel
  BY DEF InterpreterInv, CutsFlagged
<1>8. ASSUME t # <<>>, Cut(r)
      PROVE  threads[Front(t)].cancel
  <2>1. Has(st, {"cancelled"})
    BY <1>4, <1>8 DEF Cut
  <2>2. Has(s, {"cancelled"}) \/ cf = "cancelled"
    BY <1>2, <1>3, <2>1
  <2>3. Cut(threads[t])
    BY <2>2 DEF Cut
  <2> QED
    BY <1>7, <1>8, <2>3
<1>9. ASSUME cf \in Real
      PROVE  Failed(r)
  <2>1. After(f, cf).exit \in Real
    BY <1>2, <1>9 DEF Real
  <2> QED
    BY <1>3, <1>4, <2>1 DEF Failed
<1>10. ASSUME t # <<>>, flag
       PROVE  Failed(r) \/ threads[Front(t)].cancel
  <2>1. CASE cf = "cancelled"
    BY <1>7, <1>10, <2>1 DEF Cut
  <2>2. CASE cf # "cancelled"
    BY <1>9, <1>10, <2>2 DEF Failures, Real
  <2> QED
    BY <2>1, <2>2
<1>11. ASSUME t # <<>>, Failed(threads[t]), t \notin handled'
       PROVE  Failed(r)
  <2>1. Has(threads[t].stack, Real)
    BY <1>11 DEF Failed
  <2>2. CASE cf \in Real
    BY <1>9, <2>2
  <2>3. CASE Has(s, Real)
    <3>1. "running" \notin Real
      BY DEF Real
    <3>2. Has(st, Real)
      BY <1>3, <2>3, <3>1
    <3> QED
      BY <1>4, <3>2 DEF Failed
  <2> QED
    BY <1>11, <2>1, <2>2, <2>3
<1>12. MayBecome(t, r, flag)
  BY <1>3, <1>4, <1>8, <1>10, <1>11 DEF MayBecome
<1> HIDE DEF flag
<1> QED
  BY <1>6, <1>12, MoveKeepsInv, Zenon

-----------------------------------------------------------------------------
(***************************************************************************)
(* The actions.                                                            *)
(***************************************************************************)
\* The next step of t is one of its own statements.
LEMMA LiveFacts ==
  ASSUME InterpreterInv, NEW t \in DOMAIN threads, Live(t)
  PROVE  /\ threads[t].result = "running" /\ Top(t).exit = "running"
         /\ AtEnd(Top(t)) \/ AtWork(Top(t))[1] # "par" => Branches(t) = {}
         /\ ~ AtEnd(Top(t)) => AtWork(Top(t)) \in MainStatements
<1>1. threads[t].result = "running" /\ Top(t).exit = "running"
  BY DEF Live
<1>2. Branches(t) # {} => Waits(t)
  BY DEF InterpreterInv, Family
<1>3. ~ AtEnd(Top(t)) => AtWork(Top(t)) \in MainStatements
  BY <1>1, TopFacts, WorkTyped
<1> QED
  BY <1>1, <1>2, <1>3 DEF Waits

\* The top frame is replaced by one that is still running, or cancelled.
LEMMA ReplacedStep ==
  ASSUME InterpreterInv, NEW t \in DOMAIN threads, Live(t), Branches(t) = {},
         NEW g \in FrameSet, g.kind = Top(t).kind,
         \/ g.exit \in {"running", "ok"}
         \/ g.exit = "cancelled" /\ threads[Front(t)].cancel,
         threads' = Replaced(t, g), main' = main, handled \subseteq handled'
  PROVE  InterpreterInv'
<1> DEFINE s == threads[t].stack
           st == Append(Front(s), g)
<1>1. threads[t].result = "running" /\ Top(t).exit = "running"
  BY LiveFacts
<1>2. s \in Seq(FrameSet) /\ s # <<>> /\ Nested(s) /\ Top(t) = Last(s)
  BY <1>1, TopFacts
<1>3. /\ st \in Seq(FrameSet) /\ st # <<>> /\ Nested(st)
      /\ \A E : Has(s, E) /\ (Last(s).exit \in E => g.exit \in E) => Has(st, E)
      /\ \A E : Has(st, E) => Has(s, E) \/ g.exit \in E
  BY <1>2, ReplacedStack
<1>4. threads' = [threads EXCEPT ![t].stack = st]
  BY DEF Replaced
<1> HIDE DEF st
<1>5. Has(st, {"cancelled"}) => Has(s, {"cancelled"}) \/ threads[Front(t)].cancel
  BY <1>3
<1>6. Has(s, Real) => Has(st, Real)
  <2>1. Last(s).exit \notin Real
    BY <1>1, <1>2 DEF Real
  <2> QED
    BY <1>3, <2>1
<1> QED
  BY <1>1, <1>3, <1>4, <1>5, <1>6, QuietStack, Zenon

LEMMA PushedStep ==
  ASSUME InterpreterInv, NEW t \in DOMAIN threads, Live(t), Branches(t) = {},
         NEW g \in FrameSet, g.exit = "running",
         threads' = Pushed(t, g), main' = main, handled \subseteq handled'
  PROVE  InterpreterInv'
<1> DEFINE s == threads[t].stack
           st == Append(s, g)
<1>1. threads[t].result = "running" /\ Top(t).exit = "running"
  BY LiveFacts
<1>2. s \in Seq(FrameSet) /\ s # <<>> /\ Nested(s) /\ Top(t) = Last(s)
  BY <1>1, TopFacts
<1>3. /\ st \in Seq(FrameSet) /\ st # <<>> /\ Nested(st)
      /\ \A E : Has(s, E) => Has(st, E)
      /\ \A E : "running" \notin E /\ Has(st, E) => Has(s, E)
  BY <1>1, <1>2, PushedStack
<1>4. threads' = [threads EXCEPT ![t].stack = st]
  BY DEF Pushed
<1> HIDE DEF st
<1>5. Has(st, {"cancelled"}) => Has(s, {"cancelled"}) \/ threads[Front(t)].cancel
  BY <1>3
<1>6. Has(s, Real) => Has(st, Real)
  BY <1>3
<1> QED
  BY <1>1, <1>3, <1>4, <1>5, <1>6, QuietStack, Zenon

LEMMA CheckCancelledStep ==
  ASSUME InterpreterInv, NEW t \in DOMAIN threads, CheckCancelled(t)
  PROVE  InterpreterInv'
<1> DEFINE f == Top(t)
           g == IF threads[Front(t)].cancel THEN [f EXCEPT !.exit = "cancelled"]
                ELSE [f EXCEPT !.checked = TRUE]
<1>1. /\ Live(t) /\ Branches(t) = {} /\ threads' = Replaced(t, g)
      /\ main' = main /\ handled' = handled
  BY DEF CheckCancelled
<1>2. f \in FrameSet /\ f.exit = "running"
  BY <1>1, LiveFacts, TopFacts
<1>3. /\ [f EXCEPT !.exit = "cancelled"] \in FrameSet /\ [f EXCEPT !.checked = TRUE] \in FrameSet
      /\ [f EXCEPT !.exit = "cancelled"].exit = "cancelled"
      /\ [f EXCEPT !.exit = "cancelled"].kind = f.kind
      /\ [f EXCEPT !.checked = TRUE].exit = f.exit /\ [f EXCEPT !.checked = TRUE].kind = f.kind
  <2>1. "cancelled" \in Exits /\ TRUE \in BOOLEAN
    BY DEF Exits
  <2> HIDE DEF f
  <2> QED
    BY <1>2, <2>1 DEF FrameSet
<1>4. /\ g \in FrameSet /\ g.kind = f.kind
      /\ \/ g.exit \in {"running", "ok"}
         \/ g.exit = "cancelled" /\ threads[Front(t)].cancel
  <2> HIDE DEF f
  <2> QED
    BY <1>2, <1>3
<1> HIDE DEF g
<1> QED
  BY <1>1, <1>4, ReplacedStep

LEMMA LeaveStep ==
  ASSUME InterpreterInv, NEW t \in DOMAIN threads, Leave(t)
  PROVE  InterpreterInv'
<1> DEFINE f == Top(t)
           g == [f EXCEPT !.exit = "ok"]
<1>1. /\ Live(t) /\ AtEnd(f) /\ threads' = Replaced(t, g) /\ main' = main /\ handled' = handled
  BY DEF Leave
<1>2. f \in FrameSet /\ Branches(t) = {}
  BY <1>1, LiveFacts, TopFacts
<1>3. g \in FrameSet /\ g.exit = "ok" /\ g.kind = f.kind
  <2>1. "ok" \in Exits
    BY DEF Exits
  <2> HIDE DEF f
  <2> QED
    BY <1>2, <2>1 DEF FrameSet
<1> HIDE DEF g
<1> QED
  BY <1>1, <1>2, <1>3, ReplacedStep

LEMMA DeferStep ==
  ASSUME InterpreterInv, NEW t \in DOMAIN threads, Defer(t)
  PROVE  InterpreterInv'
<1> DEFINE f == Top(t)
           s == AtWork(f)
           h == [f EXCEPT !.at = @ + 1]
           g == IF f.kind = "branch" THEN h
                ELSE IF s[1] = "defer" THEN [h EXCEPT !.cleanup = Append(@, s)]
                ELSE [h EXCEPT !.errdefers = Append(@, s)]
<1>1. /\ Live(t) /\ ~ AtEnd(f) /\ Deferred(s) /\ threads' = Replaced(t, g)
      /\ main' = main /\ handled' = handled
  BY DEF Defer
<1>2. f \in FrameSet /\ f.exit = "running" /\ Branches(t) = {} /\ s \in MainStatements
  <2>1. s[1] # "par"
    BY <1>1 DEF Deferred
  <2> QED
    BY <1>1, <2>1, LiveFacts, TopFacts
<1> HIDE DEF s
<1>3. f.at + 1 \in Nat \ {0} /\ f.cleanup \in Seq(Actions) /\ f.errdefers \in Seq(Errdefers)
  BY <1>2, FrameFields
<1>4. h = [f EXCEPT !.at = f.at + 1] /\ h.cleanup = f.cleanup /\ h.errdefers = f.errdefers
      /\ h \in FrameSet /\ h.kind = f.kind /\ h.exit = f.exit
  <2> HIDE DEF f
  <2> QED
    BY <1>2, <1>3 DEF FrameSet
<1> HIDE DEF h
<1>5. ASSUME s[1] = "defer"
      PROVE  LET k == [h EXCEPT !.cleanup = Append(@, s)]
             IN k \in FrameSet /\ k.kind = f.kind /\ k.exit = f.exit
  <2> DEFINE c == Append(f.cleanup, s)
  <2>1. s \in Actions
    BY <1>2, <1>5 DEF Actions, Defers
  <2>2. c \in Seq(Actions)
    BY <1>3, <2>1, PushFacts, Zenon
  <2> HIDE DEF c
  <2>3. [h EXCEPT !.cleanup = c] \in FrameSet /\ [h EXCEPT !.cleanup = c].kind = h.kind
        /\ [h EXCEPT !.cleanup = c].exit = h.exit
    BY <1>4, <2>2 DEF FrameSet
  <2> QED
    BY <1>4, <2>3 DEF c
<1>6. ASSUME s[1] # "defer"
      PROVE  LET k == [h EXCEPT !.errdefers = Append(@, s)]
             IN k \in FrameSet /\ k.kind = f.kind /\ k.exit = f.exit
  <2> DEFINE c == Append(f.errdefers, s)
  <2>1. s \in Errdefers
    BY <1>1, <1>2, <1>6 DEF Deferred, Errdefers
  <2>2. c \in Seq(Errdefers)
    BY <1>3, <2>1, PushFacts, Zenon
  <2> HIDE DEF c
  <2>3. [h EXCEPT !.errdefers = c] \in FrameSet /\ [h EXCEPT !.errdefers = c].kind = h.kind
        /\ [h EXCEPT !.errdefers = c].exit = h.exit
    BY <1>4, <2>2 DEF FrameSet
  <2> QED
    BY <1>4, <2>3 DEF c
<1>7. g \in FrameSet /\ g.kind = f.kind /\ g.exit = "running"
  <2> HIDE DEF f
  <2> QED
    BY <1>2, <1>4, <1>5, <1>6
<1> HIDE DEF g
<1> QED
  BY <1>1, <1>2, <1>7, ReplacedStep

LEMMA SimpleStep ==
  ASSUME InterpreterInv, NEW t \in DOMAIN threads, Simple(t)
  PROVE  InterpreterInv'
<1> DEFINE f == Top(t)
           s == AtWork(f)
           q == threads[t]
           st == Append(Front(q.stack), Advanced(f))
           out == IF s[1] = "do" THEN Append(q.out, s[2]) ELSE q.out
           r == [stack |-> st, out |-> out, result |-> q.result, cancel |-> q.cancel]
<1>1. /\ Live(t) /\ Branches(t) = {} /\ main' = main /\ handled' = handled
      /\ threads' = [Replaced(t, Advanced(f)) EXCEPT
                      ![t].out = IF s[1] = "do" THEN Append(@, s[2]) ELSE @]
  BY DEF Simple, Evaluates
<1>2. /\ f.exit = "running" /\ q.result = "running" /\ f = Last(q.stack)
      /\ q.stack \in Seq(FrameSet) /\ q.stack # <<>> /\ Nested(q.stack)
      /\ IsThread(q) /\ f \in FrameSet
  BY <1>1, LiveFacts, TopFacts
<1>3. Advanced(f) \in FrameSet /\ Advanced(f).kind = f.kind /\ Advanced(f).exit = f.exit
  BY <1>2, AdvancedTyped
<1>4. /\ st \in Seq(FrameSet) /\ st # <<>> /\ Nested(st)
      /\ \A E : Has(q.stack, E) /\ (f.exit \in E => Advanced(f).exit \in E) => Has(st, E)
      /\ \A E : Has(st, E) => Has(q.stack, E) \/ Advanced(f).exit \in E
  BY <1>2, <1>3, ReplacedStack
<1>5. threads' = [threads EXCEPT ![t] = r]
  <2>1. q = [stack |-> q.stack, out |-> q.out, result |-> q.result, cancel |-> q.cancel]
    BY <1>2 DEF IsThread
  <2>2. threads' = [threads EXCEPT ![t] = [[q EXCEPT !.stack = st] EXCEPT !.out = out]]
    BY <1>1 DEF Replaced
  <2> HIDE DEF q, st, out
  <2> DEFINE q1 == [q EXCEPT !.stack = st]
  <2>3. q1 = [stack |-> st, out |-> q.out, result |-> q.result, cancel |-> q.cancel]
    BY <2>1
  <2>4. threads' = [threads EXCEPT ![t] = [q1 EXCEPT !.out = out]]
    BY <2>2
  <2> HIDE DEF q1
  <2>5. [q1 EXCEPT !.out = out] = r
    BY <2>3
  <2> QED
    BY <2>4, <2>5
<1> HIDE DEF st, out
<1>6. r.stack = st /\ r.result = "running" /\ r.cancel = threads[t].cancel /\ r.out = out
  BY <1>2
<1>7. IsThread(r)
  BY <1>2, <1>4, <1>6 DEF IsThread
<1>8. Has(st, {"cancelled"}) => Has(q.stack, {"cancelled"})
  BY <1>2, <1>3, <1>4
<1>9. Has(q.stack, Real) => Has(st, Real)
  BY <1>2, <1>3, <1>4
<1> HIDE DEF r
<1> QED
  BY <1>1, <1>2, <1>4, <1>5, <1>6, <1>7, <1>8, <1>9, QuietStep

LEMMA RaiseStep ==
  ASSUME InterpreterInv, NEW t \in DOMAIN threads, Raise(t)
  PROVE  InterpreterInv'
<1> DEFINE f == Top(t)
           cf == AtWork(f)[2]
<1>1. /\ Live(t) /\ ~ AtEnd(f) /\ Branches(t) = {} /\ AtWork(f)[1] = "raise"
      /\ threads' = Raised(threads, t, f, cf) /\ main' = main /\ handled' = handled
  BY DEF Raise, Evaluates
<1>2. /\ threads[t].result = "running" /\ f.exit = "running" /\ f = Last(threads[t].stack)
      /\ IsThread(threads[t]) /\ Nested(threads[t].stack) /\ AtWork(f) \in MainStatements
  BY <1>1, LiveFacts, TopFacts
<1>3. cf \in Raisable
  BY <1>1, <1>2, StatementFacts
<1> HIDE DEF cf
<1>4. cf \in Exits \ {"running"} /\ cf # "ok" /\ cf # "cancelled"
  BY <1>3 DEF Raisable, Exits
<1>5. threads' = Continues(threads, t, Last(threads[t].stack), cf)
  BY <1>1, <1>2, <1>4 DEF Continues
<1>6. AllEnded(t) /\ DOMAIN threads = DOMAIN threads \ Branches(t)
  BY <1>1 DEF AllEnded
<1> HIDE DEF f
<1> QED
  BY <1>1, <1>2, <1>4, <1>5, <1>6, ContinuedStep

LEMMA EnterStep ==
  ASSUME InterpreterInv, NEW t \in DOMAIN threads, Enter(t)
  PROVE  InterpreterInv'
<1> DEFINE f == Top(t)
           s == AtWork(f)
<1>1. /\ Live(t) /\ ~ AtEnd(f) /\ Branches(t) = {} /\ s[1] \in {"block", "call", "loop", "par"}
      /\ main' = main /\ handled' = handled
      /\ threads' =
           CASE s[1] = "block" -> Pushed(t, Frame("block", s[2], 0))
             [] s[1] = "par" -> Pushed(t, Frame("block", [body |-> s[2], tail |-> <<>>], 0))
             [] s[1] = "call" -> Pushed(t, Frame(IF s[2] THEN "call?" ELSE "call", s[3], 0))
             [] s[1] = "loop" -> IF s[2] = 0 THEN Replaced(t, Advanced(f))
                                 ELSE Pushed(t, Frame("loop", s[3], s[2] - 1))
  BY DEF Enter, Evaluates
<1>2. s \in MainStatements /\ f \in FrameSet /\ f.exit = "running"
  BY <1>1, LiveFacts, TopFacts
<1>3. ASSUME NEW kind \in Kinds, NEW B \in Blocks, NEW rounds \in Int,
             threads' = Pushed(t, Frame(kind, B, rounds))
      PROVE  InterpreterInv'
  <2> DEFINE g == Frame(kind, B, rounds)
  <2>1. g \in FrameSet /\ g.exit = "running"
    BY FrameTyped
  <2> HIDE DEF g
  <2> QED
    BY <1>1, <1>3, <2>1, PushedStep DEF g
<1> HIDE DEF s
<1>4. CASE s[1] = "block"
  <2>1. threads' = Pushed(t, Frame("block", s[2], 0))
    BY <1>1, <1>4
  <2>2. s[2] \in Blocks /\ "block" \in Kinds
    BY <1>2, <1>4, StatementFacts DEF Kinds
  <2> QED
    BY <1>3, <2>1, <2>2
<1>5. CASE s[1] = "par"
  <2>1. threads' = Pushed(t, Frame("block", [body |-> s[2], tail |-> <<>>], 0))
    BY <1>1, <1>5
  <2>2. [body |-> s[2], tail |-> <<>>] \in Blocks /\ "block" \in Kinds
    BY <1>2, <1>5, StatementFacts DEF Kinds
  <2> QED
    BY <1>3, <2>1, <2>2
<1>6. CASE s[1] = "call"
  <2> DEFINE kind == IF s[2] THEN "call?" ELSE "call"
  <2>1. threads' = Pushed(t, Frame(kind, s[3], 0))
    BY <1>1, <1>6
  <2>2. s[3] \in Blocks /\ kind \in Kinds
    BY <1>2, <1>6, StatementFacts DEF Kinds
  <2> HIDE DEF kind
  <2> QED
    BY <1>3, <2>1, <2>2
<1>7. CASE s[1] = "loop"
  <2>1. threads' = IF s[2] = 0 THEN Replaced(t, Advanced(f))
                   ELSE Pushed(t, Frame("loop", s[3], s[2] - 1))
    BY <1>1, <1>7
  <2>2. CASE s[2] = 0
    <3>1. Advanced(f) \in FrameSet /\ Advanced(f).kind = f.kind /\ Advanced(f).exit = "running"
      BY <1>2, AdvancedTyped
    <3> QED
      BY <1>1, <2>1, <2>2, <3>1, ReplacedStep
  <2>3. CASE s[2] # 0
    <3>1. s[3] \in Blocks /\ "loop" \in Kinds /\ s[2] \in Nat
      BY <1>2, <1>7, StatementFacts DEF Kinds
    <3>2. s[2] - 1 \in Int
      BY <3>1
    <3> QED
      BY <1>3, <2>1, <2>3, <3>1, <3>2
  <2> QED
    BY <2>2, <2>3
<1> QED
  BY <1>1, <1>4, <1>5, <1>6, <1>7

\* A deferred block is run over a frame that is being left.
LEMMA DeferredStep ==
  ASSUME InterpreterInv, NEW t \in DOMAIN threads, CleaningUp(t),
         NEW g \in FrameSet, g.kind = Top(t).kind, g.exit = Top(t).exit,
         NEW B, B \in Blocks, main' = main, handled \subseteq handled',
         \/ threads' = Replaced(t, g)
         \/ threads' = [Replaced(t, g) EXCEPT ![t].stack = Append(@, Frame("cleanup", B, 0))]
  PROVE  InterpreterInv'
<1> DEFINE s == threads[t].stack
           st == Append(Front(s), g)
           h == Frame("cleanup", B, 0)
           deep == Append(st, h)
<1>1. threads[t].result = "running" /\ Branches(t) = {}
  BY DEF CleaningUp
<1>2. s \in Seq(FrameSet) /\ s # <<>> /\ Nested(s) /\ Top(t) = Last(s)
  BY <1>1, TopFacts
<1>3. /\ st \in Seq(FrameSet) /\ st # <<>> /\ Nested(st)
      /\ \A E : Has(s, E) /\ (Last(s).exit \in E => g.exit \in E) => Has(st, E)
      /\ \A E : Has(st, E) => Has(s, E) \/ g.exit \in E
  BY <1>2, ReplacedStack
<1>4. \A E : Has(st, E) <=> Has(s, E)
  <2>1. ASSUME NEW E, Last(s).exit \in E
        PROVE  Has(s, E)
    <3>1. Len(s) \in Nat \ {0} /\ Last(s) = s[Len(s)]
      BY <1>2, PopFacts, Zenon
    <3> QED
      BY <2>1, <3>1 DEF Has
  <2> QED
    BY <1>2, <1>3, <2>1
<1>5. CASE threads' = Replaced(t, g)
  <2>1. threads' = [threads EXCEPT ![t].stack = st]
    BY <1>5 DEF Replaced
  <2> HIDE DEF st
  <2> QED
    BY <1>1, <1>3, <1>4, <2>1, QuietStack, Zenon
<1>6. CASE threads' = [Replaced(t, g) EXCEPT ![t].stack = Append(@, h)]
  <2>1. h \in FrameSet /\ h.kind = "cleanup" /\ h.exit = "running"
    BY FrameTyped DEF Kinds
  <2> HIDE DEF st, h
  <2>2. /\ deep \in Seq(FrameSet) /\ deep # <<>> /\ Nested(deep)
        /\ \A E : Has(st, E) => Has(deep, E)
        /\ \A E : "running" \notin E /\ Has(deep, E) => Has(st, E)
    BY <1>3, <2>1, PushedStack
  <2>3. threads' = [threads EXCEPT ![t].stack = deep]
    <3> DEFINE q == [threads[t] EXCEPT !.stack = st]
               once == Replaced(t, g)
    <3>1. once = [threads EXCEPT ![t] = q]
      BY DEF Replaced, st
    <3>2. IsThread(threads[t])
      BY <1>1, TopFacts
    <3>3. q.stack = st /\ [q EXCEPT !.stack = deep] = [threads[t] EXCEPT !.stack = deep]
      BY <3>2 DEF IsThread
    <3> HIDE DEF q, deep
    <3>4. once[t] = q /\ [once EXCEPT ![t] = [q EXCEPT !.stack = deep]]
                          = [threads EXCEPT ![t] = [q EXCEPT !.stack = deep]]
      BY <3>1
    <3>5. threads' = [once EXCEPT ![t] = [once[t] EXCEPT !.stack = Append(once[t].stack, h)]]
      BY <1>6
    <3>6. Append(once[t].stack, h) = deep
      BY <3>3, <3>4 DEF deep
    <3> HIDE DEF once
    <3> QED
      BY <3>3, <3>4, <3>5, <3>6
  <2> HIDE DEF deep
  <2>4. Has(deep, {"cancelled"}) => Has(s, {"cancelled"}) \/ threads[Front(t)].cancel
    BY <1>4, <2>2
  <2>5. Has(s, Real) => Has(deep, Real)
    BY <1>4, <2>2
  <2> QED
    BY <1>1, <2>2, <2>3, <2>4, <2>5, QuietStack, Zenon
<1> QED
  BY <1>5, <1>6

LEMMA CleanUpStep ==
  ASSUME InterpreterInv, NEW t \in DOMAIN threads, CleanUp(t)
  PROVE  InterpreterInv'
<1> DEFINE f == Top(t)
           e == Last(f.errdefers)
           a == Last(f.cleanup)
           ge == [f EXCEPT !.errdefers = Front(f.errdefers)]
           ga == [f EXCEPT !.cleanup = Front(f.cleanup)]
<1>1. CleaningUp(t) /\ main' = main /\ handled' = handled
  BY DEF CleanUp
<1>2. f \in FrameSet /\ f.cleanup \in Seq(Actions) /\ f.errdefers \in Seq(Errdefers)
  BY <1>1, TopFacts, FrameFields DEF CleaningUp
<1>3. CASE LeftErrdefers(f) # <<>>
  <2>1. \/ threads' = Replaced(t, ge)
        \/ threads' = [Replaced(t, ge) EXCEPT ![t].stack = Append(@, Frame("cleanup", e[3], 0))]
    BY <1>3 DEF CleanUp
  <2>2. f.errdefers # <<>>
    BY <1>3 DEF LeftErrdefers
  <2>3. Front(f.errdefers) \in Seq(Errdefers) /\ e[3] \in Blocks
    BY <1>2, <2>2, ErrdeferTyped
  <2>4. ge \in FrameSet /\ ge.kind = f.kind /\ ge.exit = f.exit
    <3> DEFINE q == Front(f.errdefers)
    <3>1. q \in Seq(Errdefers)
      BY <2>3
    <3> HIDE DEF f, q
    <3>2. LET h == [f EXCEPT !.errdefers = q]
          IN h \in FrameSet /\ h.kind = f.kind /\ h.exit = f.exit
      BY <1>2, <3>1 DEF FrameSet
    <3> QED
      BY <3>2 DEF q
  <2> HIDE DEF f, e, ge
  <2> QED
    BY <1>1, <2>1, <2>3, <2>4, DeferredStep DEF f
<1>4. CASE LeftErrdefers(f) = <<>>
  <2>1. f.cleanup # <<>>
    BY <1>4 DEF CleanUp
  <2>2. threads' = IF a[1] = "drop" THEN Replaced(t, ga)
                   ELSE [Replaced(t, ga) EXCEPT ![t].stack = Append(@, Frame("cleanup", a[2], 0))]
    BY <1>4 DEF CleanUp
  <2>3. Front(f.cleanup) \in Seq(Actions) /\ (a[1] # "drop" => a[2] \in Blocks)
    BY <1>2, <2>1, DeferTyped
  <2>4. ga \in FrameSet /\ ga.kind = f.kind /\ ga.exit = f.exit
    <3> DEFINE q == Front(f.cleanup)
    <3>1. q \in Seq(Actions)
      BY <2>3
    <3> HIDE DEF f, q
    <3>2. LET h == [f EXCEPT !.cleanup = q]
          IN h \in FrameSet /\ h.kind = f.kind /\ h.exit = f.exit
      BY <1>2, <3>1 DEF FrameSet
    <3> QED
      BY <3>2 DEF q
  <2>5. f.block \in Blocks
    BY <1>2, FrameFields
  <2> HIDE DEF f, a, ga
  <2>6. CASE a[1] = "drop"
    BY <1>1, <2>2, <2>4, <2>5, <2>6, DeferredStep DEF f
  <2>7. CASE a[1] # "drop"
    BY <1>1, <2>2, <2>3, <2>4, <2>7, DeferredStep DEF f
  <2> QED
    BY <2>6, <2>7
<1> QED
  BY <1>3, <1>4

LEMMA OutcomeFacts ==
  ASSUME NEW f \in FrameSet, f.exit # "running"
  PROVE  /\ Outcome(f) \in Exits \ {"running"}
         /\ Outcome(f) = "cancelled" => f.exit = "cancelled"
         /\ f.exit \in Real /\ f.kind # "cleanup" => Outcome(f) \in Real \/ Handled(f)
         /\ f.exit \in Real /\ f.kind = "cleanup" => Handled(f)
<1>1. f.kind \in Kinds /\ f.exit \in Exits
  BY FrameFields
<1>2. CASE f.kind \in {"call", "call?"}
  <2>1. Outcome(f) = Propagated(f.kind = "call?", CallResult(f.exit))
    BY <1>2 DEF Outcome
  <2>2. f.kind = "call?" \/ f.kind = "call"
    BY <1>2
  <2> QED
    BY <1>1, <2>1, <2>2 DEF Propagated, CallResult, Exits, Real, Handled
<1>3. CASE f.kind = "loop"
  <2>1. Outcome(f) = LoopResult(f.exit)
    BY <1>3 DEF Outcome
  <2> QED
    BY <1>1, <1>3, <2>1 DEF LoopResult, Exits, Real
<1>4. CASE f.kind \notin {"call", "call?", "loop"}
  <2>1. Outcome(f) = f.exit
    BY <1>4 DEF Outcome
  <2> QED
    BY <1>1, <2>1 DEF Handled, Real, Failures
<1> QED
  BY <1>2, <1>3, <1>4

LEMMA EndBlockStep ==
  ASSUME InterpreterInv, NEW t \in DOMAIN threads, EndBlock(t)
  PROVE  InterpreterInv'
<1> DEFINE s == threads[t].stack
           f == Top(t)
           st == Front(s)
           below == [threads EXCEPT ![t].stack = st]
           rounds == f.kind = "loop" /\ f.exit \in {"ok", "continue"} /\ f.rounds > 0
<1>1. /\ CleaningUp(t) /\ Len(s) > 1 /\ main' = main
      /\ handled' = IF t # <<>> /\ Handled(f) THEN handled \cup {t} ELSE handled
      /\ threads' = IF f.kind = "cleanup" THEN below
                    ELSE IF rounds THEN Replaced(t, Frame("loop", f.block, f.rounds - 1))
                    ELSE Continues(below, t, Last(below[t].stack), Outcome(f))
  BY DEF EndBlock
<1>2. /\ threads[t].result = "running" /\ Branches(t) = {} /\ f.exit # "running"
      /\ handled \subseteq handled' /\ (t # <<>> /\ Handled(f) => t \in handled')
  BY <1>1 DEF CleaningUp
<1>3. s \in Seq(FrameSet) /\ s # <<>> /\ Nested(s) /\ f = Last(s) /\ f \in FrameSet /\ IsThread(threads[t])
  BY <1>2, TopFacts
<1>4. /\ st \in Seq(FrameSet) /\ st # <<>> /\ Nested(st)
      /\ \A E : Has(s, E) => Has(st, E) \/ f.exit \in E
      /\ \A E : Has(st, E) => Has(s, E)
      /\ f.kind # "cleanup" => Last(st).exit = "running"
  BY <1>1, <1>3, PoppedStack
<1>5. /\ Outcome(f) \in Exits \ {"running"}
      /\ Outcome(f) = "cancelled" => f.exit = "cancelled"
      /\ f.exit \in Real /\ f.kind # "cleanup" => Outcome(f) \in Real \/ Handled(f)
      /\ f.exit \in Real /\ f.kind = "cleanup" => Handled(f)
  BY <1>2, <1>3, OutcomeFacts, Zenon
<1>6. \A E : f.exit \in E => Has(s, E)
  <2>1. Len(s) \in Nat \ {0} /\ Last(s) = s[Len(s)]
    BY <1>3, PopFacts, Zenon
  <2> QED
    BY <1>3, <2>1 DEF Has
<1>7. CASE f.kind = "cleanup"
  <2>1. threads' = below
    BY <1>1, <1>7
  <2>2. t # <<>> /\ Has(s, Real) => Has(st, Real) \/ t \in handled'
    BY <1>2, <1>4, <1>5, <1>7
  <2>3. Has(st, {"cancelled"}) => Has(s, {"cancelled"})
    BY <1>4
  <2> HIDE DEF st
  <2> QED
    BY <1>1, <1>2, <1>4, <2>1, <2>2, <2>3, QuietStack
<1>8. CASE f.kind # "cleanup" /\ rounds
  <2> DEFINE g == Frame("loop", f.block, f.rounds - 1)
             loop == Append(Front(s), g)
  <2>1. threads' = Replaced(t, g)
    BY <1>1, <1>8
  <2>2. f.block \in Blocks /\ f.rounds \in Int
    BY <1>3, FrameFields
  <2>3. g \in FrameSet /\ g.kind = f.kind /\ g.exit = "running"
    <3>1. f.rounds - 1 \in Int /\ "loop" \in Kinds
      BY <2>2 DEF Kinds
    <3> QED
      BY <1>8, <2>2, <3>1, FrameTyped
  <2> HIDE DEF g
  <2>4. /\ loop \in Seq(FrameSet) /\ loop # <<>> /\ Nested(loop)
        /\ \A E : Has(s, E) /\ (f.exit \in E => g.exit \in E) => Has(loop, E)
        /\ \A E : Has(loop, E) => Has(s, E) \/ g.exit \in E
    BY <1>3, <2>3, ReplacedStack
  <2>5. threads' = [threads EXCEPT ![t].stack = loop]
    BY <2>1 DEF Replaced
  <2> HIDE DEF loop
  <2>6. Has(s, Real) => Has(loop, Real)
    BY <1>8, <2>4 DEF Real
  <2>7. Has(loop, {"cancelled"}) => Has(s, {"cancelled"})
    BY <2>3, <2>4
  <2> HIDE DEF s
  <2> QED
    BY <1>1, <1>2, <2>4, <2>5, <2>6, <2>7, QuietStack DEF s
<1>9. CASE f.kind # "cleanup" /\ ~ rounds
  <2> DEFINE cf == Outcome(f)
             ts == below
  <2>1. threads' = Continues(ts, t, Last(ts[t].stack), cf)
    BY <1>1, <1>9
  <2>2. /\ ts[t].stack = st /\ IsThread(ts[t]) /\ ts[t].result = "running"
        /\ ts[t].cancel = threads[t].cancel
    <3>1. ts[t] = [threads[t] EXCEPT !.stack = st]
      OBVIOUS
    <3> HIDE DEF st, ts
    <3> QED
      BY <1>2, <1>3, <1>4, <3>1, WithStack
  <2>3. DOMAIN ts = DOMAIN threads \ Branches(t) /\ \A p \in DOMAIN ts \ {t} : ts[p] = threads[p]
    BY <1>2
  <2>4. AllEnded(t)
    BY <1>2 DEF AllEnded
  <2>5. cf \in Exits \ {"running"} /\ (cf = "cancelled" => Has(s, {"cancelled"}))
    BY <1>5, <1>6
  <2>6. t # <<>> /\ Has(s, Real) => Has(st, Real) \/ cf \in Real \/ t \in handled'
    BY <1>2, <1>4, <1>5, <1>9
  <2>7. Has(st, {"cancelled"}) => Has(s, {"cancelled"})
    BY <1>4
  <2>8. Nested(st) /\ Last(st).exit = "running"
    BY <1>4, <1>9
  <2> HIDE DEF st, ts, cf, f
  <2> QED
    BY <1>1, <1>2, <2>1, <2>2, <2>3, <2>4, <2>5, <2>6, <2>7, <2>8, ContinuedStep
<1> QED
  BY <1>7, <1>8, <1>9

LEMMA FinishStep ==
  ASSUME InterpreterInv, NEW t \in DOMAIN threads, Finish(t)
  PROVE  InterpreterInv'
<1> DEFINE q == threads[t]
           s == q.stack
           cf == Top(t).exit
           r == [stack |-> <<>>, out |-> q.out, result |-> cf, cancel |-> q.cancel]
           ended == [threads EXCEPT ![t] = r]
           cuts == t # <<>> /\ cf # "ok"
<1>1. /\ CleaningUp(t) /\ Len(s) = 1 /\ main' = main
      /\ handled' = handled
  BY DEF Finish
<1>2. q.result = "running" /\ Branches(t) = {} /\ cf # "running" /\ handled \subseteq handled'
  BY <1>1 DEF CleaningUp
<1>3. /\ s \in Seq(FrameSet) /\ s # <<>> /\ Top(t) = Last(s) /\ Top(t) \in FrameSet /\ IsThread(q)
      /\ cf \in Exits
  BY <1>2, TopFacts, FrameFields
<1>4. threads' = IF cuts THEN [ended EXCEPT ![Front(t)].cancel = TRUE] ELSE ended
  <2>1. [[q EXCEPT !.result = cf] EXCEPT !.stack = <<>>] = r
    <3> DEFINE q1 == [q EXCEPT !.result = cf]
    <3>1. q = [stack |-> q.stack, out |-> q.out, result |-> q.result, cancel |-> q.cancel]
      BY <1>3 DEF IsThread
    <3> HIDE DEF q, cf
    <3>2. q1 = [stack |-> q.stack, out |-> q.out, result |-> cf, cancel |-> q.cancel]
      BY <3>1
    <3> HIDE DEF q1
    <3>3. [q1 EXCEPT !.stack = <<>>] = r
      BY <3>2
    <3> QED
      BY <3>3 DEF q1
  <2>2. [threads EXCEPT ![t].result = cf, ![t].stack = <<>>] = ended
    BY <2>1
  <2> QED
    BY <2>2 DEF Finish
<1>5. /\ r.stack = <<>> /\ r.result = cf /\ r.cancel = q.cancel /\ r.out = q.out
      /\ \A E : Has(s, E) <=> cf \in E
  <2>1. Last(s) = s[1]
    BY <1>1 DEF Last
  <2> QED
    BY <1>1, <1>3, <2>1 DEF Has
<1>6. t # <<>> => Front(t) \in DOMAIN threads /\ Front(t) # t
  BY ParentFacts DEF InterpreterInv
<1>7. IsThread(r) /\ Nested(r.stack)
  <2>1. <<>> \in Seq(FrameSet) /\ Len(<<>>) = 0
    BY EmptySeq
  <2>2. r.cancel \in BOOLEAN
    BY <1>3, <1>5 DEF IsThread
  <2> HIDE DEF cf, q
  <2> QED
    BY <1>2, <1>3, <1>5, <2>1, <2>2 DEF IsThread, Nested
<1>8. AllEnded(t)
  BY <1>2 DEF AllEnded
<1> HIDE DEF cf, q, r
<1>9. Moves(t, r, cuts)
  <2>1. /\ DOMAIN ended = DOMAIN threads /\ ended[t] = r
        /\ \A p \in DOMAIN threads \ {t} : ended[p] = threads[p]
    OBVIOUS
  <2> HIDE DEF ended
  <2>2. CASE cuts
    BY <1>1, <1>2, <1>4, <1>6, <2>1, <2>2 DEF Moves
  <2>3. CASE ~ cuts
    BY <1>1, <1>2, <1>4, <2>1, <2>3 DEF Moves
  <2> QED
    BY <2>2, <2>3
<1>10. ASSUME t # <<>>, Cut(r)
       PROVE  cuts
  <2>1. cf = "cancelled"
    BY <1>2, <1>3, <1>5, <1>10 DEF Cut, Exits
  <2> QED
    BY <1>10, <2>1
<1>11. ASSUME cuts
       PROVE  Failed(r) \/ threads[Front(t)].cancel
  <2>1. CASE cf = "cancelled"
    BY <1>2, <1>5, <1>11, <2>1, CutFlagged DEF q
  <2>2. CASE cf # "cancelled"
    BY <1>2, <1>3, <1>5, <1>11, <2>2 DEF Failed, Exits
  <2> QED
    BY <2>1, <2>2
<1>12. ASSUME Failed(threads[t])
       PROVE  Failed(r)
  <2>1. cf \in Real
    BY <1>2, <1>5, <1>12 DEF Failed, q
  <2> QED
    BY <1>5, <2>1 DEF Failed, Real
<1>13. MayBecome(t, r, cuts)
  <2>1. r.result # "new"
    BY <1>3, <1>5 DEF Exits
  <2> QED
    BY <1>5, <1>7, <1>10, <1>11, <1>12, <2>1 DEF MayBecome, q
<1> HIDE DEF cuts
<1> QED
  BY <1>8, <1>9, <1>13, MoveKeepsInv, Zenon

\* The branches at a par block with the statements S.
LEMMA NewBranches ==
  ASSUME Typed, Family, NEW t \in DOMAIN threads, NEW S, IsCode(S)
  PROVE  \A p \in {t \o <<i>> : i \in DOMAIN S} :
           p \in Path /\ p # <<>> /\ p # t /\ Front(p) = t /\ Len(p) = Len(t) + 1
<1> SUFFICES ASSUME NEW i \in DOMAIN S
             PROVE  LET p == t \o <<i>>
                    IN p \in Path /\ p # <<>> /\ p # t /\ Front(p) = t /\ Len(p) = Len(t) + 1
  OBVIOUS
<1> DEFINE p == t \o <<i>>
<1>1. t \in Path /\ i \in Nat \ {0}
  BY DEF Typed, IsCode
<1>2. p \in Path /\ p # <<>> /\ Front(p) = t /\ Len(p) = Len(t) + 1
  BY <1>1, PathFacts
<1>3. Len(t) \in Nat
  BY <1>1 DEF Path
<1> HIDE DEF p
<1>4. p # t
  BY <1>2, <1>3
<1> QED
  BY <1>2, <1>4 DEF p

LEMMA ForkBranchesStep ==
  ASSUME InterpreterInv, NEW t \in DOMAIN threads, ForkBranches(t)
  PROVE  InterpreterInv'
<1> DEFINE S == AtWork(Top(t))[2]
           new == {t \o <<i>> : i \in DOMAIN S}
           D == DOMAIN threads
           r == [threads[t] EXCEPT !.cancel = FALSE]
<1>1. /\ Live(t) /\ ~ AtEnd(Top(t)) /\ Branches(t) = {} /\ AtWork(Top(t))[1] = "par"
      /\ threads' = [p \in D \cup new |->
                       IF p \in new THEN Thread ELSE IF p = t THEN r ELSE threads[p]]
      /\ main' = main /\ handled' = handled \ new
  BY DEF ForkBranches, Evaluates
<1>2. Typed /\ Family /\ NestedAll /\ CutsFlagged /\ FlagsFounded
  BY DEF InterpreterInv
<1>3. IsCode(S)
  BY <1>1, LiveFacts, StatementFacts
<1>4. \A p \in new : p \in Path /\ p # <<>> /\ p # t /\ Front(p) = t /\ Len(p) = Len(t) + 1
  BY <1>2, <1>3, NewBranches, Zenon
<1>5. \A p \in new : p \notin D
  BY <1>1, <1>4 DEF Branches
<1>6. IsThread(threads[t])
  BY <1>2 DEF Typed
<1>7. /\ IsThread(r) /\ r.stack = threads[t].stack /\ r.result = threads[t].result
      /\ r.cancel = FALSE
  <2> DEFINE q == threads[t]
  <2>1. q = [stack |-> q.stack, out |-> q.out, result |-> q.result, cancel |-> q.cancel]
    BY <1>6 DEF IsThread
  <2> HIDE DEF q
  <2>2. [q EXCEPT !.cancel = FALSE]
          = [stack |-> q.stack, out |-> q.out, result |-> q.result, cancel |-> FALSE]
    <3>1. \A c : [q EXCEPT !.cancel = c]
                   = [stack |-> q.stack, out |-> q.out, result |-> q.result, cancel |-> c]
      BY <2>1
    <3> QED
      BY <3>1
  <2>3. r = [stack |-> q.stack, out |-> q.out, result |-> q.result, cancel |-> FALSE]
    BY <2>2 DEF q
  <2> HIDE DEF r
  <2>4. /\ r.stack = q.stack /\ r.out = q.out /\ r.result = q.result /\ r.cancel = FALSE
    BY <2>3
  <2> QED
    BY <1>6, <2>3, <2>4 DEF IsThread, q
<1>8. /\ IsThread(Thread) /\ Nested(Thread.stack) /\ Thread.result = "new" /\ ~ Cut(Thread)
  <2>1. <<>> \in Seq(FrameSet) /\ Len(<<>>) = 0
    BY EmptySeq
  <2> QED
    BY <2>1 DEF Thread, IsThread, Nested, Cut
<1> HIDE DEF new, r, S
<1>9. DOMAIN threads' = D \cup new /\ t \in DOMAIN threads' /\ t \notin new
  BY <1>1, <1>5
<1>10. \A p \in new : threads'[p] = Thread
  BY <1>1
<1>11. \A p \in D : /\ threads'[p].stack = threads[p].stack
                    /\ threads'[p].result = threads[p].result
                    /\ IsThread(threads'[p])
                    /\ p # t => threads'[p].cancel = threads[p].cancel
  BY <1>1, <1>2, <1>5, <1>7 DEF Typed
<1>12. threads'[t].cancel = FALSE
  BY <1>1, <1>5, <1>7
<1>13. ASSUME NEW u \in new
       PROVE  Branches(u)' = {}
  <2> SUFFICES ASSUME NEW q \in DOMAIN threads', Len(q) = Len(u) + 1, Front(q) = u
               PROVE  FALSE
    BY DEF Branches
  <2>1. Len(u) \in Nat /\ Len(<<>>) = 0
    BY <1>4 DEF Path
  <2>2. q # <<>>
    BY <2>1
  <2>3. CASE q \in new
    BY <1>4, <2>3
  <2>4. CASE q \in D
    BY <1>2, <1>5, <2>2, <2>4 DEF Family
  <2> QED
    BY <1>9, <2>3, <2>4
<1>14. ASSUME NEW u \in D, u # t
       PROVE  Branches(u)' = Branches(u)
  BY <1>4, <1>9, <1>14 DEF Branches
<1>15. Branches(t)' = new
  BY <1>1, <1>4, <1>9 DEF Branches
<1>16. Typed'
  <2>1. DOMAIN threads' \in SUBSET Path /\ <<>> \in DOMAIN threads'
    BY <1>2, <1>4, <1>9 DEF Typed
  <2>2. \A p \in DOMAIN threads' : IsThread(threads'[p])
    BY <1>8, <1>9, <1>10, <1>11
  <2>3. threads'[<<>>].result # "new"
    BY <1>2, <1>11 DEF Typed
  <2> QED
    BY <1>1, <1>2, <2>1, <2>2, <2>3 DEF Typed
<1>17. Family'
  <2>1. \A p \in DOMAIN threads' : p = <<>> \/ Front(p) \in DOMAIN threads'
    BY <1>2, <1>4, <1>9 DEF Family
  <2>2. ASSUME NEW u \in DOMAIN threads', Branches(u)' # {}
        PROVE  Waits(u)'
    <3>1. u \in D
      BY <1>9, <1>13, <2>2
    <3>2. threads'[u].stack = threads[u].stack /\ threads'[u].result = threads[u].result
      BY <1>11, <3>1
    <3>3. CASE u = t
      BY <1>1, <1>15, <3>2, <3>3 DEF Waits, Live, Top, new, S
    <3>4. CASE u # t
      <4>1. Waits(u) /\ Branches(u)' = Branches(u)
        BY <1>2, <1>14, <2>2, <3>1, <3>4 DEF Family
      <4> QED
        BY <3>2, <4>1 DEF Waits, Live, Top
    <3> QED
      BY <3>3, <3>4
  <2> QED
    BY <2>1, <2>2 DEF Family
<1>18. NestedAll'
  BY <1>2, <1>8, <1>9, <1>10, <1>11 DEF NestedAll
<1>19. CutsFlagged'
  <2> SUFFICES ASSUME NEW p \in DOMAIN threads' \ {<<>>}, Cut(threads'[p])
               PROVE  threads'[Front(p)].cancel
    BY DEF CutsFlagged
  <2>1. p \in D
    BY <1>8, <1>9, <1>10
  <2>2. Cut(threads[p])
    BY <1>11, <2>1 DEF Cut
  <2>3. threads[Front(p)].cancel /\ Front(p) \in D
    BY <1>2, <2>1, <2>2 DEF CutsFlagged, Family
  <2>4. Front(p) # t
    BY <1>1, <1>2, <2>1, ParentFacts
  <2> QED
    BY <1>11, <2>3, <2>4
<1>20. FlagsFounded'
  <2> SUFFICES ASSUME NEW u \in DOMAIN threads', threads'[u].cancel, Branches(u)' # {}
               PROVE  \E p \in Branches(u)' : Failed(threads'[p]) \/ p \in handled'
    BY DEF FlagsFounded
  <2>1. u \in D /\ u # t
    BY <1>9, <1>12, <1>13
  <2>2. threads[u].cancel /\ Branches(u)' = Branches(u)
    BY <1>11, <1>14, <2>1
  <2>3. PICK p \in Branches(u) : Failed(threads[p]) \/ p \in handled
    BY <1>2, <2>1, <2>2 DEF FlagsFounded
  <2>4. p \in D
    BY DEF Branches
  <2>5. Failed(threads'[p]) \/ p \in handled'
    BY <1>1, <1>5, <1>11, <2>3, <2>4 DEF Failed
  <2> QED
    BY <2>2, <2>3, <2>5
<1> QED
  BY <1>16, <1>17, <1>18, <1>19, <1>20 DEF InterpreterInv

LEMMA StartBranchStep ==
  ASSUME InterpreterInv, NEW t \in DOMAIN threads, StartBranch(t)
  PROVE  InterpreterInv'
<1> DEFINE q == threads[t]
           u == Front(t)
           s == AtWork(Top(u))[2][Last(t)]
           B == [body |-> <<s>>, tail |-> <<>>]
           g == Frame("branch", B, 0)
           r == IF threads[u].cancel THEN [q EXCEPT !.result = "skipped"]
                ELSE [q EXCEPT !.result = "running", !.stack = <<g>>]
<1>1. q.result = "new" /\ main' = main /\ handled' = handled /\ threads' = [threads EXCEPT ![t] = r]
  BY DEF StartBranch
<1>2. Typed /\ Family /\ NestedAll
  BY DEF InterpreterInv
<1>3. t # <<>> /\ t \in Path /\ IsThread(q) /\ Nested(q.stack)
  BY <1>1, <1>2 DEF Typed, NestedAll
<1>4. Branches(t) = {}
  BY <1>1, <1>2 DEF Family, Waits, Live
<1>5. u \in DOMAIN threads /\ t \in Branches(u) /\ Waits(u)
  BY <1>2, <1>3, ParentFacts DEF Family
<1>6. s \in MainStatements
  <2> DEFINE S == AtWork(Top(u))[2]
  <2>1. IsCode(S)
    BY <1>5, LiveFacts, StatementFacts DEF Waits
  <2>2. PICK i \in DOMAIN S : t = u \o <<i>>
    BY <1>5 DEF Waits
  <2>3. i \in Nat \ {0} /\ u \in Path
    BY <1>2, <1>5, <2>1 DEF IsCode, Typed
  <2>4. Last(t) = i
    BY <2>2, <2>3, PathFacts
  <2> QED
    BY <2>1, <2>4 DEF IsCode
<1>7. g \in FrameSet /\ g.exit = "running"
  <2>1. B \in Blocks /\ "branch" \in Kinds
    BY <1>6 DEF Blocks, Kinds
  <2> HIDE DEF B
  <2> QED
    BY <2>1, FrameTyped
<1>8. <<g>> \in Seq(FrameSet) /\ <<g>> # <<>> /\ Len(<<g>>) = 1 /\ <<g>>[1] = g
  <2> HIDE DEF g
  <2> QED
    BY <1>7
<1> HIDE DEF s, g
<1>9. q = [stack |-> q.stack, out |-> q.out, result |-> q.result, cancel |-> q.cancel]
  BY <1>3 DEF IsThread
<1>10. AllEnded(t) /\ Moves(t, r, FALSE)
  <2> HIDE DEF r
  <2> QED
    BY <1>1, <1>4 DEF AllEnded, Moves
<1>11. ~ Failed(q)
  BY <1>1 DEF Failed
<1>12. CASE threads[u].cancel
  <2> HIDE DEF q
  <2>1. r = [stack |-> q.stack, out |-> q.out, result |-> "skipped", cancel |-> q.cancel]
    BY <1>9, <1>12
  <2> HIDE DEF r
  <2>2. /\ r.stack = q.stack /\ r.out = q.out /\ r.result = "skipped" /\ r.cancel = q.cancel
    BY <2>1
  <2>3. IsThread(r)
    BY <1>3, <2>1, <2>2 DEF IsThread
  <2>4. MayBecome(t, r, FALSE)
    BY <1>3, <1>11, <1>12, <2>2, <2>3 DEF MayBecome, q
  <2> QED
    BY <1>10, <2>4, MoveKeepsInv, Zenon
<1>13. CASE ~ threads[u].cancel
  <2> DEFINE q1 == [q EXCEPT !.result = "running"]
             st == <<g>>
  <2> HIDE DEF q
  <2>1. q1 = [stack |-> q.stack, out |-> q.out, result |-> "running", cancel |-> q.cancel]
    BY <1>9
  <2>2. r = [q1 EXCEPT !.stack = st]
    BY <1>13
  <2> HIDE DEF q1, r, st
  <2>3. r = [stack |-> st, out |-> q.out, result |-> "running", cancel |-> q.cancel]
    BY <2>1, <2>2
  <2>4. /\ r.stack = st /\ r.out = q.out /\ r.result = "running" /\ r.cancel = q.cancel
    BY <2>3
  <2>5. st \in Seq(FrameSet) /\ st # <<>> /\ Len(st) = 1 /\ st[1] = g
    BY <1>8 DEF st
  <2>6. IsThread(r)
    <3>1. q.cancel \in BOOLEAN
      BY <1>3 DEF IsThread
    <3> QED
      BY <2>3, <2>4, <2>5, <3>1 DEF IsThread, Exits
  <2>7. Nested(r.stack) /\ ~ Cut(r)
    BY <1>7, <2>4, <2>5 DEF Nested, Cut, Has
  <2>8. MayBecome(t, r, FALSE)
    BY <1>11, <2>4, <2>6, <2>7 DEF MayBecome, q
  <2> QED
    BY <1>10, <2>8, MoveKeepsInv, Zenon
<1> QED
  BY <1>12, <1>13

(***************************************************************************)
(* The join of the branches.                                               *)
(***************************************************************************)
LEMMA InOrderFacts ==
  ASSUME InterpreterInv, NEW t \in DOMAIN threads, Branches(t) # {}
  PROVE  LET n == Cardinality(Branches(t))
         IN /\ n \in Nat /\ DOMAIN InOrder(t) = 1 .. n
            /\ \A i \in 1 .. n : t \o <<i>> \in Branches(t) /\ InOrder(t)[i] = threads[t \o <<i>>]
            /\ \A p \in Branches(t) : \E i \in 1 .. n : InOrder(t)[i] = threads[p]
<1> DEFINE S == AtWork(Top(t))[2]
           n == Len(S)
           f == [i \in 1 .. n |-> t \o <<i>>]
<1>1. Waits(t) /\ t \in Path
  BY DEF InterpreterInv, Family, Typed
<1>2. IsCode(S)
  BY <1>1, LiveFacts, StatementFacts DEF Waits
<1>3. Branches(t) = {t \o <<i>> : i \in DOMAIN S}
  BY <1>1 DEF Waits
<1> HIDE DEF S
<1>4. n \in Nat /\ DOMAIN S = 1 .. n
  BY <1>2 DEF IsCode
<1> HIDE DEF n
<1>5. f \in Bijection(1 .. n, Branches(t))
  <2>1. \A i \in 1 .. n : f[i] = t \o <<i>> /\ f[i] \in Branches(t)
    BY <1>3, <1>4
  <2>2. \A i \in 1 .. n : Last(f[i]) = i
    <3> SUFFICES ASSUME NEW i \in 1 .. n PROVE Last(f[i]) = i
      OBVIOUS
    <3>1. i \in Nat \ {0}
      BY <1>4
    <3>2. Last(t \o <<i>>) = i
      BY <1>1, <3>1, PathFacts, Zenon
    <3>3. f[i] = t \o <<i>>
      BY <2>1, Zenon
    <3> QED
      BY <3>2, <3>3, Zenon
  <2>3. \A p \in Branches(t) : \E i \in 1 .. n : f[i] = p
    BY <1>3, <1>4, <2>1
  <2>4. f \in [1 .. n -> Branches(t)]
    BY <2>1
  <2>5. \A i, j \in 1 .. n : f[i] = f[j] => i = j
    BY <2>2
  <2> HIDE DEF f
  <2> QED
    BY <2>3, <2>4, <2>5 DEF Bijection, Injection, Surjection, IsInjective
<1>6. Cardinality(Branches(t)) = n
  <2>1. ExistsBijection(1 .. n, Branches(t))
    BY <1>5 DEF ExistsBijection
  <2> QED
    BY <1>4, <2>1, FS_CountingElements, Zenon
<1>7. \A i \in 1 .. n : InOrder(t)[i] = threads[t \o <<i>>]
  BY <1>6 DEF InOrder
<1>8. DOMAIN InOrder(t) = 1 .. n
  BY <1>6 DEF InOrder
<1>9. \A p \in Branches(t) : \E i \in 1 .. n : p = t \o <<i>>
  BY <1>3, <1>4
<1> QED
  BY <1>3, <1>4, <1>6, <1>7, <1>8, <1>9

\* A join ends with the result of a branch, or well when none has failed.
LEMMA JoinFacts ==
  ASSUME InterpreterInv, NEW t \in DOMAIN threads, Joinable(t)
  PROVE  \/ /\ JoinResult(t) = "ok"
            /\ \A p \in Branches(t) : threads[p].result \in {"ok", "cancelled", "skipped"}
         \/ JoinResult(t) \in Exits \ {"running", "ok", "cancelled"}
<1> DEFINE ended == InOrder(t)
           n == Cardinality(Branches(t))
           real == {i \in DOMAIN ended : ended[i].result \notin {"ok", "cancelled", "skipped"}}
<1>1. Branches(t) # {} /\ \A p \in Branches(t) : threads[p].result \notin {"new", "running"}
  BY DEF Joinable
<1>2. /\ n \in Nat /\ DOMAIN ended = 1 .. n
      /\ \A i \in 1 .. n : t \o <<i>> \in Branches(t) /\ ended[i] = threads[t \o <<i>>]
      /\ \A p \in Branches(t) : \E i \in 1 .. n : ended[i] = threads[p]
  BY <1>1, InOrderFacts
<1>3. JoinResult(t) = IF real = {} THEN "ok" ELSE ended[Min(real)].result
  BY DEF JoinResult
<1> HIDE DEF ended, n
<1>4. CASE real = {}
  BY <1>2, <1>3, <1>4
<1>5. CASE real # {}
  <2>1. real \in SUBSET Nat
    BY <1>2
  <2>2. \E m \in real : \A y \in real : m <= y
    <3> HIDE DEF real
    <3> QED
      BY <1>5, <2>1, HasLeast
  <2>3. Min(real) \in real
    <3> HIDE DEF real
    <3> QED
      BY <2>2 DEF Min
  <2> DEFINE i == Min(real)
  <2>4. i \in 1 .. n /\ ended[i].result \notin {"ok", "cancelled", "skipped"}
    BY <1>2, <2>3
  <2> HIDE DEF i
  <2>5. t \o <<i>> \in Branches(t) /\ ended[i] = threads[t \o <<i>>]
    BY <1>2, <2>4
  <2>6. ended[i].result \in Exits \cup {"new", "skipped"}
    <3>1. t \o <<i>> \in DOMAIN threads
      BY <2>5 DEF Branches
    <3> QED
      BY <2>5, <3>1 DEF InterpreterInv, Typed, IsThread
  <2>7. ended[i].result \notin {"new", "running"}
    BY <1>1, <2>5
  <2>8. JoinResult(t) = ended[i].result
    BY <1>3, <1>5 DEF i
  <2> QED
    BY <2>4, <2>6, <2>7, <2>8
<1> QED
  BY <1>4, <1>5

LEMMA JoinBranchesStep ==
  ASSUME InterpreterInv, NEW t \in DOMAIN threads, JoinBranches(t)
  PROVE  InterpreterInv'
<1> DEFINE q == threads[t]
           cf == JoinResult(t)
           out == FoldLeft(LAMBDA o, b : o \o b.out, q.out, InOrder(t))
           merged == [q EXCEPT !.out = out]
           joined == [p \in DOMAIN threads \ Branches(t) |-> IF p = t THEN merged ELSE threads[p]]
<1>1. /\ Joinable(t) /\ threads' = Continues(joined, t, Top(t), cf)
      /\ main' = main /\ handled' = handled
  BY DEF JoinBranches
<1>2. Waits(t) /\ AllEnded(t)
  BY <1>1 DEF InterpreterInv, Family, Joinable, AllEnded
<1>3. /\ q.result = "running" /\ Top(t).exit = "running" /\ Top(t) = Last(q.stack)
      /\ IsThread(q) /\ Nested(q.stack)
  BY <1>2, LiveFacts, TopFacts DEF Waits
<1>4. cf \in Exits \ {"running"} /\ cf # "cancelled"
  BY <1>1, JoinFacts DEF Exits
<1> HIDE DEF cf, out
<1>5. /\ merged.stack = q.stack /\ merged.result = q.result /\ merged.cancel = q.cancel
      /\ IsThread(merged)
  <2> HIDE DEF q
  <2>1. q = [stack |-> q.stack, out |-> q.out, result |-> q.result, cancel |-> q.cancel]
    BY <1>3 DEF IsThread
  <2>2. merged = [stack |-> q.stack, out |-> out, result |-> q.result, cancel |-> q.cancel]
    BY <2>1
  <2> HIDE DEF merged
  <2>3. /\ merged.stack = q.stack /\ merged.out = out /\ merged.result = q.result
        /\ merged.cancel = q.cancel
    BY <2>2
  <2> QED
    BY <1>3, <2>2, <2>3 DEF IsThread
<1>6. t \notin Branches(t)
  BY BranchFacts DEF InterpreterInv
<1> HIDE DEF merged
<1>7. /\ DOMAIN joined = DOMAIN threads \ Branches(t) /\ joined[t] = merged
      /\ \A p \in DOMAIN joined \ {t} : joined[p] = threads[p]
  BY <1>6
<1> HIDE DEF joined, q
<1>8. threads' = Continues(joined, t, Last(joined[t].stack), cf)
  BY <1>1, <1>3, <1>5, <1>7
<1> QED
  BY <1>1, <1>2, <1>3, <1>4, <1>5, <1>7, <1>8, ContinuedStep DEF q

-----------------------------------------------------------------------------
LEMMA InterpreterInvariant == InterpreterSpec => []InterpreterInv
<1>1. InterpreterInit => InterpreterInv
  <2> SUFFICES ASSUME InterpreterInit PROVE InterpreterInv
    OBVIOUS
  <2> DEFINE f == Frame("block", main, 0)
             st == <<f>>
             r == [stack |-> st, out |-> <<>>, result |-> "running", cancel |-> FALSE]
  <2>1. main \in MainBodies /\ threads = [p \in {<<>>} |-> r]
    <3>1. MainThread(main) = r
      BY Zenon DEF MainThread
    <3> HIDE DEF r
    <3> QED
      BY <3>1, Zenon DEF InterpreterInit
  <2>2. f \in FrameSet /\ f.exit = "running"
    <3>1. main \in Blocks /\ "block" \in Kinds
      BY <2>1, StatementsAssumption DEF Blocks, Kinds
    <3> QED
      BY <3>1, FrameTyped
  <2> HIDE DEF f
  <2>3. st \in Seq(FrameSet) /\ st # <<>> /\ Len(st) = 1 /\ st[1] = f
    BY <2>2
  <2> HIDE DEF st
  <2>4. r.stack = st /\ r.result = "running" /\ r.cancel = FALSE /\ r.out = <<>>
    OBVIOUS
  <2>5. IsThread(r)
    BY <2>3, <2>4 DEF IsThread, Exits
  <2>6. Nested(st)
    BY <2>3 DEF Nested
  <2> HIDE DEF r
  <2>7. DOMAIN threads = {<<>>} /\ threads[<<>>] = r
    BY <2>1
  <2>8. Branches(<<>>) = {}
    <3>1. Len(<<>>) = 0
      OBVIOUS
    <3> QED
      BY <2>7, <3>1 DEF Branches
  <2>9. Typed
    <3>1. <<>> \in Path
      BY EmptySeq DEF Path
    <3> QED
      BY <2>1, <2>4, <2>5, <2>7, <3>1 DEF Typed
  <2>10. Family /\ NestedAll /\ CutsFlagged /\ FlagsFounded
    BY <2>4, <2>6, <2>7, <2>8 DEF Family, NestedAll, CutsFlagged, FlagsFounded
  <2> QED
    BY <2>9, <2>10 DEF InterpreterInv
<1>2. InterpreterInv /\ [InterpreterNext]_interpreterVars => InterpreterInv'
  <2> SUFFICES ASSUME InterpreterInv, [InterpreterNext]_interpreterVars PROVE InterpreterInv'
    OBVIOUS
  <2>1. ASSUME NEW t \in DOMAIN threads,
               \/ CheckCancelled(t) \/ Defer(t) \/ Simple(t) \/ Raise(t) \/ Enter(t) \/ Leave(t)
               \/ CleanUp(t) \/ EndBlock(t) \/ Finish(t) \/ ForkBranches(t) \/ StartBranch(t)
               \/ JoinBranches(t)
        PROVE  InterpreterInv'
    BY <2>1, CheckCancelledStep, DeferStep, SimpleStep, RaiseStep, EnterStep, LeaveStep,
       CleanUpStep, EndBlockStep, FinishStep, ForkBranchesStep, StartBranchStep,
       JoinBranchesStep, Zenon
  <2>2. CASE UNCHANGED interpreterVars
    BY <2>2 DEF interpreterVars, InterpreterInv, Typed, Family, NestedAll, CutsFlagged,
                FlagsFounded, Waits, Branches, Live, Top
  <2> QED
    BY <2>1, <2>2 DEF InterpreterNext
<1> QED
  BY <1>1, <1>2, PTL DEF InterpreterSpec

\* A par block of the interpreter that ends well, for every program, is one
\* all of whose branches ran to their ends and ended well: eval_par_block
\* passes over branches that were cut short only when it has a failure to
\* report.  The exception is a par block one of whose own branches handled an
\* error inside itself (handled): that error raised the flag all the same.
THEOREM CutsAreReported == InterpreterSpec => []CutsReported
<1>1. InterpreterInv => CutsReported
  <2> SUFFICES ASSUME InterpreterInv, NEW t \in DOMAIN threads, Joinable(t),
                      JoinResult(t) = "ok", NEW p \in Branches(t), threads[p].result # "ok"
               PROVE  \E q \in Branches(t) : q \in handled
    BY DEF CutsReported
  <2>1. \A b \in Branches(t) : threads[b].result \in {"ok", "cancelled", "skipped"}
    BY JoinFacts
  <2>2. p \in DOMAIN threads /\ Front(p) = t /\ p # <<>>
    BY BranchFacts DEF InterpreterInv
  <2>3. Cut(threads[p])
    BY <2>1 DEF Cut
  <2>4. threads[t].cancel
    BY <2>2, <2>3 DEF InterpreterInv, CutsFlagged
  <2>5. PICK b \in Branches(t) : Failed(threads[b]) \/ b \in handled
    BY <2>4 DEF InterpreterInv, FlagsFounded
  <2>6. ~ Failed(threads[b])
    BY <2>1 DEF Failed
  <2> QED
    BY <2>5, <2>6
<1> QED
  BY <1>1, InterpreterInvariant, PTL
=============================================================================
